-------------------------- MODULE TcpClientProofs --------------------------
(***************************************************************************)
(* Proofs about TcpClient and its Connector, for every number of calls and *)
(* however often attempts fail and connections are closed.  A client that  *)
(* is told to connect once has one start, one timer, one attempt or one    *)
(* connection at a time; from this follow its assertions and the ownership *)
(* of its sockets.  Then the timer of ~TcpClient, and stop().              *)
(***************************************************************************)
EXTENDS TcpClient, SequenceTheorems, FiniteSetTheorems, TLAPS

FunctorNames == {"startInLoop", "stopInLoop", "resetChannel", "connectDestroyed"}

Positions(q, f) == {i \in 1 .. Len(q) : q[i] = f}

\* How often f is in a queue.
CountIn(q, f) == Cardinality(Positions(q, f))

\* Every f in the queue runs before the loop polls again: p is phase and b is batch.
Soon(q, f, p, b) == \A k \in 1 .. Len(q) : q[k] = f => p # "functors" \/ k <= b

\* How a queue is counted when a functor is appended ...
LEMMA CountAppend ==
    ASSUME NEW q \in Seq(FunctorNames), NEW g \in FunctorNames
    PROVE  /\ Append(q, g) \in Seq(FunctorNames) /\ Len(Append(q, g)) = Len(q) + 1
           /\ \A f : /\ CountIn(q, f) \in Nat
                     /\ CountIn(Append(q, g), f) = IF f = g THEN CountIn(q, f) + 1 ELSE CountIn(q, f)
           /\ \A f, p, b : Soon(q, f, p, b) /\ (f # g \/ p # "functors") => Soon(Append(q, g), f, p, b)
<1> HIDE DEF FunctorNames
<1>1. Len(q) \in Nat
  BY LenProperties
<1>2. /\ Append(q, g) \in Seq(FunctorNames) /\ Len(Append(q, g)) = Len(q) + 1
      /\ Append(q, g)[Len(q) + 1] = g
      /\ \A i \in 1 .. Len(q) : Append(q, g)[i] = q[i]
  BY AppendProperties
<1>3. ASSUME NEW f
      PROVE  /\ CountIn(q, f) \in Nat
             /\ CountIn(Append(q, g), f) = IF f = g THEN CountIn(q, f) + 1 ELSE CountIn(q, f)
  <2>1. IsFiniteSet(Positions(q, f)) /\ Cardinality(Positions(q, f)) \in Nat
    <3>1. IsFiniteSet(1 .. Len(q)) /\ Positions(q, f) \subseteq 1 .. Len(q)
      BY <1>1, FS_Interval DEF Positions
    <3> QED BY <3>1, FS_Subset, FS_CardinalityType
  <2>2. CASE f = g
    <3>1. Positions(Append(q, g), f) = Positions(q, f) \cup {Len(q) + 1} /\ Len(q) + 1 \notin Positions(q, f)
      BY <1>1, <1>2, <2>2 DEF Positions
    <3> QED BY <2>1, <2>2, <3>1, FS_AddElement, Zenon DEF CountIn
  <2>3. CASE f # g
    <3>1. Positions(Append(q, g), f) = Positions(q, f)
      BY <1>1, <1>2, <2>3 DEF Positions
    <3> QED BY <2>1, <2>3, <3>1 DEF CountIn
  <2> QED BY <2>2, <2>3
<1>4. ASSUME NEW f, NEW p, NEW b, Soon(q, f, p, b), f # g \/ p # "functors"
      PROVE  Soon(Append(q, g), f, p, b)
  BY <1>1, <1>2, <1>4 DEF Soon
<1> QED BY <1>2, <1>3, <1>4

\* ... and when the first one is run.
LEMMA CountTail ==
    ASSUME NEW q \in Seq(FunctorNames), NEW b \in 1 .. Len(q)
    PROVE  /\ Tail(q) \in Seq(FunctorNames) /\ Len(Tail(q)) = Len(q) - 1 /\ Head(q) \in FunctorNames
           /\ \A f : /\ CountIn(q, f) \in Nat /\ CountIn(Tail(q), f) \in Nat
                     /\ CountIn(q, f) = IF f = Head(q) THEN CountIn(Tail(q), f) + 1 ELSE CountIn(Tail(q), f)
           /\ \A f, p : Soon(q, f, p, b) => Soon(Tail(q), f, p, b - 1)
<1> HIDE DEF FunctorNames
<1>1. Len(q) \in Nat /\ q # <<>>
  BY LenProperties, EmptySeq
<1>2. /\ Head(q) \in FunctorNames /\ Head(q) = q[1] /\ Tail(q) \in Seq(FunctorNames) /\ Len(Tail(q)) = Len(q) - 1
      /\ \A i \in 1 .. Len(q) - 1 : Tail(q)[i] = q[i + 1]
  BY <1>1, HeadTailProperties
<1>3. ASSUME NEW f
      PROVE  /\ CountIn(q, f) \in Nat /\ CountIn(Tail(q), f) \in Nat
             /\ CountIn(q, f) = IF f = Head(q) THEN CountIn(Tail(q), f) + 1 ELSE CountIn(Tail(q), f)
  <2> DEFINE P == Positions(Tail(q), f)
             S == Positions(q, f) \ {1}
             h == [i \in P |-> i + 1]
  <2>1. IsFiniteSet(P) /\ Cardinality(P) \in Nat
    <3>1. Len(Tail(q)) \in Nat /\ P \subseteq 1 .. Len(Tail(q))
      BY <1>2, LenProperties DEF Positions
    <3>2. IsFiniteSet(1 .. Len(Tail(q)))
      BY <3>1, FS_Interval
    <3> HIDE DEF P
    <3> QED BY <3>1, <3>2, FS_Subset, FS_CardinalityType, Zenon
  <2>2. P = {i \in 1 .. Len(q) - 1 : q[i + 1] = f}
    BY <1>2 DEF Positions
  <2>3. /\ \A i \in P : i \in Nat /\ i + 1 \in S
        /\ \A j \in S : j \in Nat /\ j - 1 \in P /\ (j - 1) + 1 = j
    BY <1>1, <2>2 DEF Positions
  <2>4. h \in Bijection(P, S)
    <3> HIDE DEF P, S
    <3>1. h \in [P -> S] /\ \A i \in P : h[i] = i + 1
      BY <2>3
    <3>2. \A i, j \in P : h[i] = h[j] => i = j
      BY <2>3, <3>1
    <3>3. \A j \in S : \E i \in P : h[i] = j
      BY <2>3, <3>1
    <3> HIDE DEF h
    <3> QED BY <3>1, <3>2, <3>3 DEF Bijection, Injection, Surjection, IsInjective
  <2>5. IsFiniteSet(S) /\ Cardinality(S) = Cardinality(P)
    <3> HIDE DEF P, S, h
    <3> QED BY <2>1, <2>4, FS_Bijection DEF ExistsBijection
  <2>6. CASE f = Head(q)
    <3>1. Positions(q, f) = S \cup {1} /\ 1 \notin S
      BY <1>1, <1>2, <2>6 DEF Positions
    <3> HIDE DEF P, S, h
    <3>2. Cardinality(Positions(q, f)) = Cardinality(S) + 1
      BY <2>5, <3>1, FS_AddElement, Zenon
    <3> QED BY <2>1, <2>5, <2>6, <3>2 DEF CountIn, P
  <2>7. CASE f # Head(q)
    <3>1. Positions(q, f) = S
      BY <1>1, <1>2, <2>7 DEF Positions
    <3> HIDE DEF S, h
    <3> QED BY <2>1, <2>5, <2>7, <3>1 DEF CountIn
  <2> QED BY <2>6, <2>7
<1>4. ASSUME NEW f, NEW p, Soon(q, f, p, b)
      PROVE  Soon(Tail(q), f, p, b - 1)
  BY <1>1, <1>2, <1>4 DEF Soon
<1> QED BY <1>2, <1>3, <1>4

\* When the loop takes its functors and when it polls.
LEMMA SoonThenGone ==
    ASSUME NEW q \in Seq(FunctorNames), NEW f
    PROVE  /\ CountIn(q, f) \in Nat
           /\ CountIn(q, f) = 0 <=> f \notin Range(q)
           /\ \A p, b : p # "functors" => Soon(q, f, p, b)
           /\ \A p : Soon(q, f, p, Len(q))
           /\ Soon(q, f, "functors", 0) => CountIn(q, f) = 0
           /\ CountIn(q, f) = 0 => \A p, b : Soon(q, f, p, b)
<1> HIDE DEF FunctorNames
<1>1. Len(q) \in Nat /\ DOMAIN q = 1 .. Len(q)
  BY LenProperties
<1>2. IsFiniteSet(Positions(q, f))
  <2>1. IsFiniteSet(1 .. Len(q)) /\ Positions(q, f) \subseteq 1 .. Len(q)
    BY <1>1, FS_Interval DEF Positions
  <2> QED BY <2>1, FS_Subset
<1>3. CountIn(q, f) \in Nat /\ (CountIn(q, f) = 0 <=> Positions(q, f) = {})
  BY <1>2, FS_CardinalityType, FS_EmptySet DEF CountIn
<1>4. Positions(q, f) = {} <=> f \notin Range(q)
  BY <1>1 DEF Positions, Range
<1>5. Positions(q, f) = {} => \A p, b : Soon(q, f, p, b)
  BY DEF Positions, Soon
<1>6. Soon(q, f, "functors", 0) => Positions(q, f) = {}
  BY <1>1 DEF Positions, Soon
<1>7. (\A p, b : p # "functors" => Soon(q, f, p, b)) /\ (\A p : Soon(q, f, p, Len(q)))
  BY <1>1 DEF Soon
<1> QED BY <1>3, <1>4, <1>5, <1>6, <1>7
-----------------------------------------------------------------------------
(* One attempt at a time.                                                  *)

TypeInv ==
    /\ state \in {"kDisconnected", "kConnecting", "kConnected"} /\ connect \in BOOLEAN
    /\ channel \in {"none", "polled", "removed"}
    /\ retryTimers \in [0 .. 2 -> Nat] /\ hackTimer \in 0 .. NoHack
    /\ client \in BOOLEAN /\ wanted \in BOOLEAN /\ stopped \in BOOLEAN
    /\ conn \in {"none", "new", "up"} /\ phase \in {"events", "functors", "restart"}
    /\ functors \in Seq(FunctorNames) /\ batch \in 0 .. Len(functors)
    /\ thread \in {"idle", "connect", "stop", "startInLoop", "stopInLoop"}
    /\ connects \in Nat

\* The calls of startInLoop that are on their way, and the timers that will make one.
Starts == (IF thread \in {"connect", "startInLoop"} THEN 1 ELSE 0) + CountIn(functors, "startInLoop")
Timers == retryTimers[0] + retryTimers[1] + retryTimers[2]

Resets == CountIn(functors, "resetChannel")
ResetSoon == Soon(functors, "resetChannel", phase, batch)
Closing == CountIn(functors, "connectDestroyed")

\* The one call of connect goes round these stages.  A start finds the connector
\* disconnected and without a channel, since a timer and a connection that began with
\* a channel to be reset live to the next iteration, and resetChannel runs before it.
Resting ==
    /\ Starts = 0 /\ Timers = 0 /\ conn = "none" /\ phase # "restart"
    /\ state # "kConnecting" /\ channel # "polled" /\ sockets = Closing
Starting ==
    /\ Starts = 1 /\ Timers = 0 /\ conn = "none" /\ phase # "restart"
    /\ state = "kDisconnected" /\ channel = "none" /\ sockets = Closing
Retrying ==
    /\ Starts = 0 /\ Timers = 1 /\ conn = "none" /\ phase # "restart"
    /\ state = "kDisconnected" /\ channel # "polled" /\ sockets = Closing
    /\ retryTimers[1] > 0 => ResetSoon
    /\ retryTimers[2] > 0 => channel = "none"
Attempting ==
    /\ Starts = 0 /\ Timers = 0 /\ conn = "none" /\ phase # "restart"
    /\ state = "kConnecting" /\ channel = "polled" /\ sockets = Closing + 1
Up ==
    /\ Starts = 0 /\ Timers = 0 /\ conn # "none" /\ phase # "restart"
    /\ state # "kConnecting" /\ channel # "polled" /\ sockets = Closing + 1
    /\ conn = "new" => ResetSoon
    /\ conn = "up" => channel = "none"
Restarting ==
    /\ Starts = 0 /\ Timers = 0 /\ conn = "none" /\ phase = "restart"
    /\ state # "kConnecting" /\ channel = "none" /\ sockets = Closing

Stages == Resting \/ Starting \/ Retrying \/ Attempting \/ Up \/ Restarting

\* After ~TcpClient the connector is stopped, unless its attempt was over.
AttemptInv ==
    /\ connects <= 1 /\ Stages
    /\ connects = 0 => Resting /\ state = "kDisconnected" /\ channel = "none"
    /\ channel = "removed" => Resets = 1
    /\ channel # "removed" => Resets = 0
    /\ ~client => thread = "idle" /\ phase # "restart" /\ (connect => Resting \/ Up)
    /\ failed = "none"

\* Nothing is queued at first.
LEMMA CountEmpty == \A f : CountIn(<<>>, f) = 0
<1>1. \A f : Positions(<<>>, f) = {}
  BY DEF Positions
<1> QED BY <1>1, FS_EmptySet DEF CountIn

\* A new client rests.
LEMMA InitAttempt == Init => TypeInv /\ AttemptInv
<1> SUFFICES ASSUME Init PROVE TypeInv /\ AttemptInv
  OBVIOUS
<1>1. \A f : CountIn(functors, f) = 0
  BY CountEmpty DEF Init
<1>2. TypeInv
  <2>1. functors \in Seq(FunctorNames) /\ batch \in 0 .. Len(functors)
    BY DEF Init
  <2>2. retryTimers \in [0 .. 2 -> Nat] /\ hackTimer \in 0 .. NoHack
    BY DEF Init, NoTimers, NoHack
  <2> QED BY <2>1, <2>2, Zenon DEF Init, TypeInv
<1>3. AttemptInv
  BY <1>1, <1>2 DEF Init, AttemptInv, Stages, Resting, Starts, Timers, Resets, Closing, NoTimers, TypeInv
<1> QED BY <1>2, <1>3

\* startInLoop of a disconnected connector without a channel.
LEMMA StartOutcomes ==
    ASSUME NEW timers \in [0 .. 2 -> Nat], channel = "none", StartInLoop("kDisconnected", timers)
    PROVE  /\ failed' = failed /\ retryTimers' \in [0 .. 2 -> Nat]
           /\ retryTimers'[1] = timers[1] /\ retryTimers'[2] = timers[2]
           /\ \/ /\ connect' /\ state' = "kConnecting" /\ channel' = "polled" /\ sockets' = sockets + 1
                 /\ retryTimers'[0] = timers[0]
              \/ /\ state' = "kDisconnected" /\ channel' = "none" /\ sockets' = sockets
                 /\ retryTimers'[0] = timers[0] \/ (connect' /\ retryTimers'[0] = timers[0] + 1)
  BY DEF StartInLoop, Connecting

\* retry(sockfd).
LEMMA RetryOutcomes ==
    ASSUME TypeInv, RetryConnect("removed", retryTimers)
    PROVE  /\ failed' = failed /\ retryTimers' \in [0 .. 2 -> Nat]
           /\ retryTimers'[1] = retryTimers[1] /\ retryTimers'[2] = retryTimers[2]
           /\ state' = "kDisconnected" /\ channel' = "removed" /\ sockets' = sockets - 1
           /\ retryTimers'[0] = retryTimers[0] \/ (connect' /\ retryTimers'[0] = retryTimers[0] + 1)
  BY DEF RetryConnect, TypeInv

\* What a step does to the queue.
LEMMA QueueSteps ==
    ASSUME TypeInv
    PROVE  /\ \A f : CountIn(functors, f) \in Nat
           /\ \A g \in FunctorNames : functors' = Append(functors, g) =>
                /\ functors' \in Seq(FunctorNames) /\ Len(functors') = Len(functors) + 1
                /\ \A f : CountIn(functors', f) = IF f = g THEN CountIn(functors, f) + 1 ELSE CountIn(functors, f)
                /\ \A f, p, b : Soon(functors, f, p, b) /\ (f # g \/ p # "functors") => Soon(functors', f, p, b)
           /\ batch > 0 /\ functors' = Tail(functors) =>
                /\ functors' \in Seq(FunctorNames) /\ Len(functors') = Len(functors) - 1
                /\ \A f : /\ CountIn(functors', f) \in Nat
                          /\ CountIn(functors, f) = IF f = Head(functors) THEN CountIn(functors', f) + 1
                                                                         ELSE CountIn(functors', f)
                /\ \A f, p : Soon(functors, f, p, batch) => Soon(functors', f, p, batch - 1)
<1>1. functors \in Seq(FunctorNames) /\ batch \in 0 .. Len(functors) /\ Len(functors) \in Nat
  BY LenProperties DEF TypeInv
<1>2. batch > 0 => batch \in 1 .. Len(functors)
  BY <1>1
<1> HIDE DEF FunctorNames
<1>3. \A f : CountIn(functors, f) \in Nat
  BY <1>1, SoonThenGone
<1>4. ASSUME NEW g \in FunctorNames, functors' = Append(functors, g)
      PROVE  /\ functors' \in Seq(FunctorNames) /\ Len(functors') = Len(functors) + 1
             /\ \A f : CountIn(functors', f) = IF f = g THEN CountIn(functors, f) + 1 ELSE CountIn(functors, f)
             /\ \A f, p, b : Soon(functors, f, p, b) /\ (f # g \/ p # "functors") => Soon(functors', f, p, b)
  BY <1>1, <1>4, CountAppend
<1>5. ASSUME batch > 0, functors' = Tail(functors)
      PROVE  /\ functors' \in Seq(FunctorNames) /\ Len(functors') = Len(functors) - 1
             /\ \A f : /\ CountIn(functors', f) \in Nat
                       /\ CountIn(functors, f) = IF f = Head(functors) THEN CountIn(functors', f) + 1
                                                                      ELSE CountIn(functors', f)
             /\ \A f, p : Soon(functors, f, p, batch) => Soon(functors', f, p, batch - 1)
  BY <1>1, <1>2, <1>5, CountTail
<1> QED BY <1>3, <1>4, <1>5


\* The counters are numbers, and a connect in the other thread is a start.
LEMMA Counted ==
    ASSUME TypeInv
    PROVE  /\ Starts \in Nat /\ Timers \in Nat /\ Resets \in Nat /\ Closing \in Nat
           /\ retryTimers[0] \in Nat /\ retryTimers[1] \in Nat /\ retryTimers[2] \in Nat
           /\ thread \in {"connect", "startInLoop"} => Starts > 0
<1>1. \A f : CountIn(functors, f) \in Nat
  BY QueueSteps
<1>2. retryTimers[0] \in Nat /\ retryTimers[1] \in Nat /\ retryTimers[2] \in Nat
  BY DEF TypeInv
<1> QED BY <1>1, <1>2 DEF Starts, Timers, Resets, Closing

\* What becomes of the counters when the queue stays what it is ...
LEMMA QueueSame ==
    ASSUME functors' = functors
    PROVE  /\ Resets' = Resets /\ Closing' = Closing
           /\ thread' = thread => Starts' = Starts
           /\ phase' = phase /\ batch' = batch => ResetSoon' = ResetSoon
  BY DEF Resets, Closing, Starts, ResetSoon

\* ... when a functor is appended ...
LEMMA QueueAppended ==
    ASSUME TypeInv, NEW g \in FunctorNames, functors' = Append(functors, g), phase' = phase, batch' = batch
    PROVE  /\ Resets' = IF g = "resetChannel" THEN Resets + 1 ELSE Resets
           /\ Closing' = IF g = "connectDestroyed" THEN Closing + 1 ELSE Closing
           /\ thread' = thread => Starts' = IF g = "startInLoop" THEN Starts + 1 ELSE Starts
           /\ g # "resetChannel" /\ ResetSoon => ResetSoon'
           /\ phase # "functors" => ResetSoon'
<1>1. /\ \A f : /\ CountIn(functors, f) \in Nat
                /\ CountIn(functors', f) = IF f = g THEN CountIn(functors, f) + 1 ELSE CountIn(functors, f)
      /\ \A f, p, b : Soon(functors, f, p, b) /\ (f # g \/ p # "functors") => Soon(functors', f, p, b)
  BY QueueSteps
<1>2. phase # "functors" => ResetSoon'
  BY DEF ResetSoon, Soon
<1>3. g # "resetChannel" /\ ResetSoon => ResetSoon'
  BY <1>1 DEF ResetSoon
<1>4. /\ Resets' = IF g = "resetChannel" THEN Resets + 1 ELSE Resets
      /\ Closing' = IF g = "connectDestroyed" THEN Closing + 1 ELSE Closing
  BY <1>1 DEF Resets, Closing
<1>5. thread' = thread => Starts' = IF g = "startInLoop" THEN Starts + 1 ELSE Starts
  <2> DEFINE n == IF thread \in {"connect", "startInLoop"} THEN 1 ELSE 0
             c == CountIn(functors, "startInLoop")
  <2>1. n \in Nat /\ c \in Nat /\ CountIn(functors', "startInLoop") = IF g = "startInLoop" THEN c + 1 ELSE c
    BY <1>1
  <2>2. thread' = thread => Starts = n + c /\ Starts' = n + CountIn(functors', "startInLoop")
    BY DEF Starts
  <2> HIDE DEF n, c
  <2> QED BY <2>1, <2>2
<1> QED BY <1>2, <1>3, <1>4, <1>5

\* ... and when the loop runs one.
LEMMA QueueRun ==
    ASSUME TypeInv, NEW g, NextFunctor(g), functors' = Tail(functors)
    PROVE  /\ Resets = IF g = "resetChannel" THEN Resets' + 1 ELSE Resets'
           /\ Closing = IF g = "connectDestroyed" THEN Closing' + 1 ELSE Closing'
           /\ Starts = IF g = "startInLoop" THEN Starts' + 1 ELSE Starts'
           /\ Starts' \in Nat /\ Resets' \in Nat /\ Closing' \in Nat
           /\ ResetSoon => ResetSoon'
<1>1. batch > 0 /\ Head(functors) = g /\ batch' = batch - 1 /\ phase' = phase /\ thread' = thread
  BY DEF NextFunctor, user
<1>2. /\ \A f : /\ CountIn(functors', f) \in Nat
                /\ CountIn(functors, f) = IF f = g THEN CountIn(functors', f) + 1 ELSE CountIn(functors', f)
      /\ \A f, p : Soon(functors, f, p, batch) => Soon(functors', f, p, batch - 1)
  BY <1>1, QueueSteps
<1>3. ResetSoon => ResetSoon'
  BY <1>1, <1>2 DEF ResetSoon
<1>4. /\ Resets = IF g = "resetChannel" THEN Resets' + 1 ELSE Resets'
      /\ Closing = IF g = "connectDestroyed" THEN Closing' + 1 ELSE Closing'
      /\ Resets' \in Nat /\ Closing' \in Nat
  BY <1>2 DEF Resets, Closing
<1>5. Starts' \in Nat /\ Starts = IF g = "startInLoop" THEN Starts' + 1 ELSE Starts'
  <2> DEFINE n == IF thread \in {"connect", "startInLoop"} THEN 1 ELSE 0
             c == CountIn(functors', "startInLoop")
  <2>1. n \in Nat /\ c \in Nat /\ CountIn(functors, "startInLoop") = IF g = "startInLoop" THEN c + 1 ELSE c
    BY <1>2
  <2>2. Starts' = n + c /\ Starts = n + CountIn(functors, "startInLoop")
    BY <1>1 DEF Starts
  <2> HIDE DEF n, c
  <2> QED BY <2>1, <2>2
<1> QED BY <1>3, <1>4, <1>5

\* A start has been on its way, or a timer.
LEMMA StartsOrTimers ==
    ASSUME TypeInv, RetryTimer \/ RunStartInLoop
    PROVE  Starts > 0 \/ Timers > 0
<1>1. CASE RetryTimer
  BY <1>1, Counted DEF RetryTimer, Timers
<1>2. CASE RunStartInLoop
  <2> DEFINE n == Starts'
  <2>1. Starts = n + 1 /\ n \in Nat
    BY <1>2, QueueRun DEF RunStartInLoop
  <2> HIDE DEF n
  <2> QED BY <2>1
<1> QED BY <1>1, <1>2

\* Then there is no attempt and no connection.
LEMMA OnTheWay ==
    ASSUME TypeInv, AttemptInv, Starts > 0 \/ Timers > 0
    PROVE  state = "kDisconnected" /\ ~Resting /\ ~Up
<1>1. ~(Starts = 0 /\ Timers = 0)
  BY Counted
<1>2. ~Resting /\ ~Attempting /\ ~Up /\ ~Restarting
  BY <1>1 DEF Resting, Attempting, Up, Restarting
<1>3. Starting \/ Retrying
  BY <1>2 DEF AttemptInv, Stages
<1> QED BY <1>2, <1>3 DEF Starting, Retrying

\* A start goes well: after it there is an attempt, a timer, or nothing.
LEMMA StartKeepsStages ==
    ASSUME TypeInv, NEW timers \in [0 .. 2 -> Nat], timers[0] = 0, timers[1] = 0, timers[2] = 0,
           channel = "none", StartInLoop("kDisconnected", timers),
           Starts' = 0, conn' = "none", phase' # "restart", sockets = Closing', Closing' \in Nat
    PROVE  /\ failed' = failed /\ retryTimers' \in [0 .. 2 -> Nat]
           /\ channel' \in {"none", "polled"} /\ state' \in {"kDisconnected", "kConnecting"}
           /\ Resting' \/ ((Attempting' \/ Retrying') /\ connect')
<1>1. /\ failed' = failed /\ retryTimers' \in [0 .. 2 -> Nat]
      /\ retryTimers'[1] = 0 /\ retryTimers'[2] = 0
      /\ \/ /\ connect' /\ state' = "kConnecting" /\ channel' = "polled" /\ sockets' = sockets + 1
            /\ retryTimers'[0] = 0
         \/ /\ state' = "kDisconnected" /\ channel' = "none" /\ sockets' = sockets
            /\ retryTimers'[0] = 0 \/ (connect' /\ retryTimers'[0] = 1)
  BY StartOutcomes
<1>2. Timers' = retryTimers'[0] + retryTimers'[1] + retryTimers'[2]
  BY DEF Timers
<1>3. CASE state' = "kConnecting"
  BY <1>1, <1>2, <1>3 DEF Attempting
<1>4. CASE state' # "kConnecting" /\ retryTimers'[0] = 0
  BY <1>1, <1>2, <1>4 DEF Resting
<1>5. CASE state' # "kConnecting" /\ retryTimers'[0] # 0
  BY <1>1, <1>2, <1>5 DEF Retrying
<1> QED BY <1>1, <1>3, <1>4, <1>5

\* The four ways to startInLoop: a retry timer, restart, the queued functor and connect.
LEMMA StartsKeepAttempt ==
    ASSUME TypeInv, AttemptInv, MaxConnects <= 1, RetryTimer \/ Restart \/ RunStartInLoop \/ Connect
    PROVE  TypeInv' /\ AttemptInv'
<1>1. CASE RetryTimer
  <2> DEFINE timers == [retryTimers EXCEPT ![2] = @ - 1]
  <2>1. Retrying /\ channel = "none" /\ state = "kDisconnected" /\ retryTimers[2] > 0
    BY <1>1, Counted DEF RetryTimer, AttemptInv, Stages, Resting, Starting, Retrying, Attempting, Up, Restarting, Timers
  <2>2. retryTimers[0] = 0 /\ retryTimers[1] = 0 /\ retryTimers[2] = 1
    BY <2>1, Counted DEF Retrying, Timers
  <2>3. timers \in [0 .. 2 -> Nat] /\ timers[0] = 0 /\ timers[1] = 0 /\ timers[2] = 0
    BY <2>2 DEF TypeInv
  <2>4. /\ StartInLoop("kDisconnected", timers) /\ UNCHANGED <<hackTimer, client, wanted, conn, phase, batch, functors>>
        /\ UNCHANGED <<thread, connects, stopped, connect>>
    BY <1>1, <2>1 DEF RetryTimer, loop, user
  <2>5. Starts' = 0 /\ conn' = "none" /\ phase' # "restart" /\ sockets = Closing' /\ Closing' \in Nat /\ Resets' = Resets
    BY <2>1, <2>4, QueueSame, Counted DEF Retrying
  <2> HIDE DEF timers
  <2>6. /\ failed' = failed /\ retryTimers' \in [0 .. 2 -> Nat]
        /\ channel' \in {"none", "polled"} /\ state' \in {"kDisconnected", "kConnecting"}
        /\ Resting' \/ ((Attempting' \/ Retrying') /\ connect')
    BY <2>1, <2>3, <2>4, <2>5, StartKeepsStages
  <2>7. TypeInv'
    BY <2>4, <2>6 DEF TypeInv
  <2>8. AttemptInv'
    BY <2>1, <2>4, <2>5, <2>6, Counted DEF AttemptInv, Stages, Resting, Retrying, Up
  <2> QED BY <2>7, <2>8
<1>2. CASE Restart
  <2>1. Restarting /\ channel = "none"
    BY <1>2 DEF Restart, AttemptInv, Stages, Resting, Starting, Retrying, Attempting, Up, Restarting
  <2>2. retryTimers[0] = 0 /\ retryTimers[1] = 0 /\ retryTimers[2] = 0 /\ retryTimers \in [0 .. 2 -> Nat]
    BY <2>1, Counted DEF Restarting, Timers, TypeInv
  <2>4. /\ StartInLoop("kDisconnected", retryTimers) /\ UNCHANGED <<hackTimer, client, wanted, conn, batch, functors>>
        /\ UNCHANGED <<thread, connects, stopped>> /\ phase = "restart" /\ phase' = "events" /\ connect' = TRUE
    BY <1>2 DEF Restart, user
  <2>5. Starts' = 0 /\ conn' = "none" /\ phase' # "restart" /\ sockets = Closing' /\ Closing' \in Nat /\ Resets' = Resets
    BY <2>1, <2>4, QueueSame, Counted DEF Restarting
  <2>6. /\ failed' = failed /\ retryTimers' \in [0 .. 2 -> Nat]
        /\ channel' \in {"none", "polled"} /\ state' \in {"kDisconnected", "kConnecting"}
        /\ Resting' \/ ((Attempting' \/ Retrying') /\ connect')
    BY <2>1, <2>2, <2>4, <2>5, StartKeepsStages
  <2>7. TypeInv'
    BY <2>4, <2>6 DEF TypeInv
  <2>8. AttemptInv'
    BY <2>1, <2>4, <2>5, <2>6, Counted DEF AttemptInv, Stages, Resting, Restarting
  <2> QED BY <2>7, <2>8
<1>3. CASE RunStartInLoop
  <2>4. /\ NextFunctor("startInLoop") /\ functors' = Tail(functors) /\ StartInLoop(state, retryTimers)
        /\ UNCHANGED <<hackTimer, client, wanted, conn, phase, thread, connects, stopped, connect>>
        /\ batch > 0 /\ batch' = batch - 1 /\ phase = "functors"
    BY <1>3 DEF RunStartInLoop, NextFunctor, user
  <2>5. Starts = Starts' + 1 /\ Closing' = Closing /\ Resets' = Resets /\ Starts' \in Nat /\ Closing' \in Nat
    BY <2>4, QueueRun
  <2>a. Starts # 0 /\ (Starts = 1 => Starts' = 0)
    <3> DEFINE n == Starts'
    <3>1. n \in Nat /\ Starts = n + 1
      BY <2>5
    <3> HIDE DEF n
    <3>2. Starts # 0 /\ (Starts = 1 => n = 0)
      BY <3>1
    <3> QED BY <3>2 DEF n
  <2>1. Starting /\ channel = "none" /\ state = "kDisconnected"
    BY <2>a DEF AttemptInv, Stages, Resting, Starting, Retrying, Attempting, Up, Restarting
  <2>2. retryTimers[0] = 0 /\ retryTimers[1] = 0 /\ retryTimers[2] = 0 /\ retryTimers \in [0 .. 2 -> Nat]
    BY <2>1, Counted DEF Starting, Timers, TypeInv
  <2>3. Starts' = 0 /\ conn' = "none" /\ phase' # "restart" /\ sockets = Closing'
    BY <2>1, <2>4, <2>5, <2>a DEF Starting
  <2>6. /\ failed' = failed /\ retryTimers' \in [0 .. 2 -> Nat]
        /\ channel' \in {"none", "polled"} /\ state' \in {"kDisconnected", "kConnecting"}
        /\ Resting' \/ ((Attempting' \/ Retrying') /\ connect')
    BY <2>1, <2>2, <2>3, <2>4, <2>5, StartKeepsStages
  <2>9. functors' \in Seq(FunctorNames) /\ batch' \in 0 .. Len(functors')
    BY <2>4, QueueSteps, LenProperties DEF TypeInv
  <2>7. TypeInv'
    BY <2>4, <2>6, <2>9 DEF TypeInv
  <2>8. AttemptInv'
    BY <2>1, <2>4, <2>5, <2>6 DEF AttemptInv, Stages, Resting, Starting, Up, TypeInv
  <2> QED BY <2>7, <2>8
<1>4. CASE Connect
  <2>4. /\ StartInLoop(state, retryTimers) /\ UNCHANGED <<hackTimer, client, conn, functors, thread, phase, batch>>
        /\ phase # "restart" /\ connects' = connects + 1 /\ stopped' = FALSE /\ wanted' = TRUE /\ connect' = TRUE
        /\ client /\ connects < MaxConnects
    BY <1>4 DEF Connect, Call, loop
  <2>3. connects = 0
    BY <2>4, TcpClientAssumption DEF TypeInv
  <2>1. Resting /\ channel = "none" /\ state = "kDisconnected"
    BY <2>3 DEF AttemptInv
  <2>2. retryTimers[0] = 0 /\ retryTimers[1] = 0 /\ retryTimers[2] = 0 /\ retryTimers \in [0 .. 2 -> Nat]
    BY <2>1, Counted DEF Resting, Timers, TypeInv
  <2>5. Starts' = 0 /\ conn' = "none" /\ phase' # "restart" /\ sockets = Closing' /\ Closing' \in Nat /\ Resets' = Resets
    BY <2>1, <2>4, QueueSame, Counted DEF Resting
  <2>6. /\ failed' = failed /\ retryTimers' \in [0 .. 2 -> Nat]
        /\ channel' \in {"none", "polled"} /\ state' \in {"kDisconnected", "kConnecting"}
        /\ Resting' \/ ((Attempting' \/ Retrying') /\ connect')
    BY <2>1, <2>2, <2>4, <2>5, StartKeepsStages
  <2>7. TypeInv'
    <3>1. connects' \in Nat
      BY <2>3, <2>4
    <3>2. wanted' \in BOOLEAN /\ stopped' \in BOOLEAN /\ connect' \in BOOLEAN
      BY <2>4, Zenon
    <3> QED BY <2>4, <2>6, <3>1, <3>2 DEF TypeInv
  <2>8. AttemptInv'
    BY <2>1, <2>3, <2>4, <2>5, <2>6 DEF AttemptInv, Stages, Resting
  <2> QED BY <2>7, <2>8
<1> QED BY <1>1, <1>2, <1>3, <1>4

\* retry(sockfd) ends an attempt with a timer, or with nothing if the connector was stopped.
LEMMA RetryKeepsStages ==
    ASSUME TypeInv, Attempting, RetryConnect("removed", retryTimers),
           Starts' = 0, conn' = "none", phase' # "restart", Closing' = Closing
    PROVE  /\ failed' = failed /\ retryTimers' \in [0 .. 2 -> Nat]
           /\ channel' = "removed" /\ state' = "kDisconnected"
           /\ Resting' \/ (Retrying' /\ connect')
<1>1. retryTimers[0] = 0 /\ retryTimers[1] = 0 /\ retryTimers[2] = 0
  BY Counted DEF Attempting, Timers
<1>2. /\ failed' = failed /\ retryTimers' \in [0 .. 2 -> Nat]
      /\ retryTimers'[1] = 0 /\ retryTimers'[2] = 0
      /\ state' = "kDisconnected" /\ channel' = "removed" /\ sockets' = sockets - 1
      /\ retryTimers'[0] = 0 \/ (connect' /\ retryTimers'[0] = 1)
  BY <1>1, RetryOutcomes
<1>3. Timers' = retryTimers'[0] + retryTimers'[1] + retryTimers'[2] /\ sockets' = Closing'
  BY <1>2, Counted DEF Timers, Attempting
<1>4. CASE retryTimers'[0] = 0
  BY <1>2, <1>3, <1>4 DEF Resting
<1>5. CASE connect' /\ retryTimers'[0] = 1
  BY <1>2, <1>3, <1>5 DEF Retrying
<1> QED BY <1>2, <1>4, <1>5

\* The queue keeps its type.
LEMMA QueueType ==
    ASSUME TypeInv
    PROVE  /\ \A g \in FunctorNames : functors' = Append(functors, g) =>
                functors' \in Seq(FunctorNames) /\ batch \in 0 .. Len(functors')
           /\ \A g \in FunctorNames : batch > 0 /\ functors' = Append(Tail(functors), g) =>
                functors' \in Seq(FunctorNames) /\ batch - 1 \in 0 .. Len(functors')
           /\ batch > 0 /\ functors' = Tail(functors) =>
                functors' \in Seq(FunctorNames) /\ batch - 1 \in 0 .. Len(functors')
<1>1. functors \in Seq(FunctorNames) /\ batch \in 0 .. Len(functors) /\ Len(functors) \in Nat
  BY LenProperties DEF TypeInv
<1> HIDE DEF FunctorNames
<1>2. ASSUME NEW g \in FunctorNames, functors' = Append(functors, g)
      PROVE  functors' \in Seq(FunctorNames) /\ batch \in 0 .. Len(functors')
  BY <1>1, <1>2, CountAppend
<1>3. ASSUME batch > 0
      PROVE  Tail(functors) \in Seq(FunctorNames) /\ Len(Tail(functors)) = Len(functors) - 1
  <2>1. batch \in 1 .. Len(functors)
    BY <1>1, <1>3
  <2> QED BY <1>1, <2>1, CountTail
<1>4. ASSUME NEW g \in FunctorNames, batch > 0, functors' = Append(Tail(functors), g)
      PROVE  functors' \in Seq(FunctorNames) /\ batch - 1 \in 0 .. Len(functors')
  <2>1. functors' \in Seq(FunctorNames) /\ Len(functors') = Len(Tail(functors)) + 1
    BY <1>3, <1>4, CountAppend
  <2> QED BY <1>1, <1>3, <1>4, <2>1
<1>5. ASSUME batch > 0, functors' = Tail(functors)
      PROVE  functors' \in Seq(FunctorNames) /\ batch - 1 \in 0 .. Len(functors')
  BY <1>1, <1>3, <1>5
<1> QED BY <1>2, <1>4, <1>5

\* The events of the loop that are not a start.
LEMMA EventsKeepAttempt ==
    ASSUME TypeInv, AttemptInv, ConnectFails \/ Connected \/ RemoveConnection \/ HackTimer
    PROVE  TypeInv' /\ AttemptInv'
<1>1. CASE ConnectFails
  <2>1. Attempting
    BY <1>1 DEF ConnectFails, AttemptInv, Stages, Resting, Starting, Retrying, Attempting, Up, Restarting
  <2>2. /\ RetryConnect("removed", retryTimers) /\ functors' = Append(functors, "resetChannel")
        /\ UNCHANGED <<hackTimer, client, wanted, conn, phase, batch, thread, connects, stopped, connect>>
        /\ "resetChannel" \in FunctorNames
    BY <1>1 DEF ConnectFails, loop, user, FunctorNames
  <2>3. Resets' = Resets + 1 /\ Closing' = Closing /\ Starts' = Starts
    BY <2>2, QueueAppended
  <2>4. Starts' = 0 /\ conn' = "none" /\ phase' # "restart" /\ Resets = 0 /\ connects # 0
    BY <2>1, <2>2, <2>3 DEF Attempting, AttemptInv, Resting
  <2>5. /\ failed' = failed /\ retryTimers' \in [0 .. 2 -> Nat]
        /\ channel' = "removed" /\ state' = "kDisconnected"
        /\ Resting' \/ (Retrying' /\ connect')
    BY <2>1, <2>2, <2>3, <2>4, RetryKeepsStages
  <2>6. functors' \in Seq(FunctorNames) /\ batch \in 0 .. Len(functors')
    BY <2>2, QueueType
  <2>7. TypeInv'
    BY <2>2, <2>5, <2>6 DEF TypeInv
  <2>8. AttemptInv'
    BY <2>1, <2>2, <2>3, <2>4, <2>5 DEF AttemptInv, Stages, Attempting, Resting, Up
  <2> QED BY <2>7, <2>8
<1>2. CASE Connected
  <2>1. Attempting
    BY <1>2 DEF Connected, AttemptInv, Stages, Resting, Starting, Retrying, Attempting, Up, Restarting
  <2>2. /\ functors' = Append(functors, "resetChannel") /\ state' = "kConnected" /\ channel' = "removed"
        /\ UNCHANGED <<retryTimers, hackTimer, client, wanted, phase, batch, thread, connects, stopped, connect>>
        /\ phase = "events" /\ "resetChannel" \in FunctorNames
    BY <1>2 DEF Connected, loop, user, FunctorNames
  <2>3. Resets' = Resets + 1 /\ Closing' = Closing /\ Starts' = Starts /\ ResetSoon' /\ Timers' = Timers
    BY <2>2, QueueAppended DEF Timers
  <2>4. connect => client
    BY <2>1 DEF AttemptInv, Attempting, Resting, Up
  <2>5. /\ connect => conn' = "new" /\ sockets' = sockets /\ failed' = failed
        /\ ~connect => conn' = conn /\ sockets' = sockets - 1 /\ failed' = failed
    BY <1>2, <2>4 DEF Connected
  <2>6. functors' \in Seq(FunctorNames) /\ batch \in 0 .. Len(functors')
    BY <2>2, QueueType
  <2>7. TypeInv'
    BY <2>2, <2>5, <2>6 DEF TypeInv
  <2>8. connect => Up'
    BY <2>1, <2>2, <2>3, <2>5 DEF Attempting, Up
  <2>9. ~connect => Resting'
    BY <2>1, <2>2, <2>3, <2>5, Counted DEF Attempting, Resting
  <2>10. Resets = 0 /\ connects # 0
    BY <2>1 DEF AttemptInv, Attempting, Resting
  <2>11. AttemptInv'
    BY <2>2, <2>3, <2>5, <2>8, <2>9, <2>10 DEF AttemptInv, Stages
  <2> QED BY <2>7, <2>11
<1>3. CASE RemoveConnection
  <2>1. Up /\ channel = "none" /\ connects # 0
    BY <1>3 DEF RemoveConnection, AttemptInv, Stages, Resting, Starting, Retrying, Attempting, Up, Restarting
  <2>2. /\ functors' = Append(functors, "connectDestroyed") /\ conn' = "none"
        /\ UNCHANGED <<state, connect, channel, retryTimers, hackTimer, client, wanted, batch, sockets, thread, connects,
                       stopped, failed>>
        /\ phase = "events" /\ "connectDestroyed" \in FunctorNames
        /\ phase' \in {"events", "restart"} /\ (phase' = "restart" => client)
    BY <1>3 DEF RemoveConnection, connector, user, FunctorNames
  <2>3. Resets' = Resets /\ Closing' = Closing + 1 /\ Starts' = Starts /\ Timers' = Timers
    <3>1. /\ CountIn(functors', "resetChannel") = CountIn(functors, "resetChannel")
          /\ CountIn(functors', "connectDestroyed") = CountIn(functors, "connectDestroyed") + 1
          /\ CountIn(functors', "startInLoop") = CountIn(functors, "startInLoop")
      BY <2>2, QueueSteps
    <3> QED BY <2>2, <3>1 DEF Resets, Closing, Starts, Timers
  <2>4. functors' \in Seq(FunctorNames) /\ batch \in 0 .. Len(functors')
    BY <2>2, QueueType
  <2>5. TypeInv'
    BY <2>2, <2>4 DEF TypeInv
  <2>6. Resting' \/ Restarting'
    BY <2>1, <2>2, <2>3, Counted DEF Up, Resting, Restarting
  <2>7. AttemptInv'
    BY <2>1, <2>2, <2>3, <2>6 DEF AttemptInv, Stages, Restarting
  <2> QED BY <2>5, <2>7
<1>4. CASE HackTimer
  <2>1. /\ UNCHANGED <<state, connect, channel, retryTimers, client, wanted, conn, phase, batch, functors, sockets, thread,
                       connects, stopped, failed>>
        /\ hackTimer' = NoHack
    BY <1>4 DEF HackTimer, connector, loop, user
  <2>2. TypeInv'
    BY <2>1 DEF TypeInv, NoHack
  <2>3. AttemptInv'
    <3>1. Starts' = Starts /\ Timers' = Timers /\ Resets' = Resets /\ ResetSoon' = ResetSoon /\ Closing' = Closing
      BY <2>1, QueueSame DEF Timers
    <3> QED BY <2>1, <3>1 DEF AttemptInv, Stages, Resting, Starting, Retrying, Attempting, Up, Restarting
  <2> QED BY <2>2, <2>3
<1> QED BY <1>1, <1>2, <1>3, <1>4

\* A step that only moves the queue on leaves the stage what it is.
LEMMA StageSame ==
    ASSUME UNCHANGED <<state, channel, retryTimers, conn, sockets>>,
           Starts' = Starts, Closing' = Closing, ResetSoon => ResetSoon',
           phase' = phase \/ (phase # "restart" /\ phase' # "restart")
    PROVE  (Stages => Stages') /\ (Resting => Resting') /\ (Up => Up')
<1>1. Timers' = Timers
  BY DEF Timers
<1>2. /\ Resting <=> Resting'
      /\ Starting <=> Starting'
      /\ Attempting <=> Attempting'
      /\ Restarting <=> Restarting'
  BY <1>1 DEF Resting, Starting, Attempting, Restarting
<1>3. (Retrying => Retrying') /\ (Up => Up')
  BY <1>1 DEF Retrying, Up
<1> QED BY <1>2, <1>3 DEF Stages

\* The loop takes its functors, runs them and polls.
LEMMA LoopKeepsAttempt ==
    ASSUME TypeInv, AttemptInv,
           SwapFunctors \/ Poll \/ RunStopInLoop \/ RunResetChannel \/ RunConnectDestroyed
    PROVE  TypeInv' /\ AttemptInv'
<1>1. CASE SwapFunctors
  <2>1. /\ UNCHANGED <<state, connect, channel, retryTimers, hackTimer, client, wanted, conn, functors, sockets, thread,
                       connects, stopped, failed>>
        /\ phase = "events" /\ phase' = "functors" /\ batch' = Len(functors) /\ functors \in Seq(FunctorNames)
    BY <1>1 DEF SwapFunctors, connector, user, TypeInv
  <2>2. Starts' = Starts /\ Resets' = Resets /\ Closing' = Closing
    BY <2>1, QueueSame
  <2>3. ResetSoon'
    BY <2>1, SoonThenGone, Zenon DEF ResetSoon
  <2>4. Len(functors) \in 0 .. Len(functors)
    BY <2>1, LenProperties
  <2>5. TypeInv'
    BY <2>1, <2>4 DEF TypeInv
  <2>6. (Stages => Stages') /\ (Resting => Resting') /\ (Up => Up')
    BY <2>1, <2>2, <2>3, StageSame
  <2>7. AttemptInv'
    BY <2>1, <2>2, <2>6 DEF AttemptInv
  <2> QED BY <2>5, <2>7
<1>2. CASE Poll
  <2>1. /\ UNCHANGED <<state, connect, channel, client, wanted, batch, functors, sockets, thread, connects, stopped, failed>>
        /\ phase = "functors" /\ batch = 0 /\ phase' = "events" /\ functors \in Seq(FunctorNames)
        /\ conn' = IF conn = "new" THEN "up" ELSE conn
    BY <1>2 DEF Poll, user, TypeInv
  <2>2. Starts' = Starts /\ Resets' = Resets /\ Closing' = Closing
    BY <2>1, QueueSame
  <2>3. ResetSoon' /\ (ResetSoon => Resets = 0)
    BY <2>1, SoonThenGone DEF ResetSoon, Resets
  <2>4. /\ retryTimers' \in [0 .. 2 -> Nat] /\ retryTimers'[0] = 0 /\ retryTimers'[1] = retryTimers[0]
        /\ retryTimers'[2] = retryTimers[1] + retryTimers[2]
    BY <1>2, Counted DEF Poll
  <2>5. Timers' = Timers
    BY <2>4, Counted DEF Timers
  <2>6. hackTimer' \in 0 .. NoHack /\ conn' \in {"none", "new", "up"}
    BY <1>2, <2>1 DEF Poll, TypeInv, NoHack
  <2>7. TypeInv'
    BY <2>1, <2>4, <2>6 DEF TypeInv
  <2>8. ResetSoon => channel # "removed"
    BY <2>3 DEF AttemptInv
  <2>9. /\ Resting => Resting'
        /\ Starting => Starting'
        /\ Attempting => Attempting'
        /\ ~Restarting
    BY <2>1, <2>2, <2>5 DEF Resting, Starting, Attempting, Restarting
  <2>10. Retrying => Retrying'
    <3>1. Retrying /\ retryTimers'[2] > 0 => channel = "none"
      BY <2>4, <2>8, Counted DEF Retrying, TypeInv
    <3> QED BY <2>1, <2>2, <2>3, <2>5, <3>1 DEF Retrying
  <2>11. Up => Up'
    <3>1. Up => channel = "none"
      BY <2>8 DEF Up, TypeInv
    <3> QED BY <2>1, <2>2, <2>5, <3>1 DEF Up
  <2>12. AttemptInv'
    BY <2>1, <2>2, <2>9, <2>10, <2>11 DEF AttemptInv, Stages
  <2> QED BY <2>7, <2>12
<1>3. CASE RunStopInLoop /\ state = "kConnecting"
  <2>1. Attempting
    BY <1>3 DEF AttemptInv, Stages, Resting, Starting, Retrying, Attempting, Up, Restarting
  <2>2. /\ RetryConnect("removed", retryTimers) /\ functors' = Append(Tail(functors), "resetChannel")
        /\ UNCHANGED <<hackTimer, client, wanted, conn, phase, thread, connects, stopped, connect>>
        /\ batch > 0 /\ batch' = batch - 1 /\ Head(functors) = "stopInLoop" /\ "resetChannel" \in FunctorNames
        /\ phase = "functors"
    BY <1>3 DEF RunStopInLoop, NextFunctor, user, FunctorNames
  <2>3. /\ CountIn(functors', "resetChannel") = CountIn(functors, "resetChannel") + 1
        /\ CountIn(functors', "connectDestroyed") = CountIn(functors, "connectDestroyed")
        /\ CountIn(functors', "startInLoop") = CountIn(functors, "startInLoop")
    <3>0. functors \in Seq(FunctorNames) /\ batch \in 0 .. Len(functors)
      BY DEF TypeInv
    <3>1. functors \in Seq(FunctorNames) /\ Len(functors) \in Nat /\ batch \in 1 .. Len(functors)
      BY <2>2, <3>0, LenProperties
    <3> HIDE DEF FunctorNames
    <3> DEFINE t == Tail(functors)
               r == "resetChannel"
    <3>2. /\ t \in Seq(FunctorNames)
          /\ \A f : CountIn(functors, f) = IF f = "stopInLoop" THEN CountIn(t, f) + 1 ELSE CountIn(t, f)
      BY <2>2, <3>1, CountTail
    <3>3. functors' = Append(t, r) /\ r \in FunctorNames
      BY <2>2
    <3>4. \A f : CountIn(functors', f) = IF f = r THEN CountIn(t, f) + 1 ELSE CountIn(t, f)
      <4> HIDE DEF t, r
      <4> QED BY <3>2, <3>3, CountAppend
    <3> QED BY <3>2, <3>4
  <2>4. Resets' = Resets + 1 /\ Closing' = Closing /\ Starts' = Starts
    BY <2>2, <2>3 DEF Resets, Closing, Starts
  <2>5. Starts' = 0 /\ conn' = "none" /\ phase' # "restart" /\ Resets = 0 /\ connects # 0
    BY <2>1, <2>2, <2>4 DEF Attempting, AttemptInv, Resting
  <2>6. /\ failed' = failed /\ retryTimers' \in [0 .. 2 -> Nat]
        /\ channel' = "removed" /\ state' = "kDisconnected"
        /\ Resting' \/ (Retrying' /\ connect')
    BY <2>1, <2>2, <2>4, <2>5, RetryKeepsStages
  <2>7. functors' \in Seq(FunctorNames) /\ batch' \in 0 .. Len(functors')
    BY <2>2, QueueType
  <2>8. TypeInv'
    BY <2>2, <2>6, <2>7 DEF TypeInv
  <2>9. AttemptInv'
    <3>1. ~client /\ connect' => Resting'
      BY <2>1, <2>2, <2>6 DEF AttemptInv, Attempting, Resting, Up
    <3>2. Resets' = 1
      BY <2>4, <2>5
    <3> QED BY <2>2, <2>5, <2>6, <3>1, <3>2 DEF AttemptInv, Stages
  <2> QED BY <2>8, <2>9
<1>4. CASE RunStopInLoop /\ state # "kConnecting"
  <2>1. /\ NextFunctor("stopInLoop") /\ functors' = Tail(functors)
        /\ UNCHANGED <<state, connect, channel, retryTimers, hackTimer, client, wanted, conn, phase, sockets, thread,
                       connects, stopped, failed>>
        /\ batch > 0 /\ batch' = batch - 1
    BY <1>4 DEF RunStopInLoop, NextFunctor, user
  <2>2. Starts' = Starts /\ Resets' = Resets /\ Closing' = Closing /\ (ResetSoon => ResetSoon')
    BY <2>1, QueueRun
  <2>3. functors' \in Seq(FunctorNames) /\ batch' \in 0 .. Len(functors')
    BY <2>1, QueueType
  <2>4. TypeInv'
    BY <2>1, <2>3 DEF TypeInv
  <2>5. (Stages => Stages') /\ (Resting => Resting') /\ (Up => Up')
    BY <2>1, <2>2, StageSame
  <2>6. AttemptInv'
    BY <2>1, <2>2, <2>5 DEF AttemptInv
  <2> QED BY <2>4, <2>6
<1>5. CASE RunResetChannel
  <2>1. /\ NextFunctor("resetChannel") /\ functors' = Tail(functors) /\ channel' = "none"
        /\ UNCHANGED <<state, connect, retryTimers, hackTimer, client, wanted, conn, phase, sockets, thread,
                       connects, stopped, failed>>
        /\ batch > 0 /\ batch' = batch - 1
    BY <1>5 DEF RunResetChannel, NextFunctor, user
  <2>2. /\ Starts' = Starts /\ Resets = Resets' + 1 /\ Closing' = Closing /\ (ResetSoon => ResetSoon')
        /\ Resets' \in Nat
    BY <2>1, QueueRun
  <2>3. channel = "removed" /\ Resets' = 0
    <3> DEFINE n == Resets'
    <3>1. n \in Nat /\ Resets = n + 1
      BY <2>2
    <3> HIDE DEF n
    <3>2. channel = "removed" /\ n = 0
      BY <3>1 DEF AttemptInv
    <3> QED BY <3>2 DEF n
  <2>4. functors' \in Seq(FunctorNames) /\ batch' \in 0 .. Len(functors')
    BY <2>1, QueueType
  <2>5. TypeInv'
    BY <2>1, <2>4 DEF TypeInv
  <2>6. Timers' = Timers
    BY <2>1 DEF Timers
  <2>7. /\ ~Starting /\ ~Attempting /\ ~Restarting
        /\ Resting => Resting'
        /\ Retrying => Retrying'
        /\ Up => Up'
    BY <2>1, <2>2, <2>3, <2>6 DEF Resting, Starting, Retrying, Attempting, Up, Restarting
  <2>8. AttemptInv'
    BY <2>1, <2>3, <2>7 DEF AttemptInv, Stages
  <2> QED BY <2>5, <2>8
<1>6. CASE RunConnectDestroyed
  <2>1. /\ NextFunctor("connectDestroyed") /\ functors' = Tail(functors) /\ sockets' = sockets - 1
        /\ UNCHANGED <<state, connect, channel, retryTimers, hackTimer, client, wanted, conn, phase, thread,
                       connects, stopped, failed>>
        /\ batch > 0 /\ batch' = batch - 1
    BY <1>6 DEF RunConnectDestroyed, NextFunctor, connector, user
  <2>2. /\ Starts' = Starts /\ Resets' = Resets /\ Closing = Closing' + 1 /\ (ResetSoon => ResetSoon')
        /\ Closing' \in Nat
    BY <2>1, QueueRun
  <2>3. (sockets = Closing => sockets' = Closing') /\ (sockets = Closing + 1 => sockets' = Closing' + 1)
    <3> DEFINE n == Closing'
    <3>1. n \in Nat /\ Closing = n + 1
      BY <2>2
    <3> HIDE DEF n
    <3>2. (sockets = Closing => sockets' = n) /\ (sockets = Closing + 1 => sockets' = n + 1)
      BY <2>1, <3>1
    <3> QED BY <3>2 DEF n
  <2>4. functors' \in Seq(FunctorNames) /\ batch' \in 0 .. Len(functors')
    BY <2>1, QueueType
  <2>5. TypeInv'
    BY <2>1, <2>4 DEF TypeInv
  <2>6. Timers' = Timers
    BY <2>1 DEF Timers
  <2>7. /\ Resting => Resting'
        /\ Starting => Starting'
        /\ Retrying => Retrying'
        /\ Attempting => Attempting'
        /\ Up => Up'
        /\ Restarting => Restarting'
    BY <2>1, <2>2, <2>3, <2>6 DEF Resting, Starting, Retrying, Attempting, Up, Restarting
  <2>8. AttemptInv'
    BY <2>1, <2>2, <2>7 DEF AttemptInv, Stages
  <2> QED BY <2>5, <2>8
<1> QED BY <1>1, <1>2, <1>3, <1>4, <1>5, <1>6

\* The calls of the user, in the loop and in another thread, and ~TcpClient.
LEMMA CallsKeepAttempt ==
    ASSUME TypeInv, AttemptInv, MaxConnects <= 1,
           Disconnect \/ Stop \/ Destroy \/ ThreadCall \/ ThreadSet \/ ThreadQueue
    PROVE  TypeInv' /\ AttemptInv'
<1>1. CASE Disconnect
  <2>1. /\ UNCHANGED <<state, connect, channel, retryTimers, hackTimer, client, conn, phase, batch, functors, sockets,
                       thread, connects, stopped, failed>>
        /\ wanted' \in BOOLEAN
    BY <1>1, Zenon DEF Disconnect, Call, connector, loop
  <2>2. Starts' = Starts /\ Resets' = Resets /\ Closing' = Closing /\ ResetSoon' = ResetSoon
    BY <2>1, QueueSame
  <2>3. (Stages => Stages') /\ (Resting => Resting') /\ (Up => Up')
    BY <2>1, <2>2, StageSame
  <2>4. TypeInv' /\ AttemptInv'
    BY <2>1, <2>2, <2>3 DEF TypeInv, AttemptInv
  <2> QED BY <2>4
<1>2. CASE Stop
  <2>1. /\ UNCHANGED <<state, channel, retryTimers, hackTimer, client, conn, phase, batch, sockets, thread, connects, failed>>
        /\ functors' = Append(functors, "stopInLoop") /\ "stopInLoop" \in FunctorNames /\ client
    BY <1>2 DEF Stop, Call, loop, FunctorNames
  <2>2. wanted' \in BOOLEAN /\ stopped' \in BOOLEAN /\ connect' \in BOOLEAN
    BY <1>2, Zenon DEF Stop
  <2>3. Starts' = Starts /\ Resets' = Resets /\ Closing' = Closing /\ (ResetSoon => ResetSoon')
    BY <2>1, QueueAppended
  <2>4. (Stages => Stages') /\ (Resting => Resting') /\ (Up => Up')
    BY <2>1, <2>3, StageSame
  <2>5. functors' \in Seq(FunctorNames) /\ batch \in 0 .. Len(functors')
    BY <2>1, QueueType
  <2>6. TypeInv'
    BY <2>1, <2>2, <2>5 DEF TypeInv
  <2>7. AttemptInv'
    BY <2>1, <2>3, <2>4 DEF AttemptInv
  <2> QED BY <2>6, <2>7
<1>3. CASE Destroy /\ conn # "none"
  <2>1. /\ UNCHANGED <<state, connect, channel, retryTimers, hackTimer, wanted, conn, phase, batch, functors, sockets,
                       thread, connects, stopped, failed>>
        /\ client' = FALSE /\ phase # "restart" /\ thread = "idle"
    BY <1>3 DEF Destroy, loop
  <2>2. Starts' = Starts /\ Resets' = Resets /\ Closing' = Closing /\ ResetSoon' = ResetSoon
    BY <2>1, QueueSame
  <2>3. (Stages => Stages') /\ (Resting => Resting') /\ (Up => Up')
    BY <2>1, <2>2, StageSame
  <2>4. Up
    BY <1>3 DEF AttemptInv, Stages, Resting, Starting, Retrying, Attempting, Up, Restarting
  <2>5. client' \in BOOLEAN
    BY <2>1, Zenon
  <2>6. TypeInv' /\ AttemptInv'
    BY <2>1, <2>2, <2>3, <2>4, <2>5 DEF TypeInv, AttemptInv
  <2> QED BY <2>6
<1>4. CASE Destroy /\ conn = "none"
  <2>1. /\ UNCHANGED <<state, channel, retryTimers, wanted, conn, phase, batch, sockets, thread, connects, failed>>
        /\ functors' = Append(functors, "stopInLoop") /\ "stopInLoop" \in FunctorNames
        /\ connect' = FALSE /\ phase # "restart" /\ thread = "idle" /\ hackTimer' = 0
    BY <1>4 DEF Destroy, loop, FunctorNames
  <2>2. client' \in BOOLEAN /\ stopped' \in BOOLEAN /\ connect' \in BOOLEAN
    BY <1>4, Zenon DEF Destroy
  <2>3. Starts' = Starts /\ Resets' = Resets /\ Closing' = Closing /\ (ResetSoon => ResetSoon')
    BY <2>1, QueueAppended
  <2>4. (Stages => Stages') /\ (Resting => Resting') /\ (Up => Up')
    BY <2>1, <2>3, StageSame
  <2>5. functors' \in Seq(FunctorNames) /\ batch \in 0 .. Len(functors')
    BY <2>1, QueueType
  <2>6. TypeInv'
    BY <2>1, <2>2, <2>5 DEF TypeInv, NoHack
  <2>7. AttemptInv'
    BY <2>1, <2>3, <2>4 DEF AttemptInv
  <2> QED BY <2>6, <2>7
<1>5. CASE ThreadCall
  <2>1. PICK op \in ThreadOps :
            /\ op = "connect" => connects < MaxConnects
            /\ connects' = IF op = "connect" THEN connects + 1 ELSE connects
            /\ wanted' = (op = "connect")
            /\ thread' = IF op = "disconnect" THEN "idle" ELSE op
    BY <1>5 DEF ThreadCall
  <2>2. /\ UNCHANGED <<state, connect, channel, retryTimers, hackTimer, client, conn, phase, batch, functors, sockets,
                       stopped, failed>>
        /\ thread = "idle" /\ client
    BY <1>5 DEF ThreadCall, connector, loop
  <2>3. Resets' = Resets /\ Closing' = Closing /\ ResetSoon' = ResetSoon /\ Timers' = Timers
    BY <2>2, QueueSame DEF Timers
  <2>4. op \in {"connect", "disconnect", "stop"}
    BY TcpClientAssumption
  <2>5. TypeInv'
    BY <2>1, <2>2, <2>4 DEF TypeInv
  <2>6. CASE op = "connect"
    <3>1. connects = 0 /\ connects' = 1
      BY <2>1, <2>6, TcpClientAssumption DEF TypeInv
    <3>2. Starts' = Starts + 1
      BY <2>1, <2>2, <2>6, QueueSteps DEF Starts
    <3>3. Starting'
      BY <2>2, <2>3, <3>1, <3>2 DEF AttemptInv, Resting, Starting
    <3> QED BY <2>2, <2>3, <2>5, <3>1, <3>3 DEF AttemptInv, Stages
  <2>7. CASE op # "connect"
    <3>1. Starts' = Starts /\ connects' = connects
      BY <2>1, <2>2, <2>4, <2>7 DEF Starts
    <3>2. (Stages => Stages') /\ (Resting => Resting') /\ (Up => Up')
      BY <2>2, <2>3, <3>1, StageSame
    <3> QED BY <2>2, <2>3, <2>5, <3>1, <3>2 DEF AttemptInv
  <2> QED BY <2>6, <2>7
<1>6. CASE ThreadSet
  <2>1. /\ UNCHANGED <<state, channel, retryTimers, hackTimer, client, wanted, conn, phase, batch, functors, sockets,
                       connects, failed>>
        /\ (thread = "connect" /\ thread' = "startInLoop") \/ (thread = "stop" /\ thread' = "stopInLoop")
    BY <1>6 DEF ThreadSet, loop
  <2>2. connect' \in BOOLEAN /\ stopped' \in BOOLEAN
    BY <1>6 DEF ThreadSet
  <2>3. Starts' = Starts /\ Resets' = Resets /\ Closing' = Closing /\ ResetSoon' = ResetSoon
    BY <2>1, QueueSame DEF Starts
  <2>4. (Stages => Stages') /\ (Resting => Resting') /\ (Up => Up')
    BY <2>1, <2>3, StageSame
  <2>5. TypeInv'
    BY <2>1, <2>2 DEF TypeInv
  <2>6. AttemptInv'
    BY <2>1, <2>3, <2>4 DEF AttemptInv, TypeInv
  <2> QED BY <2>5, <2>6
<1>7. CASE ThreadQueue
  <2>1. /\ UNCHANGED <<state, connect, channel, retryTimers, hackTimer, client, wanted, conn, phase, batch, sockets,
                       connects, stopped, failed>>
        /\ functors' = Append(functors, thread) /\ thread \in {"startInLoop", "stopInLoop"} /\ thread' = "idle"
        /\ thread \in FunctorNames
    BY <1>7 DEF ThreadQueue, connector, loop, FunctorNames
  <2>2. Resets' = Resets /\ Closing' = Closing /\ (ResetSoon => ResetSoon')
    BY <2>1, QueueAppended
  <2>3. Starts' = Starts
    <3>1. /\ CountIn(functors, "startInLoop") \in Nat
          /\ CountIn(functors', "startInLoop") = IF thread = "startInLoop" THEN CountIn(functors, "startInLoop") + 1
                                                 ELSE CountIn(functors, "startInLoop")
      BY <2>1, QueueSteps
    <3> QED BY <2>1, <3>1 DEF Starts
  <2>4. (Stages => Stages') /\ (Resting => Resting') /\ (Up => Up')
    BY <2>1, <2>2, <2>3, StageSame
  <2>5. functors' \in Seq(FunctorNames) /\ batch \in 0 .. Len(functors')
    BY <2>1, QueueType
  <2>6. TypeInv'
    BY <2>1, <2>5 DEF TypeInv
  <2>7. AttemptInv'
    BY <2>1, <2>2, <2>4 DEF AttemptInv
  <2> QED BY <2>6, <2>7
<1> QED BY <1>1, <1>2, <1>3, <1>4, <1>5, <1>6, <1>7

\* The stage is one of these after every step.
LEMMA AttemptInductive ==
    ASSUME TypeInv, AttemptInv, MaxConnects <= 1, [Next]_vars
    PROVE  TypeInv' /\ AttemptInv'
<1>1. CASE UNCHANGED vars
  <2>1. /\ UNCHANGED <<state, connect, channel, retryTimers, hackTimer, client, wanted, conn, phase, batch, functors, sockets,
                       thread, connects, stopped, failed>>
    BY <1>1 DEF vars, connector, loop, user
  <2>2. Starts' = Starts /\ Resets' = Resets /\ Closing' = Closing /\ ResetSoon' = ResetSoon
    BY <2>1, QueueSame
  <2>3. (Stages => Stages') /\ (Resting => Resting') /\ (Up => Up')
    BY <2>1, <2>2, StageSame
  <2>4. TypeInv'
    BY <2>1 DEF TypeInv
  <2>5. AttemptInv'
    BY <2>1, <2>2, <2>3 DEF AttemptInv
  <2> QED BY <2>4, <2>5
<1> QED BY <1>1, StartsKeepAttempt, EventsKeepAttempt, LoopKeepsAttempt, CallsKeepAttempt DEF Next

\* Whatever fails, is closed, is called from the other thread or is destroyed: if connect
\* is called once, startInLoop finds the Connector disconnected, connecting() finds no
\* channel, and no TcpClient is called after its destruction.
THEOREM ConnectorAssertions == MaxConnects <= 1 => (Spec => []AssertionsHold)
<1> SUFFICES ASSUME MaxConnects <= 1 PROVE Spec => []AssertionsHold
  OBVIOUS
<1>1. TypeInv /\ AttemptInv => AssertionsHold
  BY DEF AttemptInv, AssertionsHold
<1> QED BY <1>1, InitAttempt, AttemptInductive, PTL DEF Spec

\* Of such a client no socket is lost and none is closed twice: each one belongs to the
\* attempt under way, to the connection, or to a connectDestroyed that will close it.
THEOREM NoSocketLost == MaxConnects <= 1 => (Spec => []SocketsOwned)
<1> SUFFICES ASSUME MaxConnects <= 1 PROVE Spec => []SocketsOwned
  OBVIOUS
<1>1. TypeInv /\ AttemptInv => SocketsOwned
  <2> SUFFICES ASSUME TypeInv, AttemptInv PROVE SocketsOwned
    OBVIOUS
  <2>1. Closing = Count("connectDestroyed") /\ Closing \in Nat
    BY Counted DEF Closing, Count, CountIn, Positions
  <2> QED BY <2>1 DEF AttemptInv, Stages, Resting, Starting, Retrying, Attempting, Up, Restarting, SocketsOwned
<1> QED BY <1>1, InitAttempt, AttemptInductive, PTL DEF Spec
-----------------------------------------------------------------------------
(* The timer of ~TcpClient.                                                *)

\* What is left in the queue q of the functors with a bare pointer to the connector, when
\* the timer is of age h: it takes one iteration until startInLoop and stopInLoop have
\* run, and a second one until the resetChannel that stopInLoop queued has run.
HackQueue(q, p, b, h, st) ==
    /\ st = "kConnecting" => CountIn(q, "stopInLoop") > 0
    /\ h >= 1 => Soon(q, "startInLoop", p, b) /\ Soon(q, "stopInLoop", p, b)
    /\ h >= 2 => /\ CountIn(q, "startInLoop") = 0 /\ CountIn(q, "stopInLoop") = 0
                 /\ Soon(q, "resetChannel", p, b)
    /\ h >= 3 => CountIn(q, "resetChannel") = 0

HackInv ==
    /\ hackTimer # NoHack => ~client /\ ~connect
    /\ ~client => HackQueue(functors, phase, batch, hackTimer, state)

\* Running a functor other than a stopInLoop that is still needed brings the queue nearer.
LEMMA HackTail ==
    ASSUME NEW q \in Seq(FunctorNames), NEW b \in 1 .. Len(q), NEW p, NEW h \in 0 .. NoHack, NEW st, NEW t,
           HackQueue(q, p, b, h, st), t = "kConnecting" => st = "kConnecting" /\ Head(q) # "stopInLoop"
    PROVE  HackQueue(Tail(q), p, b - 1, h, t)
<1>1. /\ \A f : /\ CountIn(q, f) \in Nat /\ CountIn(Tail(q), f) \in Nat
                /\ CountIn(q, f) = IF f = Head(q) THEN CountIn(Tail(q), f) + 1 ELSE CountIn(Tail(q), f)
      /\ \A f : Soon(q, f, p, b) => Soon(Tail(q), f, p, b - 1)
  BY CountTail
<1>2. \A f : CountIn(q, f) = 0 => CountIn(Tail(q), f) = 0
  BY <1>1
<1> QED BY <1>1, <1>2 DEF HackQueue

\* A functor that is appended while the connector still has its stopInLoop to run, or
\* that is not its own, or while the loop is not running functors.
LEMMA HackAppend ==
    ASSUME NEW q \in Seq(FunctorNames), NEW g \in {"resetChannel", "connectDestroyed"}, NEW p, NEW b,
           NEW h \in 0 .. NoHack, NEW st, NEW t,
           HackQueue(q, p, b, h, st), t = "kConnecting" => st = "kConnecting",
           g = "resetChannel" => CountIn(q, "stopInLoop") > 0
    PROVE  HackQueue(Append(q, g), p, b, h, t)
<1>1. g \in FunctorNames /\ g # "stopInLoop" /\ g # "startInLoop"
  BY DEF FunctorNames
<1>2. /\ \A f : /\ CountIn(q, f) \in Nat
                /\ CountIn(Append(q, g), f) = IF f = g THEN CountIn(q, f) + 1 ELSE CountIn(q, f)
      /\ \A f : Soon(q, f, p, b) /\ f # g => Soon(Append(q, g), f, p, b)
  BY <1>1, CountAppend
<1>3. g = "resetChannel" => ~(h >= 2)
  BY <1>2 DEF HackQueue
<1>4. h >= 3 => h >= 2
  BY DEF NoHack
<1> QED BY <1>1, <1>2, <1>3, <1>4 DEF HackQueue

\* Every step keeps the promise of the timer.
LEMMA HackInductive ==
    ASSUME TypeInv, AttemptInv, HackInv, MaxConnects <= 1, DestroyIdle, [Next]_vars, TypeInv', AttemptInv'
    PROVE  HackInv'
<1>0. /\ functors \in Seq(FunctorNames) /\ hackTimer \in 0 .. NoHack /\ hackTimer' \in 0 .. NoHack
      /\ Len(functors) \in Nat /\ batch \in 0 .. Len(functors)
  BY LenProperties DEF TypeInv
<1>1. CASE client /\ UNCHANGED <<client, hackTimer>>
  BY <1>1 DEF HackInv
<1>2. CASE ~client /\ UNCHANGED <<client, hackTimer, connect, state, functors, phase, batch>>
  BY <1>2 DEF HackInv
<1>3. CASE ConnectFails \/ Connected \/ RemoveConnection
  <2>1. CASE client
    BY <1>1, <1>3, <2>1, Zenon DEF ConnectFails, Connected, RemoveConnection
  <2>2. CASE ~client
    <3>1. PICK g \in {"resetChannel", "connectDestroyed"} :
            /\ functors' = Append(functors, g)
            /\ g = "resetChannel" => state = "kConnecting"
            /\ state' = "kConnecting" => state = "kConnecting"
            /\ phase' = phase /\ batch' = batch /\ connect' = connect /\ client' = client /\ hackTimer' = hackTimer
      BY <1>3, <2>2 DEF ConnectFails, Connected, RemoveConnection, RetryConnect, loop, connector
    <3>2. g = "resetChannel" => CountIn(functors, "stopInLoop") > 0
      BY <2>2, <3>1 DEF HackInv, HackQueue
    <3>3. HackQueue(functors', phase, batch, hackTimer, state')
      BY <1>0, <2>2, <3>1, <3>2, HackAppend DEF HackInv
    <3> QED BY <2>2, <3>1, <3>3 DEF HackInv
  <2> QED BY <2>1, <2>2
<1>4. CASE RetryTimer \/ RunStartInLoop
  <2>1. UNCHANGED <<client, hackTimer, connect, phase>>
    BY <1>4 DEF RetryTimer, RunStartInLoop, NextFunctor, loop
  <2>2. CASE ~client
    <3>1. ~connect
      <4>1. Starts > 0 \/ Timers > 0
        BY <1>4, StartsOrTimers
      <4>2. ~Resting /\ ~Up
        BY <4>1, OnTheWay
      <4> QED BY <2>2, <4>2 DEF AttemptInv
    <3>2. state' = state
      BY <1>4, <2>1, <3>1 DEF RetryTimer, RunStartInLoop, StartInLoop
    <3>3. CASE RetryTimer
      BY <1>2, <2>1, <2>2, <3>2, <3>3 DEF RetryTimer, loop
    <3>4. CASE RunStartInLoop
      <4>1. /\ functors' = Tail(functors) /\ batch' = batch - 1 /\ batch \in 1 .. Len(functors)
            /\ Head(functors) # "stopInLoop"
        BY <1>0, <3>4 DEF RunStartInLoop, NextFunctor
      <4>2. HackQueue(functors', phase, batch', hackTimer, state')
        BY <1>0, <2>2, <3>2, <4>1, HackTail DEF HackInv
      <4> QED BY <2>1, <2>2, <4>2 DEF HackInv
    <3> QED BY <1>4, <3>3, <3>4
  <2> QED BY <1>1, <2>1, <2>2
<1>5. CASE HackTimer
  <2>1. /\ UNCHANGED <<client, connect, state, functors, phase, batch>> /\ hackTimer = 3 /\ hackTimer' = NoHack
    BY <1>5 DEF HackTimer, connector, loop
  <2>2. ~client => HackQueue(functors, phase, batch, NoHack, state)
    BY <2>1 DEF HackInv, HackQueue, NoHack
  <2> QED BY <2>1, <2>2 DEF HackInv
<1>6. CASE Restart \/ Connect \/ Disconnect \/ Stop
  <2>1. client /\ UNCHANGED <<client, hackTimer>>
    BY <1>6 DEF Restart, Connect, Disconnect, Stop, Call, AttemptInv
  <2> QED BY <1>1, <2>1
<1>7. CASE SwapFunctors
  <2>1. /\ UNCHANGED <<client, connect, state, functors, hackTimer>> /\ phase' = "functors" /\ batch' = Len(functors)
    BY <1>7 DEF SwapFunctors, connector
  <2>2. \A f : Soon(functors, f, "functors", Len(functors))
    BY <1>0, SoonThenGone, Zenon
  <2> QED BY <2>1, <2>2 DEF HackInv, HackQueue
<1>8. CASE Poll
  <2>1. /\ UNCHANGED <<client, connect, state, functors, batch>> /\ phase = "functors" /\ batch = 0 /\ phase' = "events"
        /\ hackTimer' = IF hackTimer < 3 THEN hackTimer + 1 ELSE hackTimer
    BY <1>8 DEF Poll
  <2>2. \A f : Soon(functors, f, "events", batch) /\ (Soon(functors, f, phase, batch) => CountIn(functors, f) = 0)
    BY <1>0, <2>1, SoonThenGone
  <2>3. CASE client
    BY <2>1, <2>3 DEF HackInv, NoHack
  <2>4. CASE ~client
    <3>1. /\ hackTimer' >= 2 => hackTimer >= 1
          /\ hackTimer' >= 3 => hackTimer >= 2
          /\ hackTimer = NoHack => hackTimer' = NoHack
      BY <1>0, <2>1 DEF NoHack
    <3>2. HackQueue(functors, "events", batch, hackTimer', state)
      BY <2>2, <2>4, <3>1 DEF HackInv, HackQueue
    <3> QED BY <2>1, <2>4, <3>1, <3>2 DEF HackInv
  <2> QED BY <2>3, <2>4
<1>9. CASE RunStopInLoop \/ RunResetChannel \/ RunConnectDestroyed
  <2>1. /\ UNCHANGED <<client, connect, hackTimer, phase>> /\ batch' = batch - 1 /\ batch \in 1 .. Len(functors)
    <3>1. /\ UNCHANGED <<client, connect, hackTimer, phase>> /\ batch' = batch - 1 /\ batch > 0
      BY <1>9 DEF RunStopInLoop, RunResetChannel, RunConnectDestroyed, NextFunctor, connector
    <3> QED BY <1>0, <3>1
  <2>2. CASE ~client
    <3>1. HackQueue(functors, phase, batch, hackTimer, state)
      BY <2>2 DEF HackInv
    <3>2. CASE RunStopInLoop /\ state = "kConnecting"
      <4>1. functors' = Append(Tail(functors), "resetChannel") /\ state' = "kDisconnected"
        BY <3>2 DEF RunStopInLoop, RetryConnect
      <4>2. ~(hackTimer >= 2) /\ ~(hackTimer >= 3)
        BY <1>0, <3>1, <3>2 DEF HackQueue
      <4>3. HackQueue(Tail(functors), phase, batch - 1, hackTimer, "kDisconnected")
        BY <1>0, <2>1, <3>1, HackTail
      <4>4. Tail(functors) \in Seq(FunctorNames) /\ "resetChannel" \in FunctorNames
        BY <1>0, <2>1, CountTail DEF FunctorNames
      <4>5. \A f, p, b : Soon(Tail(functors), f, p, b) /\ f # "resetChannel" => Soon(functors', f, p, b)
        BY <4>1, <4>4, CountAppend, Zenon
      <4>6. HackQueue(functors', phase, batch - 1, hackTimer, "kDisconnected")
        BY <4>2, <4>3, <4>5 DEF HackQueue
      <4> QED BY <2>1, <2>2, <4>1, <4>6 DEF HackInv
    <3>3. CASE ~(RunStopInLoop /\ state = "kConnecting")
      <4>1. /\ functors' = Tail(functors) /\ state' = state
            /\ state = "kConnecting" => Head(functors) # "stopInLoop"
        BY <1>9, <3>3 DEF RunStopInLoop, RunResetChannel, RunConnectDestroyed, NextFunctor, connector
      <4>2. HackQueue(functors', phase, batch - 1, hackTimer, state')
        BY <1>0, <2>1, <3>1, <4>1, HackTail
      <4> QED BY <2>1, <2>2, <4>2 DEF HackInv
    <3> QED BY <3>2, <3>3
  <2> QED BY <1>1, <2>1, <2>2
<1>10. CASE Destroy /\ conn # "none"
  <2>1. /\ UNCHANGED <<state, hackTimer, connect, functors, phase, batch>> /\ client /\ ~ConnectorQueued
    BY <1>10 DEF Destroy, loop
  <2>2. CountIn(functors, "startInLoop") = 0 /\ CountIn(functors, "stopInLoop") = 0 /\ CountIn(functors, "resetChannel") = 0
    BY <1>0, <2>1, SoonThenGone DEF ConnectorQueued, Pending
  <2>3. \A p, b : Soon(functors, "startInLoop", p, b) /\ Soon(functors, "stopInLoop", p, b) /\ Soon(functors, "resetChannel", p, b)
    BY <1>0, <2>2, SoonThenGone
  <2>4. state # "kConnecting"
    <3>1. Stages /\ conn # "none"
      BY <1>10 DEF AttemptInv
    <3>2. Up
      BY <3>1 DEF Stages, Resting, Starting, Retrying, Attempting, Restarting
    <3> QED BY <3>2 DEF Up
  <2>5. HackQueue(functors, phase, batch, hackTimer, state)
    BY <2>2, <2>3, <2>4 DEF HackQueue
  <2>6. hackTimer = NoHack
    BY <2>1 DEF HackInv
  <2> QED BY <2>1, <2>5, <2>6 DEF HackInv
<1>11. CASE Destroy /\ conn = "none"
  <2>1. /\ functors' = Append(functors, "stopInLoop") /\ hackTimer' = 0 /\ ~connect' /\ ~client'
        /\ "stopInLoop" \in FunctorNames
    BY <1>11 DEF Destroy, FunctorNames
  <2>2. CountIn(functors', "stopInLoop") > 0
    <3>1. /\ CountIn(functors, "stopInLoop") \in Nat
          /\ CountIn(functors', "stopInLoop") = CountIn(functors, "stopInLoop") + 1
      BY <1>0, <2>1, QueueSteps
    <3> QED BY <3>1
  <2>3. HackQueue(functors', phase', batch', 0, state')
    BY <2>2 DEF HackQueue
  <2> QED BY <2>1, <2>3 DEF HackInv
<1>12. CASE ThreadCall \/ ThreadSet \/ ThreadQueue
  <2>1. client /\ UNCHANGED <<client, hackTimer>>
    BY <1>12 DEF ThreadCall, ThreadSet, ThreadQueue, AttemptInv
  <2> QED BY <1>1, <2>1
<1>13. CASE UNCHANGED vars
  BY <1>1, <1>2, <1>13 DEF vars, connector, loop
<1> QED BY <1>3, <1>4, <1>5, <1>6, <1>7, <1>8, <1>9, <1>10, <1>11, <1>12, <1>13 DEF Next

\* The hack of ~TcpClient works: its timer ("FIXME: HACK", one second) holds the
\* connector until startInLoop, stopInLoop and the resetChannel that it queues have
\* run, and until the channel is gone, when a client that has a connection is destroyed
\* only while nothing of its connector is queued.
THEOREM TimerOutlivesFunctors ==
    MaxConnects <= 1 /\ DestroyIdle => (Spec => []ConnectorOutlivesFunctors)
<1> SUFFICES ASSUME MaxConnects <= 1, DestroyIdle PROVE Spec => []ConnectorOutlivesFunctors
  OBVIOUS
<1>1. Init => HackInv
  BY DEF Init, HackInv
<1>2. TypeInv /\ AttemptInv /\ HackInv => ConnectorOutlivesFunctors
  <2> SUFFICES ASSUME TypeInv, AttemptInv, HackInv, ~ConnectorAlive
               PROVE  channel = "none" /\ ~ConnectorQueued
    BY DEF ConnectorOutlivesFunctors
  <2>1. ~client /\ hackTimer = NoHack /\ functors \in Seq(FunctorNames)
    BY DEF ConnectorAlive, TypeInv
  <2>2. /\ CountIn(functors, "startInLoop") = 0 /\ CountIn(functors, "stopInLoop") = 0
        /\ CountIn(functors, "resetChannel") = 0 /\ state # "kConnecting"
    BY <2>1 DEF HackInv, HackQueue, NoHack
  <2>3. ~ConnectorQueued
    BY <2>1, <2>2, SoonThenGone DEF ConnectorQueued, Pending
  <2>4. channel # "removed" /\ channel # "polled"
    <3>1. channel # "removed"
      BY <2>2 DEF AttemptInv, Resets
    <3>2. channel # "polled"
      BY <2>2 DEF AttemptInv, Stages, Resting, Starting, Retrying, Attempting, Up, Restarting
    <3> QED BY <3>1, <3>2
  <2> QED BY <2>3, <2>4 DEF TypeInv
<1> QED BY <1>1, <1>2, InitAttempt, AttemptInductive, HackInductive, PTL DEF Spec
-----------------------------------------------------------------------------
(* stop().                                                                 *)

\* After stop the connector wants no connection and will not be restarted, unless a
\* connect in the other thread has yet to set connect_; an attempt under way has its
\* stopInLoop queued.
StopInv ==
    /\ thread \notin {"stop", "stopInLoop"}
    /\ stopped => /\ ~connect /\ phase # "restart"
                  /\ client /\ wanted => thread = "connect"
                  /\ state = "kConnecting" => CountIn(functors, "stopInLoop") > 0

\* Every step keeps it so.
LEMMA StopInductive ==
    ASSUME TypeInv, AttemptInv, StopInv, MaxConnects <= 1, "stop" \notin ThreadOps, [Next]_vars
    PROVE  StopInv'
<1>1. CASE ~stopped' /\ thread' = thread
  BY <1>1 DEF StopInv
<1>2. CASE UNCHANGED <<thread, stopped, connect, phase, client, wanted, state, functors>>
  BY <1>2 DEF StopInv
<1>3. CASE ConnectFails \/ Connected \/ RemoveConnection
  <2>1. /\ UNCHANGED <<thread, stopped, connect, client, wanted>>
        /\ state' # "kConnecting"
        /\ phase' = "restart" => client /\ wanted /\ Up
    BY <1>3 DEF ConnectFails, Connected, RemoveConnection, RetryConnect, loop, connector, user, AttemptInv, Stages,
                Resting, Starting, Retrying, Attempting, Up, Restarting
  <2>2. Up => thread # "connect"
    BY Counted DEF Up
  <2> QED BY <2>1, <2>2 DEF StopInv
<1>4. CASE RetryTimer \/ RunStartInLoop
  <2>1. UNCHANGED <<thread, stopped, connect, phase, client, wanted>>
    BY <1>4 DEF RetryTimer, RunStartInLoop, NextFunctor, loop, user
  <2>2. ~connect => state' = state
    BY <1>4, <2>1 DEF RetryTimer, RunStartInLoop, StartInLoop
  <2>3. state # "kConnecting"
    <3>1. Starts > 0 \/ Timers > 0
      BY <1>4, StartsOrTimers
    <3> QED BY <3>1, OnTheWay
  <2> QED BY <2>1, <2>2, <2>3 DEF StopInv
<1>5. CASE HackTimer \/ Destroy \/ SwapFunctors \/ Poll
  <2>1. CASE HackTimer
    BY <1>2, <2>1 DEF HackTimer, connector, loop, user
  <2>2. CASE SwapFunctors \/ Poll
    <3>1. UNCHANGED <<thread, stopped, connect, client, wanted, state, functors>> /\ phase' # "restart"
      BY <2>2 DEF SwapFunctors, Poll, connector, user
    <3> QED BY <3>1 DEF StopInv
  <2>3. CASE Destroy /\ conn # "none"
    <3>1. UNCHANGED <<thread, stopped, connect, phase, wanted, state, functors>> /\ ~client'
      BY <2>3 DEF Destroy, loop
    <3> QED BY <3>1 DEF StopInv
  <2>4. CASE Destroy /\ conn = "none"
    <3>1. /\ UNCHANGED <<thread, phase, wanted, state>> /\ ~client' /\ ~connect' /\ phase # "restart"
          /\ functors' = Append(functors, "stopInLoop") /\ "stopInLoop" \in FunctorNames
      BY <2>4 DEF Destroy, loop, FunctorNames
    <3>2. CountIn(functors', "stopInLoop") > 0
      <4>1. /\ CountIn(functors, "stopInLoop") \in Nat
            /\ CountIn(functors', "stopInLoop") = CountIn(functors, "stopInLoop") + 1
        BY <3>1, QueueSteps
      <4> QED BY <4>1
    <3> QED BY <3>1, <3>2 DEF StopInv
  <2> QED BY <1>5, <2>1, <2>2, <2>3, <2>4
<1>6. CASE Restart
  <2>1. phase = "restart" /\ UNCHANGED <<stopped, thread>>
    BY <1>6 DEF Restart, user
  <2> QED BY <1>1, <2>1 DEF StopInv, TypeInv
<1>7. CASE Connect
  BY <1>1, <1>7 DEF Connect
<1>8. CASE RunStopInLoop \/ RunResetChannel \/ RunConnectDestroyed
  <2>1. /\ UNCHANGED <<thread, stopped, connect, phase, client, wanted>> /\ batch > 0
    BY <1>8 DEF RunStopInLoop, RunResetChannel, RunConnectDestroyed, NextFunctor, connector, user
  <2>2. CASE RunStopInLoop
    <3>1. state' # "kConnecting"
      BY <2>2 DEF RunStopInLoop, RetryConnect
    <3> QED BY <2>1, <3>1 DEF StopInv
  <2>3. CASE RunResetChannel \/ RunConnectDestroyed
    <3>1. functors' = Tail(functors) /\ Head(functors) # "stopInLoop" /\ state' = state
      BY <2>3 DEF RunResetChannel, RunConnectDestroyed, NextFunctor, connector
    <3>2. CountIn(functors', "stopInLoop") = CountIn(functors, "stopInLoop")
      BY <2>1, <3>1, QueueSteps
    <3> QED BY <2>1, <3>1, <3>2 DEF StopInv
  <2> QED BY <1>8, <2>2, <2>3
<1>9. CASE Disconnect
  <2>1. UNCHANGED <<thread, stopped, connect, phase, client, state, functors>> /\ ~wanted'
    BY <1>9 DEF Disconnect, Call, connector, loop
  <2> QED BY <2>1 DEF StopInv
<1>10. CASE Stop
  <2>1. /\ UNCHANGED <<thread, phase, client, state>> /\ ~wanted' /\ ~connect' /\ phase # "restart"
        /\ functors' = Append(functors, "stopInLoop") /\ "stopInLoop" \in FunctorNames
    BY <1>10 DEF Stop, Call, loop, FunctorNames
  <2>2. CountIn(functors', "stopInLoop") > 0
    <3>1. /\ CountIn(functors, "stopInLoop") \in Nat
          /\ CountIn(functors', "stopInLoop") = CountIn(functors, "stopInLoop") + 1
      BY <2>1, QueueSteps
    <3> QED BY <3>1
  <2> QED BY <2>1, <2>2 DEF StopInv
<1>11. CASE ThreadCall
  <2>1. PICK op \in ThreadOps : wanted' = (op = "connect") /\ thread' = IF op = "disconnect" THEN "idle" ELSE op
    BY <1>11 DEF ThreadCall
  <2>2. UNCHANGED <<stopped, connect, phase, client, state, functors>>
    BY <1>11 DEF ThreadCall, connector, loop
  <2>3. op \in {"connect", "disconnect"}
    BY TcpClientAssumption
  <2> QED BY <2>1, <2>2, <2>3, Zenon DEF StopInv
<1>12. CASE ThreadSet
  <2>1. thread' = "startInLoop" /\ ~stopped'
    BY <1>12, Zenon DEF ThreadSet, StopInv
  <2> QED BY <2>1 DEF StopInv
<1>13. CASE ThreadQueue
  <2>1. /\ UNCHANGED <<stopped, connect, phase, client, wanted, state>> /\ thread' = "idle"
        /\ thread = "startInLoop" /\ functors' = Append(functors, thread) /\ thread \in FunctorNames
    BY <1>13 DEF ThreadQueue, StopInv, connector, loop, FunctorNames
  <2>2. CountIn(functors', "stopInLoop") = CountIn(functors, "stopInLoop")
    BY <2>1, QueueSteps
  <2> QED BY <2>1, <2>2 DEF StopInv
<1>14. CASE UNCHANGED vars
  BY <1>2, <1>14 DEF vars, connector, loop, user
<1> QED BY <1>3, <1>4, <1>5, <1>6, <1>7, <1>8, <1>9, <1>10, <1>11, <1>12, <1>13, <1>14 DEF Next

\* stop(), when it is called in the thread of the loop, ends the attempt under way and
\* no later step begins another one: neither a timer, nor a start that was queued, nor
\* the restart after a close.
THEOREM StopEndsAttempts ==
    MaxConnects <= 1 /\ "stop" \notin ThreadOps => (Spec => []StopHolds)
<1> SUFFICES ASSUME MaxConnects <= 1, "stop" \notin ThreadOps PROVE Spec => []StopHolds
  OBVIOUS
<1>1. Init => StopInv
  BY DEF Init, StopInv
<1>2. TypeInv /\ StopInv => StopHolds
  <2> SUFFICES ASSUME TypeInv, StopInv, stopped, ~Pending("stopInLoop") PROVE state # "kConnecting"
    BY DEF StopHolds
  <2>1. functors \in Seq(FunctorNames)
    BY DEF TypeInv
  <2>2. CountIn(functors, "stopInLoop") = 0
    BY <2>1, SoonThenGone DEF Pending
  <2> QED BY <2>2 DEF StopInv
<1> QED BY <1>1, <1>2, InitAttempt, AttemptInductive, StopInductive, PTL DEF Spec
=============================================================================
