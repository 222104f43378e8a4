-------------------------- MODULE MuduoBaseProofs ---------------------------
(***************************************************************************)
(* Proofs about two components of muduo/base.                              *)
(*                                                                         *)
(* AsyncLogging, for buffers and backlogs of any size: the exchange of     *)
(* buffers never runs short of them, and the lines are all there, in       *)
(* order, but for the backlogs that were dropped.                          *)
(*                                                                         *)
(* The two conditions of ThreadPool lose no wakeup, for any number of      *)
(* workers and clients and any queue bound, and no task is lost, taken     *)
(* twice or overtaken.                                                     *)
(***************************************************************************)
EXTENDS AsyncLogging, Integers, FiniteSets, FiniteSetTheorems, SequenceTheorems, TLAPS

\* A ThreadPool.
CONSTANTS Workers, Clients, starter, maxQueueSize
VARIABLES poolRunning, queue, threads, threadPc, pushed, taken

Pool == INSTANCE ThreadPool WITH
    owner <- starter, running <- poolRunning, pc <- threadPc

TypeInv ==
    /\ buffers \in Seq(Seq(Nat)) /\ toWrite \in Seq(Seq(Nat)) /\ current \in Seq(Nat)
    /\ lines \in Nat /\ wrote \in 0 .. Len(toWrite) /\ written \in Seq(Nat)

\* nextBuffer_ is null only when a full buffer waits: the next exchange has two
\* buffers to give back for the two it takes.
ExchangeInv ==
    /\ next \in {Null, <<>>}
    /\ next = Null => buffers # <<>>
    /\ owner = "created" => pc = "none"
    /\ pc \in {"none", "start"} => toWrite = <<>>
    /\ pc \in {"while", "lock", "wait", "swap"} => new1 = <<>> /\ new2 = <<>> /\ toWrite = <<>>
    /\ pc # "write" => wrote = 0
    /\ pc \in {"drop", "write", "refill"} =>
          /\ new1 = Null /\ new2 \in {Null, <<>>}
          /\ Len(toWrite) >= 1
          /\ new2 = Null => Len(toWrite) >= 2
    /\ pc = "wait" /\ buffers # <<>> => signalled

\* The exchange of buffers keeps its invariant.
LEMMA ExchangeInductive == Spec => [](TypeInv /\ ExchangeInv)
<1> DEFINE Inv == TypeInv /\ ExchangeInv
<1>n. Null \in Seq(Nat) /\ Null # <<>> /\ <<>> \in Seq(Nat)
  BY DEF Null
<1>1. Init => Inv
  BY <1>n DEF Init, TypeInv, ExchangeInv
<1>2. Inv /\ [Next]_vars => Inv'
  <2> SUFFICES ASSUME TypeInv, ExchangeInv, [Next]_vars PROVE TypeInv' /\ ExchangeInv'
    OBVIOUS
  <2> USE <1>n DEF TypeInv, ExchangeInv
  <2>1. CASE AppendFits
    BY <2>1 DEF AppendFits, back
  <2>2. CASE AppendFull
    <3>1. (IF next # Null THEN next ELSE <<>>) = <<>>
      OBVIOUS
    <3>2. /\ buffers' = Append(buffers, current) /\ next' = Null
          /\ current' = Append(<<>>, lines') /\ lines' = lines + 1
          /\ UNCHANGED <<owner, pc, new1, new2, toWrite, wrote, written>>
      BY <2>2, <3>1, Zenon DEF AppendFull, back
    <3>3. pc = "wait" => signalled'
      BY <2>2, Zenon DEF AppendFull, Notified
    <3>4. buffers' # <<>> /\ buffers' \in Seq(Seq(Nat)) /\ current' \in Seq(Nat)
      <4>1. buffers' \in Seq(Seq(Nat)) /\ Len(buffers') = Len(buffers) + 1 /\ Len(buffers) \in Nat
        BY <3>2, AppendProperties, LenProperties
      <4>2. lines' \in Nat
        BY <3>2
      <4>3. current' \in Seq(Nat)
        BY <3>2, <4>2, AppendProperties
      <4> QED
        BY <4>1, <4>3
    <3> QED
      BY <3>2, <3>3, <3>4
  <2>3. CASE Start \/ Started \/ StopRunning \/ Join
    BY <2>3, Zenon DEF Start, Started, StopRunning, Join, front, back
  <2>10. CASE StopNotify
    <3>1. /\ UNCHANGED <<current, next, buffers, lines, pc, new1, new2, toWrite, wrote, written>>
          /\ owner' # "created"
      BY <2>10 DEF StopNotify, front, back
    <3>2. pc = "wait" => signalled'
      BY <2>10, Zenon DEF StopNotify, Notified
    <3> QED
      BY <3>1, <3>2
  <2>4. CASE ThreadStart
    BY <2>4 DEF ThreadStart, front
  <2>5. CASE While \/ Wait \/ Wake \/ Timeout
    BY <2>5, Zenon DEF While, Wait, Wake, Timeout, front, back
  <2>6. CASE Swap
    <3>1. /\ toWrite' = Append(buffers, current) /\ buffers' = <<>>
          /\ current' = <<>> /\ new1' = Null /\ pc' = "drop"
          /\ next' = IF next = Null THEN new2 ELSE next
          /\ new2' = IF next = Null THEN Null ELSE new2
          /\ new2 = <<>> /\ UNCHANGED <<owner, lines, wrote, written>> /\ pc # "none" /\ pc # "write"
      BY <2>6 DEF Swap
    <3>2. toWrite' \in Seq(Seq(Nat)) /\ Len(toWrite') = Len(buffers) + 1
      BY <3>1
    <3>3. next = Null => Len(buffers) >= 1
      OBVIOUS
    <3> QED
      BY <3>1, <3>2, <3>3
  <2>7. CASE DropBacklog
    <3>1. /\ toWrite' = SubSeq(toWrite, 1, Kept) /\ pc = "drop" /\ pc' = "write"
          /\ UNCHANGED <<owner, current, next, buffers, lines, signalled, new1, new2, wrote, written>>
      BY <2>7 DEF DropBacklog, front
    <3>2. Kept \in 1 .. Len(toWrite) /\ (Len(toWrite) >= 2 => Kept >= 2)
      BY <3>1, AsyncAssumption DEF Kept
    <3>3. toWrite' \in Seq(Seq(Nat)) /\ Len(toWrite') = Kept
      BY <3>1, <3>2
    <3> QED
      BY <3>1, <3>2, <3>3
  <2>11. CASE Write
    <3>1. /\ written' = written \o toWrite[wrote + 1] /\ wrote' = wrote + 1 /\ wrote < Len(toWrite) /\ pc = "write"
          /\ UNCHANGED <<owner, current, next, buffers, lines, pc, signalled, new1, new2, toWrite>>
      BY <2>11 DEF Write, front
    <3>2. wrote' \in 0 .. Len(toWrite) /\ toWrite[wrote + 1] \in Seq(Nat)
      BY <3>1
    <3>3. written' \in Seq(Nat)
      <4> DEFINE b == toWrite[wrote + 1]
      <4>1. b \in Seq(Nat) /\ written \in Seq(Nat) /\ written' = written \o b
        BY <3>1, <3>2
      <4> HIDE DEF b
      <4> QED BY <4>1, ConcatProperties
    <3> QED
      BY <3>1, <3>2, <3>3
  <2>12. CASE Resize
    <3> DEFINE n == Len(toWrite)
               k == IF n > 2 THEN 2 ELSE n
    <3>1. /\ toWrite' = SubSeq(toWrite, 1, k) /\ pc = "write" /\ pc' = "refill" /\ wrote' = 0
          /\ UNCHANGED <<owner, current, next, buffers, lines, signalled, new1, new2, written>>
      BY <2>12 DEF Resize, front
    <3>2. n \in Nat /\ n >= 1 /\ (new2 = Null => n >= 2)
      BY <3>1, LenProperties
    <3> HIDE DEF n
    <3>4. k \in 1 .. n /\ (n >= 2 => k = 2)
      BY <3>2
    <3> HIDE DEF k
    <3>3. toWrite' \in Seq(Seq(Nat)) /\ Len(toWrite') = k
      BY <3>1, <3>4 DEF n
    <3> QED
      BY <3>1, <3>2, <3>3, <3>4
  <2>8. CASE Refill
    <3>1. /\ new1' = <<>> /\ new2' = <<>> /\ toWrite' = <<>> /\ pc' = "while" /\ pc = "refill"
          /\ UNCHANGED <<owner, current, next, buffers, lines, signalled, wrote, written>>
      BY <2>8 DEF Refill, Recycled, front
    <3> QED
      BY <3>1
  <2>9. CASE UNCHANGED vars
    BY <2>9 DEF vars, front, back
  <2> QED
    BY <2>1, <2>2, <2>3, <2>4, <2>5, <2>6, <2>7, <2>8, <2>9, <2>10, <2>11, <2>12, Zenon DEF Next
<1> QED
  BY <1>1, <1>2, PTL DEF Spec

\* The assertions of threadFunc on its buffers hold.
THEOREM AlwaysBuffersAtHand == Spec => []BuffersAtHand
<1>1. TypeInv /\ ExchangeInv => BuffersAtHand
  BY DEF TypeInv, ExchangeInv, BuffersAtHand
<1> QED
  BY <1>1, ExchangeInductive, PTL

\* The back end does not wait for the flush interval behind a full buffer.
THEOREM AlwaysFullBufferWakes == Spec => []FullBufferWakes
<1>1. ExchangeInv => FullBufferWakes
  BY DEF ExchangeInv, FullBufferWakes
<1> QED
  BY <1>1, ExchangeInductive, PTL

-----------------------------------------------------------------------------
(* The lines.                                                              *)

Buffers == Seq(Seq(Nat))

Below(S, T) == \A x \in S, y \in T : x < y

\* The elements of a sequence of buffers.
LEMMA LinesAt ==
    ASSUME NEW q \in Buffers
    PROVE  /\ LinesOf(q) \subseteq Nat
           /\ \A i \in 1 .. Len(q) : q[i] \in Seq(Nat) /\ Len(q[i]) \in Nat
           /\ \A i \in 1 .. Len(q) : \A k \in 1 .. Len(q[i]) : q[i][k] \in LinesOf(q)
           /\ \A x \in LinesOf(q) : \E i \in 1 .. Len(q) : \E k \in 1 .. Len(q[i]) : x = q[i][k]
<1>1. \A i \in 1 .. Len(q) : q[i] \in Seq(Nat)
  BY DEF Buffers
<1>2. \A i \in 1 .. Len(q) : Len(q[i]) \in Nat /\ DOMAIN q[i] = 1 .. Len(q[i]) /\ \A k \in 1 .. Len(q[i]) : q[i][k] \in Nat
  BY <1>1, LenProperties
<1>3. \A x : x \in LinesOf(q) <=> \E i \in 1 .. Len(q) : x \in Range(q[i])
  BY DEF LinesOf
<1>4. \A i \in 1 .. Len(q) : Range(q[i]) = {q[i][k] : k \in 1 .. Len(q[i])}
  BY <1>2 DEF Range
<1>6. \A i \in 1 .. Len(q) : \A x : x \in Range(q[i]) <=> \E k \in 1 .. Len(q[i]) : x = q[i][k]
  BY <1>4, Zenon
<1>5. \A x : x \in LinesOf(q) <=> \E i \in 1 .. Len(q) : \E k \in 1 .. Len(q[i]) : x = q[i][k]
  <2>1. ASSUME NEW x, x \in LinesOf(q) PROVE \E i \in 1 .. Len(q) : \E k \in 1 .. Len(q[i]) : x = q[i][k]
    <3>1. PICK i \in 1 .. Len(q) : x \in Range(q[i])
      BY <1>3, <2>1
    <3>2. \E k \in 1 .. Len(q[i]) : x = q[i][k]
      BY ONLY <1>6, <3>1, Zenon
    <3> QED BY ONLY <3>2, Zenon
  <2>2. ASSUME NEW x, NEW i \in 1 .. Len(q), NEW k \in 1 .. Len(q[i]), x = q[i][k] PROVE x \in LinesOf(q)
    <3>1. x \in Range(q[i])
      BY <1>6, <2>2, Zenon
    <3> QED BY <1>3, <3>1
  <2> QED BY <2>1, <2>2
<1> QED BY <1>1, <1>2, <1>5

\* t has the elements of c and then those of d.
Joins(t, c, d) ==
    /\ Len(c) \in Nat /\ Len(d) \in Nat /\ Len(t) = Len(c) + Len(d)
    /\ \A i \in 1 .. Len(c) : i \in 1 .. Len(t) /\ t[i] = c[i]
    /\ \A i \in 1 .. Len(d) : Len(c) + i \in 1 .. Len(t) /\ t[Len(c) + i] = d[i]
    /\ \A i \in 1 .. Len(t) : i \in 1 .. Len(c) \/ \E j \in 1 .. Len(d) : i = Len(c) + j

\* Where the elements of two sequences are in their concatenation.
LEMMA TwoParts ==
    ASSUME NEW S, NEW c \in Seq(S), NEW d \in Seq(S)
    PROVE  c \o d \in Seq(S) /\ Joins(c \o d, c, d)
<1> DEFINE t == c \o d
           m == Len(c)
           n == Len(d)
<1>1. m \in Nat /\ n \in Nat
  BY LenProperties
<1>2. /\ t \in Seq(S) /\ Len(t) = m + n
      /\ \A i \in 1 .. m : t[i] = c[i]
      /\ \A i \in m + 1 .. m + n : t[i] = d[i - m]
  BY ConcatProperties
<1> HIDE DEF t, m, n
<1>3. \A i \in 1 .. n : m + i \in m + 1 .. m + n /\ (m + i) - m = i
  BY <1>1
<1>4. \A i \in 1 .. Len(t) : i \in 1 .. m \/ (i - m \in 1 .. n /\ i = m + (i - m))
  BY <1>1, <1>2
<1>5. \A i \in 1 .. m : i \in 1 .. Len(t)
  BY <1>1, <1>2
<1>6. \A i \in 1 .. n : m + i \in 1 .. Len(t)
  BY <1>1, <1>2
<1>7. \A i \in 1 .. n : t[m + i] = d[i]
  BY <1>2, <1>3, Zenon
<1>8. \A i \in 1 .. Len(t) : i \in 1 .. m \/ \E j \in 1 .. n : i = m + j
  BY <1>4, Zenon
<1> QED BY <1>1, <1>2, <1>5, <1>6, <1>7, <1>8, Zenon DEF Joins, t, m, n

\* The lines of two parts, and their order.
LEMMA Concat ==
    ASSUME NEW q \in Buffers, NEW r \in Buffers
    PROVE  /\ q \o r \in Buffers
           /\ LinesOf(q \o r) = LinesOf(q) \cup LinesOf(r)
           /\ InOrder(q \o r) <=> InOrder(q) /\ InOrder(r) /\ Below(LinesOf(q), LinesOf(r))
<1> DEFINE t == q \o r
           m == Len(q)
           n == Len(r)
<1>0. t \in Buffers /\ Joins(t, q, r)
  BY TwoParts, Zenon DEF Buffers
<1> HIDE DEF t
<1>1. m \in Nat /\ n \in Nat
  BY <1>0, Zenon DEF Joins
<1>2. t \in Buffers /\ Len(t) = m + n
  BY <1>0, Zenon DEF Joins
<1>3. /\ \A i \in 1 .. m : i \in 1 .. Len(t) /\ t[i] = q[i]
      /\ \A i \in 1 .. n : m + i \in 1 .. Len(t) /\ t[m + i] = r[i]
      /\ \A i \in 1 .. Len(t) : i \in 1 .. m \/ \E j \in 1 .. n : i = m + j
  BY <1>0, Zenon DEF Joins
<1> HIDE DEF m, n
<1>4. LinesOf(t) = LinesOf(q) \cup LinesOf(r)
  <2>1. ASSUME NEW x \in LinesOf(t) PROVE x \in LinesOf(q) \cup LinesOf(r)
    <3>1. PICK i \in 1 .. Len(t) : x \in Range(t[i])
      BY DEF LinesOf
    <3>2. (t[i] = q[i] /\ i \in 1 .. m) \/ \E j \in 1 .. n : t[i] = r[j]
      BY <1>3
    <3> QED BY <3>1, <3>2 DEF LinesOf, m, n
  <2>2. ASSUME NEW x \in LinesOf(q) PROVE x \in LinesOf(t)
    <3>1. PICK i \in 1 .. m : x \in Range(q[i])
      BY DEF LinesOf, m
    <3>2. i \in 1 .. Len(t) /\ t[i] = q[i]
      BY <1>3
    <3> QED BY <3>1, <3>2 DEF LinesOf
  <2>3. ASSUME NEW x \in LinesOf(r) PROVE x \in LinesOf(t)
    <3>1. PICK i \in 1 .. n : x \in Range(r[i])
      BY DEF LinesOf, n
    <3>2. m + i \in 1 .. Len(t) /\ t[m + i] = r[i]
      BY <1>3
    <3> QED BY <3>1, <3>2 DEF LinesOf
  <2> QED BY <2>1, <2>2, <2>3
<1>5. ASSUME InOrder(t) PROVE InOrder(q) /\ InOrder(r) /\ Below(LinesOf(q), LinesOf(r))
  <2>1. InOrder(q)
    BY <1>3, <1>5 DEF InOrder, m
  <2>2. InOrder(r)
    <3> SUFFICES ASSUME NEW i \in 1 .. n, NEW j \in 1 .. n, NEW k \in 1 .. Len(r[i]), NEW l \in 1 .. Len(r[j]),
                        i < j \/ (i = j /\ k < l)
                 PROVE  r[i][k] < r[j][l]
      BY DEF InOrder, n
    <3>1. m + i < m + j \/ (m + i = m + j /\ k < l)
      BY <1>1
    <3>2. m + i \in 1 .. Len(t) /\ m + j \in 1 .. Len(t) /\ t[m + i] = r[i] /\ t[m + j] = r[j]
      BY <1>3
    <3> QED BY <1>5, <3>1, <3>2, Zenon DEF InOrder
  <2>3. Below(LinesOf(q), LinesOf(r))
    <3> SUFFICES ASSUME NEW x \in LinesOf(q), NEW y \in LinesOf(r) PROVE x < y
      BY DEF Below
    <3>a. PICK i \in 1 .. m : \E k \in 1 .. Len(q[i]) : x = q[i][k]
      BY LinesAt DEF m
    <3>1. PICK k \in 1 .. Len(q[i]) : x = q[i][k]
      BY <3>a
    <3>b. PICK j \in 1 .. n : \E l \in 1 .. Len(r[j]) : y = r[j][l]
      BY LinesAt, Zenon DEF n
    <3>2. PICK l \in 1 .. Len(r[j]) : y = r[j][l]
      BY <3>b
    <3>3. i < m + j
      BY <1>1
    <3>4. i \in 1 .. Len(t) /\ m + j \in 1 .. Len(t) /\ t[i] = q[i] /\ t[m + j] = r[j]
      BY <1>3
    <3> QED BY <1>5, <3>1, <3>2, <3>3, <3>4 DEF InOrder
  <2> QED BY <2>1, <2>2, <2>3
<1>6. ASSUME InOrder(q), InOrder(r), Below(LinesOf(q), LinesOf(r)) PROVE InOrder(t)
  <2> SUFFICES ASSUME NEW i \in 1 .. Len(t), NEW j \in 1 .. Len(t), NEW k \in 1 .. Len(t[i]), NEW l \in 1 .. Len(t[j]),
                      i < j \/ (i = j /\ k < l)
               PROVE  t[i][k] < t[j][l]
    BY DEF InOrder
  <2>1. CASE i \in 1 .. m /\ j \in 1 .. m
    BY <1>3, <1>6, <2>1 DEF InOrder, m
  <2>2. CASE i \in 1 .. m /\ \E b \in 1 .. n : j = m + b
    <3>1. PICK b \in 1 .. n : j = m + b
      BY <2>2
    <3>2. t[i] = q[i] /\ t[j] = r[b]
      BY <1>3, <2>2, <3>1
    <3>3. t[i][k] \in LinesOf(q) /\ t[j][l] \in LinesOf(r)
      BY <2>2, <3>2, LinesAt, Zenon DEF m, n
    <3> QED BY <1>6, <3>3 DEF Below
  <2>3. CASE (\E a \in 1 .. n : i = m + a) /\ j \in 1 .. m
    BY <1>1, <2>3
  <2>4. CASE (\E a \in 1 .. n : i = m + a) /\ \E b \in 1 .. n : j = m + b
    <3>1. PICK a \in 1 .. n, b \in 1 .. n : i = m + a /\ j = m + b
      BY <2>4
    <3>2. t[i] = r[a] /\ t[j] = r[b]
      BY <1>3, <3>1
    <3>3. a < b \/ (a = b /\ k < l)
      BY <1>1, <3>1
    <3> QED BY <1>6, <3>2, <3>3 DEF InOrder, n
  <2> QED BY <1>3, <2>1, <2>2, <2>3, <2>4
<1> QED BY <1>2, <1>4, <1>5, <1>6 DEF t

\* One buffer, when it is empty and when a line or the lines of another are added.
LEMMA EmptyBuffers ==
    /\ <<>> \in Buffers /\ LinesOf(<<>>) = {} /\ InOrder(<<>>)
    /\ << <<>> >> \in Buffers /\ LinesOf(<< <<>> >>) = {} /\ InOrder(<< <<>> >>)
<1>1. <<>> \in Buffers /\ << <<>> >> \in Buffers
  BY DEF Buffers
<1>2. LinesOf(<<>>) = {} /\ InOrder(<<>>)
  BY DEF LinesOf, InOrder
<1>3. LinesOf(<< <<>> >>) = {} /\ InOrder(<< <<>> >>)
  BY DEF LinesOf, InOrder, Range
<1> QED BY <1>1, <1>2, <1>3

\* The lines of a list of one buffer are the lines of the buffer.
LEMMA OneBuffer ==
    ASSUME NEW c \in Seq(Nat)
    PROVE  /\ <<c>> \in Buffers /\ LinesOf(<<c>>) = {c[k] : k \in 1 .. Len(c)}
           /\ InOrder(<<c>>) <=> \A k, l \in 1 .. Len(c) : k < l => c[k] < c[l]
<1>1. Len(<<c>>) = 1 /\ <<c>>[1] = c /\ <<c>> \in Seq(Seq(Nat))
  OBVIOUS
<1>2. DOMAIN c = 1 .. Len(c)
  BY LenProperties
<1> DEFINE q == <<c>>
<1>3. Len(q) = 1 /\ q[1] = c /\ q \in Buffers
  BY <1>1 DEF Buffers
<1> HIDE DEF q
<1>4. LinesOf(q) = {c[k] : k \in 1 .. Len(c)}
  BY <1>2, <1>3 DEF LinesOf, Range
<1>5. InOrder(q) <=> \A k, l \in 1 .. Len(c) : k < l => c[k] < c[l]
  BY <1>3 DEF InOrder
<1> QED BY <1>3, <1>4, <1>5 DEF q

\* The lines of a buffer that grows by an append are the old ones and the new.
LEMMA LongerBuffer ==
    ASSUME NEW c \in Seq(Nat), NEW d \in Seq(Nat)
    PROVE  /\ c \o d \in Seq(Nat)
           /\ LinesOf(<<c \o d>>) = LinesOf(<<c>>) \cup LinesOf(<<d>>)
           /\ InOrder(<<c>>) /\ InOrder(<<d>>) /\ Below(LinesOf(<<c>>), LinesOf(<<d>>)) => InOrder(<<c \o d>>)
<1> DEFINE t == c \o d
           m == Len(c)
           n == Len(d)
<1>0. t \in Seq(Nat) /\ Joins(t, c, d)
  BY TwoParts, Zenon
<1> HIDE DEF t
<1>1. m \in Nat /\ n \in Nat
  BY <1>0, Zenon DEF Joins
<1>2. t \in Seq(Nat) /\ Len(t) = m + n
  BY <1>0, Zenon DEF Joins
<1>3. /\ \A i \in 1 .. m : i \in 1 .. Len(t) /\ t[i] = c[i]
      /\ \A i \in 1 .. n : m + i \in 1 .. Len(t) /\ t[m + i] = d[i]
      /\ \A i \in 1 .. Len(t) : i \in 1 .. m \/ \E j \in 1 .. n : i = m + j
  BY <1>0, Zenon DEF Joins
<1> HIDE DEF m, n
<1>4. /\ LinesOf(<<c>>) = {c[k] : k \in 1 .. m} /\ LinesOf(<<d>>) = {d[k] : k \in 1 .. n}
      /\ LinesOf(<<t>>) = {t[k] : k \in 1 .. Len(t)}
      /\ InOrder(<<c>>) <=> \A k, l \in 1 .. m : k < l => c[k] < c[l]
      /\ InOrder(<<d>>) <=> \A k, l \in 1 .. n : k < l => d[k] < d[l]
      /\ InOrder(<<t>>) <=> \A k, l \in 1 .. Len(t) : k < l => t[k] < t[l]
  BY <1>2, OneBuffer, Zenon DEF m, n
<1>5. LinesOf(<<t>>) = LinesOf(<<c>>) \cup LinesOf(<<d>>)
  <2>1. \A k \in 1 .. Len(t) : (\E i \in 1 .. m : t[k] = c[i]) \/ \E j \in 1 .. n : t[k] = d[j]
    BY <1>3, Zenon
  <2>2. \A i \in 1 .. m : \E k \in 1 .. Len(t) : t[k] = c[i]
    BY <1>3
  <2>3. \A j \in 1 .. n : \E k \in 1 .. Len(t) : t[k] = d[j]
    BY <1>3
  <2>4. ASSUME NEW x \in LinesOf(<<t>>) PROVE x \in LinesOf(<<c>>) \cup LinesOf(<<d>>)
    BY <1>4, <2>1
  <2>5. ASSUME NEW x \in LinesOf(<<c>>) PROVE x \in LinesOf(<<t>>)
    <3>1. PICK i \in 1 .. m : x = c[i]
      BY <1>4, Zenon
    <3> QED BY <1>4, <2>2, <3>1, Zenon
  <2>6. ASSUME NEW x \in LinesOf(<<d>>) PROVE x \in LinesOf(<<t>>)
    <3>1. PICK i \in 1 .. n : x = d[i]
      BY <1>4, Zenon
    <3> QED BY <1>4, <2>3, <3>1, Zenon
  <2> QED BY <2>4, <2>5, <2>6
<1>6. ASSUME InOrder(<<c>>), InOrder(<<d>>), Below(LinesOf(<<c>>), LinesOf(<<d>>)) PROVE InOrder(<<t>>)
  <2> SUFFICES ASSUME NEW k \in 1 .. Len(t), NEW l \in 1 .. Len(t), k < l PROVE t[k] < t[l]
    BY <1>4
  <2>1. CASE l \in 1 .. m
    <3>1. k \in 1 .. m
      BY <1>1, <1>2, <2>1
    <3> QED BY <1>3, <1>4, <1>6, <2>1, <3>1, Zenon
  <2>2. CASE \E b \in 1 .. n : l = m + b
    <3>1. PICK b \in 1 .. n : l = m + b
      BY <2>2
    <3>2. t[l] = d[b] /\ d[b] \in LinesOf(<<d>>)
      BY <1>3, <1>4, <3>1
    <3>3. CASE k \in 1 .. m
      <4>1. t[k] = c[k] /\ c[k] \in LinesOf(<<c>>)
        BY <1>3, <1>4, <3>3
      <4> QED BY <1>6, <3>2, <4>1, Zenon DEF Below
    <3>4. CASE \E a \in 1 .. n : k = m + a
      <4>1. PICK a \in 1 .. n : k = m + a
        BY <3>4
      <4>2. t[k] = d[a]
        BY <1>3, <4>1
      <4>3. a < b
        BY <1>1, <3>1, <4>1
      <4> QED BY <1>4, <1>6, <3>2, <4>2, <4>3
    <3> QED BY <1>3, <3>3, <3>4
  <2> QED BY <1>3, <2>1, <2>2
<1> QED BY <1>2, <1>5, <1>6, Zenon DEF t

\* A buffer of one line.
LEMMA NumberedLine ==
    ASSUME NEW n \in Nat
    PROVE  <<n>> \in Seq(Nat) /\ LinesOf(<< <<n>> >>) = {n} /\ InOrder(<< <<n>> >>)
<1> DEFINE c == <<n>>
<1>1. c \in Seq(Nat) /\ Len(c) = 1 /\ c[1] = n
  OBVIOUS
<1> HIDE DEF c
<1>2. LinesOf(<<c>>) = {n}
  BY <1>1, OneBuffer
<1>3. InOrder(<<c>>)
  BY <1>1, OneBuffer
<1> QED BY <1>1, <1>2, <1>3 DEF c

\* A vector of buffers and its two parts.
LEMMA Split ==
    ASSUME NEW q \in Buffers, NEW k \in 0 .. Len(q)
    PROVE  /\ SubSeq(q, 1, k) \in Buffers /\ SubSeq(q, k + 1, Len(q)) \in Buffers
           /\ Len(SubSeq(q, 1, k)) = k
           /\ q = SubSeq(q, 1, k) \o SubSeq(q, k + 1, Len(q))
<1> DEFINE n == Len(q)
           l == k + 1
<1>1. n \in Nat /\ k \in Int /\ l \in Int /\ 1 <= l /\ k <= n /\ k >= 0
  BY LenProperties DEF Buffers
<1>2. \A i \in 1 .. n : q[i] \in Seq(Nat)
  BY DEF Buffers
<1>3. q \in Seq(Seq(Nat))
  BY DEF Buffers
<1>4. q = SubSeq(q, 1, k) \o SubSeq(q, k + 1, n)
  <2>1. SubSeq(q, 1, n) = q
    BY <1>3, SubSeqFull
  <2>2. 1 \in 1 .. n + 1 /\ k \in 1 - 1 .. n /\ n \in k .. n
    BY <1>1
  <2> HIDE DEF n, l
  <2>3. SubSeq(q, 1, k) \o SubSeq(q, k + 1, n) = SubSeq(q, 1, n)
    BY <1>3, <2>2, ConcatAdjacentSubSeq, Zenon DEF n
  <2> QED BY <2>1, <2>3, Zenon
<1> HIDE DEF n, l
<1>5. SubSeq(q, 1, k) \in Seq(Seq(Nat)) /\ Len(SubSeq(q, 1, k)) = k
  <2>1. \A i \in 1 .. k : q[i] \in Seq(Nat)
    BY <1>1, <1>2
  <2>2. SubSeq(q, 1, k) \in Seq(Seq(Nat)) /\ Len(SubSeq(q, 1, k)) = IF 1 <= k THEN k - 1 + 1 ELSE 0
    BY <1>1, <2>1, SubSeqProperties
  <2> QED BY <1>1, <2>2
<1>6. SubSeq(q, l, n) \in Seq(Seq(Nat))
  <2>1. \A i \in l .. n : q[i] \in Seq(Nat)
    BY <1>1, <1>2
  <2> QED BY <1>1, <2>1, SubSeqProperties
<1> QED BY <1>4, <1>5, <1>6, Zenon DEF n, l, Buffers

\* Of the buffers still to write, the next one and the rest.
LEMMA FirstHeld ==
    ASSUME NEW q \in Buffers, NEW k \in Nat, k < Len(q)
    PROVE  /\ q[k + 1] \in Seq(Nat) /\ SubSeq(q, (k + 1) + 1, Len(q)) \in Buffers
           /\ SubSeq(q, k + 1, Len(q)) = <<q[k + 1]>> \o SubSeq(q, (k + 1) + 1, Len(q))
<1> DEFINE l == k + 1
<1>1. l \in 1 .. Len(q) /\ l \in 0 .. Len(q) /\ Len(q) \in l .. Len(q) /\ Len(q) \in Nat
  BY LenProperties DEF Buffers
<1> HIDE DEF l
<1>2. q[l] \in Seq(Nat) /\ q \in Seq(Seq(Nat))
  BY <1>1 DEF Buffers
<1>3. SubSeq(q, l + 1, Len(q)) \in Buffers
  BY <1>1, Split, Zenon
<1>4. SubSeq(q, l, Len(q)) = <<q[l]>> \o SubSeq(q, l + 1, Len(q))
  BY <1>1, <1>2, SubSeqRecursiveFirst
<1> QED BY <1>2, <1>3, <1>4 DEF l

\* The parts of the log from the oldest to the newest: written (w), held by the
\* back end (h), full buffers of the front end (b) and its current buffer (c).
Parts(W, H, B, C, n, d) ==
    /\ W \cup H \cup B \cup C = (1 .. n) \ d /\ d \subseteq 1 .. n
    /\ Below(W, H) /\ Below(W, B) /\ Below(W, C)
    /\ Below(H, B) /\ Below(H, C) /\ Below(B, C)

LogInv(w, h, b, c, n, d) ==
    /\ Parts(LinesOf(<<w>>), LinesOf(h), LinesOf(b), LinesOf(<<c>>), n, d)
    /\ InOrder(<<w>>) /\ InOrder(h) /\ InOrder(b) /\ InOrder(<<c>>)

ConservedInv == LogInv(written, Held, buffers, current, lines, dropped)

\* What the steps do to the sets of lines.
LEMMA PartsAppend ==
    ASSUME NEW W, NEW H, NEW B, NEW C, NEW d, NEW n \in Nat, Parts(W, H, B, C, n, d)
    PROVE  /\ Parts(W, H, B, C \cup {n + 1}, n + 1, d) /\ Below(C, {n + 1})
           /\ Parts(W, H, B \cup C, {n + 1}, n + 1, d)
<1>1. \A x \in W \cup H \cup B \cup C : x \in Nat /\ x < n + 1
  BY DEF Parts
<1>2. 1 .. n + 1 = (1 .. n) \cup {n + 1} /\ n + 1 \notin d /\ d \subseteq 1 .. n + 1
  BY DEF Parts
<1>3. (W \cup H \cup B \cup C) \cup {n + 1} = (1 .. n + 1) \ d
  BY <1>2 DEF Parts
<1>4. \A S : S \subseteq W \cup H \cup B \cup C => Below(S, {n + 1})
  BY <1>1 DEF Below
<1>5. Below(W, {n + 1}) /\ Below(H, {n + 1}) /\ Below(B, {n + 1}) /\ Below(C, {n + 1}) /\ Below(B \cup C, {n + 1})
  BY <1>4
<1>6. Below(W, C \cup {n + 1}) /\ Below(H, C \cup {n + 1}) /\ Below(B, C \cup {n + 1})
  BY <1>5 DEF Parts, Below
<1>7. Below(W, B \cup C) /\ Below(H, B \cup C)
  BY DEF Parts, Below
<1>8. /\ W \cup H \cup B \cup (C \cup {n + 1}) = (1 .. n + 1) \ d
      /\ W \cup H \cup (B \cup C) \cup {n + 1} = (1 .. n + 1) \ d
  BY <1>3
<1> QED BY <1>2, <1>5, <1>6, <1>7, <1>8 DEF Parts

\* The exchange of threadFunc: what the front end held is what the back end holds.
LEMMA PartsSwap ==
    ASSUME NEW W, NEW B, NEW C, NEW d, NEW n \in Nat, Parts(W, {}, B, C, n, d)
    PROVE  Parts(W, B \cup C, {}, {}, n, d) /\ Below(B, C)
<1>1. Below(W, B \cup C) /\ \A S : Below(S, {})
  BY DEF Parts, Below
<1> QED BY <1>1 DEF Parts

\* erase(): the lines of a backlog are held no longer, and are dropped.
LEMMA PartsDrop ==
    ASSUME NEW W, NEW H, NEW R, NEW B, NEW C, NEW d, NEW n \in Nat, Parts(W, H \cup R, B, C, n, d), Below(H, R)
    PROVE  Parts(W, H, B, C, n, d \cup R)
<1>1. /\ Below(W, H) /\ Below(W, R) /\ Below(H, B) /\ Below(R, B) /\ Below(H, C) /\ Below(R, C)
      /\ Below(W, B) /\ Below(W, C) /\ Below(B, C)
  BY DEF Parts, Below
<1>2. R \subseteq 1 .. n /\ d \subseteq 1 .. n /\ W \cup (H \cup R) \cup B \cup C = (1 .. n) \ d
  BY DEF Parts
<1>3. ASSUME NEW x \in R PROVE x \notin W \cup H \cup B \cup C
  <2>1. x \in Nat /\ ~(x < x)
    BY <1>2
  <2> QED BY <1>1, <2>1 DEF Below
<1>4. W \cup H \cup B \cup C = (1 .. n) \ (d \cup R)
  BY <1>2, <1>3
<1> QED BY <1>1, <1>2, <1>4 DEF Parts

\* output.append: the first lines held are written.
LEMMA PartsWrite ==
    ASSUME NEW W, NEW F, NEW H, NEW B, NEW C, NEW d, NEW n \in Nat, Parts(W, F \cup H, B, C, n, d), Below(F, H)
    PROVE  Parts(W \cup F, H, B, C, n, d) /\ Below(W, F)
<1>1. Below(W, F) /\ Below(W \cup F, H) /\ Below(W \cup F, B) /\ Below(W \cup F, C) /\ Below(H, B) /\ Below(H, C) /\ Below(B, C)
  BY DEF Parts, Below
<1>2. (W \cup F) \cup H \cup B \cup C = (1 .. n) \ d /\ d \subseteq 1 .. n
  BY DEF Parts
<1> QED BY <1>1, <1>2 DEF Parts

\* append, where the line fits into the current buffer and where it does not.
LEMMA LogAppend ==
    ASSUME NEW w \in Seq(Nat), NEW h \in Buffers, NEW b \in Buffers, NEW c \in Seq(Nat), NEW n \in Nat, NEW d,
           LogInv(w, h, b, c, n, d)
    PROVE  LogInv(w, h, b, Append(c, n + 1), n + 1, d) /\ LogInv(w, h, Append(b, c), Append(<<>>, n + 1), n + 1, d)
<1> DEFINE l == n + 1
           W == LinesOf(<<w>>)
           H == LinesOf(h)
           B == LinesOf(b)
           C == LinesOf(<<c>>)
<1>1. /\ Parts(W, H, B, C \cup {l}, l, d) /\ Below(C, {l}) /\ Below(B, C)
      /\ Parts(W, H, B \cup C, {l}, l, d)
  <2>1. Parts(W, H, B, C, n, d) /\ Below(B, C)
    BY Zenon DEF LogInv, Parts
  <2> HIDE DEF W, H, B, C
  <2> QED BY <2>1, PartsAppend, Zenon
<1>2. l \in Nat
  OBVIOUS
<1> HIDE DEF l
<1>3. <<l>> \in Seq(Nat) /\ LinesOf(<< <<l>> >>) = {l} /\ InOrder(<< <<l>> >>)
  BY <1>2, NumberedLine, Zenon
<1>4. Append(c, l) = c \o <<l>> /\ Append(b, c) = b \o <<c>> /\ Append(<<>>, l) = <<l>>
  <2>1. Append(c, l) = c \o <<l>>
    BY <1>2, AppendIsConcat DEF Buffers
  <2>2. Append(b, c) = b \o <<c>>
    BY AppendIsConcat DEF Buffers
  <2>3. Append(<<>>, l) = <<l>>
    BY <1>2
  <2> QED BY <2>1, <2>2, <2>3
<1>5. LinesOf(<<c \o <<l>> >>) = C \cup {l} /\ InOrder(<<c \o <<l>> >>)
  BY <1>1, <1>3, LongerBuffer, Zenon DEF LogInv
<1>6. LinesOf(b \o <<c>>) = B \cup C /\ InOrder(b \o <<c>>)
  <2>1. <<c>> \in Buffers
    BY OneBuffer
  <2> QED BY <1>1, <2>1, Concat DEF LogInv
<1>7. LogInv(w, h, b, Append(c, l), l, d)
  BY <1>1, <1>4, <1>5, Zenon DEF LogInv
<1>8. LogInv(w, h, Append(b, c), Append(<<>>, l), l, d)
  BY <1>1, <1>3, <1>4, <1>6, Zenon DEF LogInv
<1> QED BY <1>7, <1>8 DEF l

\* The back end takes the buffers of the front end, drops the end of a backlog,
\* and writes the first buffer that it holds.
LEMMA LogSwap ==
    ASSUME NEW w \in Seq(Nat), NEW b \in Buffers, NEW c \in Seq(Nat), NEW n \in Nat, NEW d,
           LogInv(w, <<>>, b, c, n, d)
    PROVE  LogInv(w, Append(b, c), <<>>, <<>>, n, d)
<1> DEFINE W == LinesOf(<<w>>)
           B == LinesOf(b)
           C == LinesOf(<<c>>)
<1>1. Parts(W, B \cup C, {}, {}, n, d) /\ Below(B, C)
  <2>1. Parts(W, {}, B, C, n, d)
    BY EmptyBuffers, Zenon DEF LogInv
  <2> HIDE DEF W, B, C
  <2> QED BY <2>1, PartsSwap, Zenon
<1>2. Append(b, c) = b \o <<c>>
  BY AppendIsConcat DEF Buffers
<1>3. LinesOf(b \o <<c>>) = B \cup C /\ InOrder(b \o <<c>>)
  <2>1. <<c>> \in Buffers
    BY OneBuffer
  <2> QED BY <1>1, <2>1, Concat DEF LogInv
<1> QED BY <1>1, <1>2, <1>3, EmptyBuffers, Zenon DEF LogInv

\* LogInv survives the erasure of a backlog.
LEMMA LogDrop ==
    ASSUME NEW w \in Seq(Nat), NEW h \in Buffers, NEW r \in Buffers, NEW b \in Buffers, NEW c \in Seq(Nat),
           NEW n \in Nat, NEW d, LogInv(w, h \o r, b, c, n, d)
    PROVE  LogInv(w, h, b, c, n, d \cup LinesOf(r))
<1> DEFINE W == LinesOf(<<w>>)
           H == LinesOf(h)
           R == LinesOf(r)
           B == LinesOf(b)
           C == LinesOf(<<c>>)
<1>1. LinesOf(h \o r) = H \cup R /\ InOrder(h) /\ Below(H, R)
  BY Concat DEF LogInv
<1>2. Parts(W, H \cup R, B, C, n, d)
  BY <1>1 DEF LogInv
<1>3. Parts(W, H, B, C, n, d \cup R)
  <2> HIDE DEF W, H, R, B, C
  <2> QED BY <1>1, <1>2, PartsDrop
<1> QED BY <1>1, <1>3 DEF LogInv

\* LogInv survives the writing of a buffer.
LEMMA LogWrite ==
    ASSUME NEW w \in Seq(Nat), NEW f \in Seq(Nat), NEW h \in Buffers, NEW b \in Buffers, NEW c \in Seq(Nat),
           NEW n \in Nat, NEW d, LogInv(w, <<f>> \o h, b, c, n, d)
    PROVE  LogInv(w \o f, h, b, c, n, d)
<1> DEFINE W == LinesOf(<<w>>)
           F == LinesOf(<<f>>)
           H == LinesOf(h)
           B == LinesOf(b)
           C == LinesOf(<<c>>)
<1>1. LinesOf(<<f>> \o h) = F \cup H /\ InOrder(<<f>>) /\ InOrder(h) /\ Below(F, H)
  <2>1. <<f>> \in Buffers
    BY OneBuffer
  <2> QED BY <2>1, Concat DEF LogInv
<1>2. Parts(W, F \cup H, B, C, n, d)
  BY <1>1, Zenon DEF LogInv
<1>3. Parts(W \cup F, H, B, C, n, d) /\ Below(W, F)
  <2> HIDE DEF W, F, H, B, C
  <2> QED BY <1>1, <1>2, PartsWrite
<1>4. LinesOf(<<w \o f>>) = W \cup F /\ InOrder(<<w \o f>>)
  BY <1>1, <1>3, LongerBuffer, Zenon DEF LogInv
<1> QED BY <1>1, <1>3, <1>4, Zenon DEF LogInv

\* The parts in order are the log in order.
LEMMA LogWhole ==
    ASSUME NEW w \in Seq(Nat), NEW h \in Buffers, NEW b \in Buffers, NEW c \in Seq(Nat), NEW n, NEW d,
           LogInv(w, h, b, c, n, d)
    PROVE  LET all == <<w>> \o h \o Append(b, c)
           IN  LinesOf(all) = (1 .. n) \ d /\ InOrder(all)
<1> DEFINE W == LinesOf(<<w>>)
           H == LinesOf(h)
           B == LinesOf(b)
           C == LinesOf(<<c>>)
           e == <<w>> \o h
           f == b \o <<c>>
<1>1. <<w>> \in Buffers /\ <<c>> \in Buffers
  BY OneBuffer
<1>2. Parts(W, H, B, C, n, d) /\ InOrder(<<w>>) /\ InOrder(h) /\ InOrder(b) /\ InOrder(<<c>>)
  BY DEF LogInv
<1>9. Below(W, H) /\ Below(B, C)
  BY <1>2 DEF Parts
<1>3. e \in Buffers /\ LinesOf(e) = W \cup H /\ InOrder(e)
  BY <1>1, <1>2, <1>9, Concat
<1>4. f \in Buffers /\ LinesOf(f) = B \cup C /\ InOrder(f)
  BY <1>1, <1>2, <1>9, Concat
<1>5. Append(b, c) = f
  BY AppendIsConcat DEF Buffers
<1> HIDE DEF W, H, B, C, e, f
<1>6. Below(W \cup H, B \cup C)
  BY <1>2 DEF Parts, Below
<1>7. LinesOf(e \o f) = (W \cup H) \cup (B \cup C) /\ InOrder(e \o f)
  <2>1. Below(LinesOf(e), LinesOf(f))
    BY <1>3, <1>4, <1>6
  <2>2. LinesOf(e \o f) = LinesOf(e) \cup LinesOf(f) /\ InOrder(e \o f)
    BY <1>3, <1>4, <2>1, Concat, Zenon
  <2> QED BY <1>3, <1>4, <2>2
<1>8. (W \cup H) \cup (B \cup C) = (1 .. n) \ d
  BY <1>2 DEF Parts
<1> QED BY <1>5, <1>7, <1>8 DEF e

\* What threadFunc has still to write is a list of buffers.
LEMMA HeldBuffers == TypeInv => Held \in Buffers
<1> SUFFICES ASSUME TypeInv PROVE Held \in Buffers
  OBVIOUS
<1>1. toWrite \in Buffers /\ wrote \in 0 .. Len(toWrite)
  BY DEF TypeInv, Buffers
<1>2. SubSeq(toWrite, wrote + 1, Len(toWrite)) \in Buffers
  BY <1>1, Split, Zenon
<1> QED BY <1>2, EmptyBuffers DEF Held

\* The log keeps its parts, in order and complete.
LEMMA ConservedStep ==
    ASSUME TypeInv, TypeInv', ExchangeInv, ConservedInv, [Next]_vars
    PROVE  ConservedInv'
<1>1. /\ written \in Seq(Nat) /\ Held \in Buffers /\ buffers \in Buffers /\ current \in Seq(Nat) /\ lines \in Nat
      /\ toWrite \in Buffers /\ wrote \in 0 .. Len(toWrite)
  BY HeldBuffers DEF TypeInv, Buffers
<1>2. LogInv(written, Held, buffers, current, lines, dropped)
  BY DEF ConservedInv
<1>3. SUFFICES LogInv(written', Held', buffers', current', lines', dropped')
  BY DEF ConservedInv
<1>4. ASSUME UNCHANGED <<written, Held, buffers, current, lines, dropped>>
      PROVE  LogInv(written', Held', buffers', current', lines', dropped')
  <2>1. /\ written' = written /\ Held' = Held /\ buffers' = buffers /\ current' = current
        /\ lines' = lines /\ dropped' = dropped
    BY <1>4
  <2> QED BY <1>2, <2>1
<1>5. CASE AppendFits
  <2>1. /\ UNCHANGED <<written, buffers, dropped>> /\ lines' = lines + 1 /\ current' = Append(current, lines + 1)
        /\ UNCHANGED <<pc, toWrite, wrote>>
    BY <1>5 DEF AppendFits, back
  <2>2. Held' = Held
    BY <2>1 DEF Held
  <2>3. LogInv(written, Held, buffers, Append(current, lines + 1), lines + 1, dropped)
    BY <1>1, <1>2, LogAppend, Zenon
  <2> QED BY <2>1, <2>2, <2>3
<1>6. CASE AppendFull
  <2>1. /\ UNCHANGED <<written, dropped>> /\ lines' = lines + 1 /\ buffers' = Append(buffers, current)
        /\ current' = Append(<<>>, lines + 1) /\ UNCHANGED <<pc, toWrite, wrote>>
    BY <1>6, Zenon DEF AppendFull, back, ExchangeInv
  <2>2. Held' = Held
    BY <2>1 DEF Held
  <2>3. LogInv(written, Held, Append(buffers, current), Append(<<>>, lines + 1), lines + 1, dropped)
    BY <1>1, <1>2, LogAppend
  <2> QED BY <2>1, <2>2, <2>3
<1>7. CASE Swap
  <2>1. /\ pc \in {"swap", "lock"} /\ pc' = "drop" /\ toWrite' = Append(buffers, current) /\ buffers' = <<>>
        /\ current' = <<>> /\ UNCHANGED <<lines, wrote, written, dropped>> /\ wrote = 0
    BY <1>7 DEF Swap, ExchangeInv
  <2>2. Held = <<>>
    BY <2>1 DEF Held
  <2>3. Held' = Append(buffers, current)
    <3> DEFINE q == Append(buffers, current)
    <3>1. q \in Seq(Seq(Nat))
      BY <1>1, AppendProperties DEF Buffers
    <3>2. Held' = SubSeq(q, 1, Len(q))
      BY <2>1 DEF Held
    <3> HIDE DEF q
    <3>3. SubSeq(q, 1, Len(q)) = q
      BY <3>1, SubSeqFull
    <3> QED BY <3>2, <3>3 DEF q
  <2>4. LogInv(written, Append(buffers, current), <<>>, <<>>, lines, dropped)
    BY <1>1, <1>2, <2>2, LogSwap
  <2> QED BY <2>1, <2>3, <2>4
<1>8. CASE DropBacklog
  <2> DEFINE k == Kept
             p == SubSeq(toWrite, 1, k)
             r == SubSeq(toWrite, k + 1, Len(toWrite))
  <2>1. /\ pc = "drop" /\ pc' = "write" /\ toWrite' = p /\ dropped' = dropped \union LinesOf(r)
        /\ UNCHANGED <<current, buffers, lines, wrote, written>> /\ wrote = 0
    BY <1>8 DEF DropBacklog, ExchangeInv, front
  <2>2. k \in 0 .. Len(toWrite)
    <3>1. Len(toWrite) \in Nat
      BY <1>1, LenProperties DEF Buffers
    <3> QED BY <3>1, AsyncAssumption DEF Kept
  <2> HIDE DEF k
  <2>3. p \in Buffers /\ r \in Buffers /\ Len(p) = k /\ toWrite = p \o r
    BY <1>1, <2>2, Split, Zenon
  <2> HIDE DEF p, r
  <2>4. Held = toWrite /\ Held' = p
    <3>1. Held = SubSeq(toWrite, 1, Len(toWrite)) /\ Held' = SubSeq(p, 1, Len(p))
      BY <2>1 DEF Held
    <3> QED BY <1>1, <2>3, <3>1, SubSeqFull DEF Buffers
  <2>5. LogInv(written, p \o r, buffers, current, lines, dropped)
    BY <1>2, <2>3, <2>4
  <2>6. LogInv(written, p, buffers, current, lines, dropped \cup LinesOf(r))
    BY <1>1, <2>3, <2>5, LogDrop
  <2> QED BY <2>1, <2>4, <2>6
<1>9. CASE Write
  <2> DEFINE k == wrote
             f == toWrite[k + 1]
             h1 == SubSeq(toWrite, k + 1, Len(toWrite))
             h2 == SubSeq(toWrite, (k + 1) + 1, Len(toWrite))
  <2>1. /\ pc = "write" /\ wrote < Len(toWrite) /\ written' = written \o f /\ wrote' = k + 1
        /\ UNCHANGED <<current, buffers, lines, pc, toWrite, dropped>>
    BY <1>9 DEF Write, front
  <2>2. Held = h1 /\ Held' = h2
    BY <2>1, Zenon DEF Held
  <2>3. f \in Seq(Nat) /\ h2 \in Buffers /\ h1 = <<f>> \o h2
    BY <1>1, <2>1, FirstHeld
  <2> HIDE DEF f, h1, h2
  <2>4. LogInv(written, <<f>> \o h2, buffers, current, lines, dropped)
    BY <1>2, <2>2, <2>3
  <2>5. LogInv(written \o f, h2, buffers, current, lines, dropped)
    BY <1>1, <2>3, <2>4, LogWrite
  <2> QED BY <2>1, <2>2, <2>5
<1>10. CASE Resize
  <2>1. /\ pc = "write" /\ pc' = "refill" /\ wrote = Len(toWrite) /\ UNCHANGED <<current, buffers, lines, written, dropped>>
    BY <1>10 DEF Resize, front
  <2>2. Held' = <<>>
    BY <2>1 DEF Held
  <2>3. Held = <<>>
    <3> DEFINE n == Len(toWrite)
    <3>1. n \in Nat /\ Held = SubSeq(toWrite, n + 1, n)
      BY <1>1, <2>1, LenProperties DEF Held, Buffers
    <3> HIDE DEF n
    <3>2. n + 1 \in Int /\ n \in Int /\ n < n + 1
      BY <3>1
    <3> QED BY <3>1, <3>2, SubSeqEmpty
  <2> QED BY <1>4, <2>1, <2>2, <2>3
<1>11. CASE Refill \/ ThreadStart
  <2>1. /\ pc \in {"refill", "start"} /\ pc' = "while" /\ UNCHANGED <<current, buffers, lines, written, dropped>>
    BY <1>11 DEF Refill, ThreadStart, front
  <2>2. Held = <<>> /\ Held' = <<>>
    BY <2>1 DEF Held
  <2> QED BY <1>4, <2>1, <2>2
<1>12. CASE Start \/ While \/ Wait \/ Wake \/ Timeout
  <2>1. /\ pc \in {"none", "while", "lock", "wait"} /\ pc' \in {"start", "lock", "ended", "wait", "swap"}
        /\ UNCHANGED <<current, buffers, lines, written, dropped>>
    BY <1>12 DEF Start, While, Wait, Wake, Timeout, front, back, ExchangeInv
  <2>2. Held = <<>> /\ Held' = <<>>
    BY <2>1 DEF Held
  <2> QED BY <1>4, <2>1, <2>2
<1>13. CASE Started \/ StopRunning \/ StopNotify \/ Join \/ UNCHANGED vars
  <2>1. UNCHANGED <<pc, toWrite, wrote, current, buffers, lines, written, dropped>>
    BY <1>13 DEF Started, StopRunning, StopNotify, Join, vars, front, back
  <2>2. Held' = Held
    BY <2>1 DEF Held
  <2> QED BY <1>4, <2>1, <2>2
<1> QED BY <1>5, <1>6, <1>7, <1>8, <1>9, <1>10, <1>11, <1>12, <1>13 DEF Next

\* Whatever the sizes of the buffers and of the backlog that is dropped, and
\* wherever stop() comes, the lines of the output, those that threadFunc still
\* holds and those in buffers_ and currentBuffer_ are together the lines
\* appended, each once and in order, but for those dropped with a backlog.
THEOREM NoLineLost == Spec => []LinesConserved
<1>1. Init => ConservedInv
  <2>1. ASSUME Init PROVE LogInv(<<>>, <<>>, <<>>, <<>>, 0, {})
    <3>1. Parts({}, {}, {}, {}, 0, {})
      BY DEF Parts, Below
    <3> QED BY <3>1, EmptyBuffers, Zenon DEF LogInv
  <2>2. Init => Held = <<>>
    BY DEF Init, Held
  <2> QED BY <2>1, <2>2, Zenon DEF Init, ConservedInv
<1>2. (TypeInv /\ TypeInv' /\ ExchangeInv) /\ ConservedInv /\ [Next]_vars => ConservedInv'
  BY ConservedStep
<1>3. TypeInv /\ ConservedInv => LinesConserved
  <2> SUFFICES ASSUME TypeInv, ConservedInv PROVE LinesConserved
    OBVIOUS
  <2>1. written \in Seq(Nat) /\ Held \in Buffers /\ buffers \in Buffers /\ current \in Seq(Nat)
    BY HeldBuffers DEF TypeInv, Buffers
  <2>2. LogInv(written, Held, buffers, current, lines, dropped)
    BY DEF ConservedInv
  <2> QED BY <2>1, <2>2, LogWhole DEF LinesConserved
<1> QED BY <1>1, <1>2, <1>3, ExchangeInductive, PTL DEF Spec

-----------------------------------------------------------------------------
(* ThreadPool.  First one condition: n is what its sleepers wait for, the  *)
(* tasks in the queue for notEmpty_, the free places for notFull_.         *)

\* The pool counts threads as this module does.
LEMMA PoolSets ==
  \A S : (Pool!IsFiniteSet(S) <=> IsFiniteSet(S)) /\ Pool!Cardinality(S) = Cardinality(S)
BY DEF Pool!IsFiniteSet, IsFiniteSet, Pool!Cardinality, Cardinality

\* A sleeper implies a running pool, and n threads on their way at least.
Covered(f, r, n, wait, woken) == Pool!At(f, wait) # {} => r /\ n <= Cardinality(Pool!At(f, woken))

\* Thread t moves to state s.
Moves(f, g, t, s) == g = [f EXCEPT ![t] = s]

\* What moving thread t to state s does to the threads in state q.
LEMMA Moved ==
  ASSUME Pool!Constants, NEW f \in [Pool!Threads -> Pool!States], NEW t \in Pool!Threads, NEW s \in Pool!States, NEW q,
         NEW g, Moves(f, g, t, s)
  PROVE  /\ g \in [Pool!Threads -> Pool!States]
         /\ Cardinality(Pool!At(f, q)) \in Nat /\ Cardinality(Pool!At(g, q)) \in Nat
         /\ q = s => /\ Pool!At(g, q) = Pool!At(f, q) \cup {t}
                     /\ f[t] # q => Cardinality(Pool!At(g, q)) = Cardinality(Pool!At(f, q)) + 1
         /\ q # s => /\ Pool!At(g, q) = Pool!At(f, q) \ {t}
                     /\ Cardinality(Pool!At(g, q)) >= Cardinality(Pool!At(f, q)) - 1
                     /\ f[t] # q => Pool!At(g, q) = Pool!At(f, q)
<1>1. g \in [Pool!Threads -> Pool!States] /\ g[t] = s /\ \A u \in Pool!Threads : u # t => g[u] = f[u]
  BY DEF Moves
<1>2. IsFiniteSet(Pool!Threads)
  BY PoolSets, FS_Union, Zenon DEF Pool!Constants, Pool!Threads
<1>3. IsFiniteSet(Pool!At(f, q)) /\ IsFiniteSet(Pool!At(g, q))
  BY <1>2, FS_Subset DEF Pool!At
<1>4. Cardinality(Pool!At(f, q)) \in Nat /\ Cardinality(Pool!At(g, q)) \in Nat
  BY <1>3, FS_CardinalityType
<1>5. q = s => Pool!At(g, q) = Pool!At(f, q) \cup {t}
  BY <1>1 DEF Pool!At
<1>6. q # s => Pool!At(g, q) = Pool!At(f, q) \ {t}
  BY <1>1 DEF Pool!At
<1>7. t \in Pool!At(f, q) <=> f[t] = q
  BY DEF Pool!At
<1>8. q = s /\ f[t] # q => Cardinality(Pool!At(g, q)) = Cardinality(Pool!At(f, q)) + 1
  BY <1>3, <1>5, <1>7, FS_AddElement
<1>9. q # s => Cardinality(Pool!At(g, q)) >= Cardinality(Pool!At(f, q)) - 1
  <2>1. Cardinality(Pool!At(f, q) \ {t}) = IF t \in Pool!At(f, q) THEN Cardinality(Pool!At(f, q)) - 1
                                      ELSE Cardinality(Pool!At(f, q))
    BY ONLY <1>3, FS_RemoveElement, Zenon
  <2> DEFINE k == Cardinality(Pool!At(f, q))
             l == Cardinality(Pool!At(f, q) \ {t})
  <2>2. k \in Nat /\ l = IF t \in Pool!At(f, q) THEN k - 1 ELSE k
    BY ONLY <1>4, <2>1
  <2>3. q # s => Cardinality(Pool!At(g, q)) = l
    BY ONLY <1>6
  <2> HIDE DEF k, l
  <2>4. l >= k - 1
    BY ONLY <2>2
  <2> QED BY ONLY <2>3, <2>4 DEF k
<1>10. q # s /\ f[t] # q => Pool!At(g, q) = Pool!At(f, q)
  BY <1>6, <1>7
<1> QED BY <1>1, <1>4, <1>5, <1>6, <1>8, <1>9, <1>10

\* A thread that moves elsewhere does not matter.
LEMMA MovesElsewhere ==
  ASSUME Pool!Constants, NEW f \in [Pool!Threads -> Pool!States], NEW t \in Pool!Threads, NEW s \in Pool!States,
         NEW g, Moves(f, g, t, s),
         NEW wait, NEW woken, NEW r, NEW n, Covered(f, r, n, wait, woken),
         f[t] \notin {wait, woken}, s \notin {wait, woken}
  PROVE  Covered(g, r, n, wait, woken)
<1>1. Pool!At(g, wait) = Pool!At(f, wait)
  BY ONLY Moved, Pool!Constants, f \in [Pool!Threads -> Pool!States], t \in Pool!Threads, s \in Pool!States,
          Moves(f, g, t, s), f[t] # wait, s # wait
<1>2. Pool!At(g, woken) = Pool!At(f, woken)
  BY ONLY Moved, Pool!Constants, f \in [Pool!Threads -> Pool!States], t \in Pool!Threads, s \in Pool!States,
          Moves(f, g, t, s), f[t] # woken, s # woken
<1> QED BY ONLY <1>1, <1>2, Covered(f, r, n, wait, woken) DEF Covered

\* A thread that leaves the conditions may have been one of those on their way: it
\* takes one of the n things.
LEMMA TakesOne ==
  ASSUME Pool!Constants, NEW f \in [Pool!Threads -> Pool!States], NEW t \in Pool!Threads, NEW s \in Pool!States,
         NEW g, Moves(f, g, t, s),
         NEW wait, NEW woken, NEW r, NEW n \in Int, Covered(f, r, n, wait, woken),
         f[t] # wait, s \notin {wait, woken}
  PROVE  Covered(g, r, n - 1, wait, woken)
<1>1. Pool!At(g, wait) = Pool!At(f, wait)
  BY ONLY Moved, Pool!Constants, f \in [Pool!Threads -> Pool!States], t \in Pool!Threads, s \in Pool!States,
          Moves(f, g, t, s), f[t] # wait, s # wait
<1>2. /\ Cardinality(Pool!At(f, woken)) \in Nat /\ Cardinality(Pool!At(g, woken)) \in Nat
      /\ Cardinality(Pool!At(g, woken)) >= Cardinality(Pool!At(f, woken)) - 1
  BY ONLY Moved, Pool!Constants, f \in [Pool!Threads -> Pool!States], t \in Pool!Threads, s \in Pool!States,
          Moves(f, g, t, s), s # woken
<1> QED BY ONLY <1>1, <1>2, n \in Int, Covered(f, r, n, wait, woken) DEF Covered

\* A thread that finds nothing goes to sleep.
LEMMA FallsAsleep ==
  ASSUME Pool!Constants, NEW f \in [Pool!Threads -> Pool!States], NEW t \in Pool!Threads,
         NEW wait \in Pool!States, NEW g, Moves(f, g, t, wait),
         NEW woken, NEW r, NEW n \in Int, r, n <= 0
  PROVE  Covered(g, r, n, wait, woken)
<1>1. Cardinality(Pool!At(g, woken)) \in Nat
  BY Moved
<1> QED BY ONLY <1>1, n \in Int, r, n <= 0 DEF Covered

\* A woken thread is one more on its way.
LEMMA WakesUp ==
  ASSUME Pool!Constants, NEW f \in [Pool!Threads -> Pool!States], NEW t \in Pool!Threads,
         NEW wait, NEW woken \in Pool!States, wait # woken, NEW r, NEW n \in Int,
         Covered(f, r, n, wait, woken), f[t] = wait,
         NEW g, Moves(f, g, t, woken)
  PROVE  Covered(g, r, n + 1, wait, woken)
<1>1. t \in Pool!At(f, wait)
  BY DEF Pool!At
<1>2. /\ Cardinality(Pool!At(f, woken)) \in Nat
      /\ Cardinality(Pool!At(g, woken)) = Cardinality(Pool!At(f, woken)) + 1
  BY ONLY Moved, Pool!Constants, f \in [Pool!Threads -> Pool!States], t \in Pool!Threads, woken \in Pool!States,
          Moves(f, g, t, woken), f[t] # woken
<1> QED BY ONLY <1>1, <1>2, n \in Int, Covered(f, r, n, wait, woken) DEF Covered

\* notify makes up for one more thing to take.
LEMMA NotifyCovers ==
  ASSUME Pool!Constants, NEW f \in [Pool!Threads -> Pool!States],
         NEW wait, NEW woken \in Pool!States, wait # woken, NEW r, NEW n \in Int,
         Covered(f, r, n, wait, woken), NEW g \in Pool!Notified(f, wait, woken)
  PROVE  Covered(g, r, n + 1, wait, woken)
<1>1. CASE Pool!At(f, wait) = {}
  BY <1>1 DEF Pool!Notified, Covered
<1>2. CASE Pool!At(f, wait) # {}
  <2>1. PICK t \in Pool!Threads : f[t] = wait /\ Moves(f, g, t, woken)
    BY <1>2 DEF Pool!Notified, Pool!At, Moves
  <2> QED BY <2>1, WakesUp
<1> QED BY <1>1, <1>2

\* notify on one condition moves a thread that the other one does not count.
LEMMA NotifyElsewhere ==
  ASSUME Pool!Constants, NEW f \in [Pool!Threads -> Pool!States], NEW a \in Pool!States, NEW z \in Pool!States,
         NEW wait, NEW woken, NEW r, NEW n, Covered(f, r, n, wait, woken),
         NEW g \in Pool!Notified(f, a, z), {a, z} \cap {wait, woken} = {}
  PROVE  Covered(g, r, n, wait, woken)
<1>1. CASE Pool!At(f, a) = {}
  BY <1>1 DEF Pool!Notified
<1>2. CASE Pool!At(f, a) # {}
  <2>1. PICK t \in Pool!Threads : f[t] = a /\ Moves(f, g, t, z)
    BY <1>2 DEF Pool!Notified, Pool!At, Moves
  <2>2. f[t] \notin {wait, woken} /\ z \notin {wait, woken}
    BY <2>1, Zenon
  <2> QED BY <2>1, <2>2, MovesElsewhere
<1> QED BY <1>1, <1>2

\* With fewer things to take, fewer threads on their way are enough.
LEMMA FewerCovered ==
  ASSUME Pool!Constants, NEW f \in [Pool!Threads -> Pool!States], NEW wait, NEW woken, NEW r,
         NEW n \in Int, NEW m \in Int, m <= n, Covered(f, r, n, wait, woken)
  PROVE  Covered(f, r, m, wait, woken)
<1>1. Cardinality(Pool!At(f, woken)) \in Nat
  <2>1. IsFiniteSet(Pool!Threads)
    BY PoolSets, FS_Union, Zenon DEF Pool!Constants, Pool!Threads
  <2>2. IsFiniteSet(Pool!At(f, woken))
    BY <2>1, FS_Subset DEF Pool!At
  <2> QED BY <2>2, FS_CardinalityType
<1> QED BY <1>1 DEF Covered

-----------------------------------------------------------------------------
(* The inductive invariant: types, a worker that start() has not reached is *)
(* nowhere, the order of the tasks, and both conditions.                   *)

PoolTypeOK ==
    /\ poolRunning \in BOOLEAN
    /\ queue \in Seq(Nat) /\ taken \in Seq(Nat) /\ pushed \in Nat
    /\ threads \subseteq Workers
    /\ threadPc \in [Pool!Threads -> Pool!States]

NotStarted == \A w \in Workers \ threads : threadPc[w] = "none"

EmptyCovered(f, r, len) == Covered(f, r, len, "waitEmpty", "wokenEmpty")
FullCovered(f, r, len) == Covered(f, r, maxQueueSize - len, "waitFull", "wokenFull")

PoolInv ==
    /\ PoolTypeOK /\ NotStarted /\ Pool!InOrder
    /\ EmptyCovered(threadPc, poolRunning, Len(queue)) /\ FullCovered(threadPc, poolRunning, Len(queue))

Conditions == {"waitEmpty", "wokenEmpty", "waitFull", "wokenFull"}

\* Every state is a string of its own.
LEMMA StatesDiffer ==
  /\ "waitEmpty" # "wokenEmpty" /\ "waitFull" # "wokenFull"
  /\ {"waitEmpty", "wokenEmpty"} \cap {"waitFull", "wokenFull"} = {}
  /\ Conditions \subseteq Pool!States
  BY DEF Conditions, Pool!States

\* A thread that is at neither condition, and goes to neither.
LEMMA OutsideMove ==
  ASSUME Pool!Constants, NEW f \in [Pool!Threads -> Pool!States], NEW t \in Pool!Threads, NEW s \in Pool!States,
         NEW g, Moves(f, g, t, s), NEW r, NEW len,
         EmptyCovered(f, r, len), FullCovered(f, r, len),
         f[t] \notin Conditions, s \notin Conditions
  PROVE  EmptyCovered(g, r, len) /\ FullCovered(g, r, len)
<1>1. f[t] \notin {"waitEmpty", "wokenEmpty"} /\ s \notin {"waitEmpty", "wokenEmpty"}
      /\ f[t] \notin {"waitFull", "wokenFull"} /\ s \notin {"waitFull", "wokenFull"}
  BY DEF Conditions
<1> QED BY <1>1, MovesElsewhere DEF EmptyCovered, FullCovered

\* In a stopped pool nobody sleeps.
LEMMA StoppedCovered ==
  ASSUME NEW f, NEW len, EmptyCovered(f, FALSE, len), FullCovered(f, FALSE, len)
  PROVE  Pool!At(f, "waitEmpty") = {} /\ Pool!At(f, "waitFull") = {}
  BY DEF EmptyCovered, FullCovered, Covered

\* With nobody asleep there is nothing to cover.
LEMMA NobodyCovered ==
  ASSUME NEW f, Pool!At(f, "waitEmpty") = {}, Pool!At(f, "waitFull") = {}, NEW r, NEW len
  PROVE  EmptyCovered(f, r, len) /\ FullCovered(f, r, len)
  BY DEF EmptyCovered, FullCovered, Covered

\* What every step of a thread that moves keeps of the types.
LEMMA MoveKeepsTypes ==
  ASSUME Pool!Constants, PoolTypeOK, NotStarted, NEW t \in Pool!Threads, NEW s \in Pool!States,
         Moves(threadPc, threadPc', t, s), threads' = threads, threadPc[t] # "none"
  PROVE  threadPc' \in [Pool!Threads -> Pool!States] /\ NotStarted'
<1>1. threadPc \in [Pool!Threads -> Pool!States]
  BY DEF PoolTypeOK
<1>2. /\ threadPc' \in [Pool!Threads -> Pool!States]
      /\ \A u \in Pool!Threads : u # t => threadPc'[u] = threadPc[u]
  BY <1>1 DEF Moves
<1> QED BY <1>2 DEF NotStarted, Pool!Threads

\* A step that only moves a thread, outside the conditions.
LEMMA OutsideStep ==
  ASSUME Pool!Constants, PoolInv, NEW t \in Pool!Threads, NEW s \in Pool!States, Moves(threadPc, threadPc', t, s),
         threadPc[t] \notin Conditions \cup {"none"}, s \notin Conditions,
         UNCHANGED <<poolRunning, queue, threads, pushed, taken>>
  PROVE  PoolInv'
<1>1. PoolTypeOK' /\ NotStarted'
  BY MoveKeepsTypes DEF PoolInv, PoolTypeOK
<1>2. Pool!InOrder'
  BY DEF PoolInv, Pool!InOrder
<1>3. EmptyCovered(threadPc', poolRunning, Len(queue)) /\ FullCovered(threadPc', poolRunning, Len(queue))
  <2>1. threadPc \in [Pool!Threads -> Pool!States] /\ EmptyCovered(threadPc, poolRunning, Len(queue))
        /\ FullCovered(threadPc, poolRunning, Len(queue))
    BY DEF PoolInv, PoolTypeOK
  <2>2. threadPc[t] \notin Conditions
    OBVIOUS
  <2> QED BY <2>1, <2>2, OutsideMove
<1> QED BY <1>1, <1>2, <1>3 DEF PoolInv, EmptyCovered, FullCovered, Covered

-----------------------------------------------------------------------------
(* One lemma per action that does more than move a thread.                 *)

\* The steps that only move a thread.
LEMMA SimpleSteps ==
  ASSUME Pool!Constants, PoolInv,
         \/ Pool!StartReturns \/ Pool!Joined
         \/ \E t \in Pool!Threads : Pool!CallRun(t)
         \/ \E w \in Workers : Pool!RunInThread(w) \/ Pool!TaskReturns(w)
  PROVE  PoolInv'
<1>1. PICK t \in Pool!Threads, s \in Pool!States :
         /\ Moves(threadPc, threadPc', t, s) /\ s \notin Conditions
         /\ threadPc[t] \notin Conditions \cup {"none"}
         /\ UNCHANGED <<poolRunning, queue, threads, pushed, taken>>
  <2>0. starter \in Pool!Threads /\ \A w \in Workers : w \in Pool!Threads
    BY DEF Pool!Threads, Pool!Constants
  <2> USE DEF Pool!States, Conditions, Moves
  <2>1. CASE Pool!StartReturns
    BY <2>0, <2>1, Zenon DEF Pool!StartReturns
  <2>2. CASE Pool!Joined
    BY <2>0, <2>2, Zenon DEF Pool!Joined
  <2>3. ASSUME NEW t \in Pool!Threads, Pool!CallRun(t)
        PROVE  /\ Moves(threadPc, threadPc', t, "run")
               /\ threadPc[t] \notin Conditions \cup {"none"}
               /\ UNCHANGED <<poolRunning, queue, threads, pushed, taken>>
    BY <2>3 DEF Pool!CallRun, Pool!Caller
  <2>4. ASSUME NEW w \in Workers, Pool!RunInThread(w) \/ Pool!TaskReturns(w)
        PROVE  \E s \in Pool!States :
                 /\ Moves(threadPc, threadPc', w, s) /\ s \notin Conditions
                 /\ threadPc[w] \notin Conditions \cup {"none"}
                 /\ UNCHANGED <<poolRunning, queue, threads, pushed, taken>>
    <3>1. CASE Pool!RunInThread(w) /\ poolRunning
      BY <3>1 DEF Pool!RunInThread
    <3>2. CASE Pool!RunInThread(w) /\ ~poolRunning
      BY <3>2 DEF Pool!RunInThread
    <3>3. CASE Pool!TaskReturns(w)
      BY <3>3 DEF Pool!TaskReturns
    <3> QED BY <2>4, <3>1, <3>2, <3>3
  <2>5. "run" \in Pool!States /\ "run" \notin Conditions
    OBVIOUS
  <2> QED BY <2>0, <2>1, <2>2, <2>3, <2>4, <2>5
<1> QED BY <1>1, OutsideStep

\* start() sets running_ before it creates a thread.
LEMMA StartStep ==
  ASSUME Pool!Constants, PoolInv, Pool!Start
  PROVE  PoolInv'
<1>1. /\ starter \in Pool!Threads /\ "start" \in Pool!States \ Conditions
      /\ Moves(threadPc, threadPc', starter, "start")
      /\ poolRunning' = TRUE /\ UNCHANGED <<queue, threads, pushed, taken>>
      /\ threadPc[starter] \notin Conditions \cup {"none"}
  BY DEF Pool!Start, Pool!Threads, Pool!Constants, Moves, Pool!States, Conditions
<1>2. PoolTypeOK' /\ NotStarted'
  BY <1>1, MoveKeepsTypes DEF PoolInv, PoolTypeOK
<1>3. Pool!InOrder'
  BY <1>1 DEF PoolInv, Pool!InOrder
<1>4. threadPc \in [Pool!Threads -> Pool!States] /\ EmptyCovered(threadPc, poolRunning, Len(queue))
      /\ FullCovered(threadPc, poolRunning, Len(queue)) /\ threadPc[starter] \notin Conditions
  BY <1>1 DEF PoolInv, PoolTypeOK
<1>5. EmptyCovered(threadPc', poolRunning, Len(queue)) /\ FullCovered(threadPc', poolRunning, Len(queue))
  BY <1>1, <1>4, OutsideMove
<1> QED BY <1>1, <1>2, <1>3, <1>5 DEF PoolInv, EmptyCovered, FullCovered, Covered

\* A new thread begins outside the conditions.
LEMMA StartThreadStep ==
  ASSUME Pool!Constants, PoolInv, NEW w \in Workers, Pool!StartThread(w)
  PROVE  PoolInv'
<1>1. /\ w \in Pool!Threads /\ "loop" \in Pool!States \ Conditions
      /\ Moves(threadPc, threadPc', w, "loop") /\ threads' = threads \cup {w}
      /\ UNCHANGED <<poolRunning, queue, pushed, taken>>
      /\ threadPc[w] \notin Conditions
  BY DEF Pool!StartThread, Pool!Threads, Moves, Pool!States, Conditions, PoolInv, NotStarted
<1>2. PoolTypeOK' /\ NotStarted'
  BY <1>1 DEF PoolInv, PoolTypeOK, NotStarted, Moves, Pool!Threads
<1>3. Pool!InOrder'
  BY <1>1 DEF PoolInv, Pool!InOrder
<1>4. threadPc \in [Pool!Threads -> Pool!States] /\ EmptyCovered(threadPc, poolRunning, Len(queue))
      /\ FullCovered(threadPc, poolRunning, Len(queue))
  BY DEF PoolInv, PoolTypeOK
<1>5. EmptyCovered(threadPc', poolRunning, Len(queue)) /\ FullCovered(threadPc', poolRunning, Len(queue))
  BY <1>1, <1>4, OutsideMove
<1> QED BY <1>1, <1>2, <1>3, <1>5 DEF PoolInv, EmptyCovered, FullCovered, Covered

\* stop() leaves nobody asleep.
LEMMA StopStep ==
  ASSUME Pool!Constants, PoolInv, Pool!Stop
  PROVE  PoolInv'
<1>1. threadPc \in [Pool!Threads -> Pool!States] /\ starter \in Pool!Threads /\ starter \notin Workers
  BY DEF PoolInv, PoolTypeOK, Pool!Threads, Pool!Constants
<1>2. threadPc' = Pool!AllNotified([threadPc EXCEPT ![starter] = "join"])
      /\ poolRunning' = FALSE /\ UNCHANGED <<queue, threads, pushed, taken>>
  BY DEF Pool!Stop
<1>3. threadPc' \in [Pool!Threads -> Pool!States]
  BY <1>1, <1>2 DEF Pool!AllNotified, Pool!States
<1>4. Pool!At(threadPc', "waitEmpty") = {} /\ Pool!At(threadPc', "waitFull") = {}
  BY <1>1, <1>2 DEF Pool!AllNotified, Pool!At
<1>5. \A w \in Workers : threadPc[w] = "none" => threadPc'[w] = "none"
  BY <1>1, <1>2 DEF Pool!AllNotified, Pool!Threads
<1>6. PoolTypeOK' /\ NotStarted' /\ Pool!InOrder'
  BY <1>2, <1>3, <1>5, Zenon DEF PoolInv, PoolTypeOK, NotStarted, Pool!InOrder
<1> QED BY <1>4, <1>6 DEF PoolInv, EmptyCovered, FullCovered, Covered, Pool!At

\* A spurious wakeup puts one more thread on its way.
LEMMA SpuriousWakeupStep ==
  ASSUME Pool!Constants, PoolInv, NEW t \in Pool!Threads, Pool!SpuriousWakeup(t)
  PROVE  PoolInv'
<1> DEFINE s == IF threadPc[t] = "waitEmpty" THEN "wokenEmpty" ELSE "wokenFull"
<1>1. /\ Moves(threadPc, threadPc', t, s) /\ s \in Pool!States /\ threadPc[t] # "none"
      /\ UNCHANGED <<poolRunning, queue, threads, pushed, taken>>
  BY DEF Pool!SpuriousWakeup, Moves, Pool!States
<1>2. PoolTypeOK' /\ NotStarted'
  BY <1>1, MoveKeepsTypes DEF PoolInv, PoolTypeOK
<1>3. Pool!InOrder'
  BY <1>1 DEF PoolInv, Pool!InOrder
<1>4. /\ threadPc \in [Pool!Threads -> Pool!States] /\ threadPc' \in [Pool!Threads -> Pool!States]
      /\ EmptyCovered(threadPc, poolRunning, Len(queue)) /\ FullCovered(threadPc, poolRunning, Len(queue))
      /\ Len(queue) \in Int /\ maxQueueSize - Len(queue) \in Int
      /\ Len(queue) <= Len(queue) + 1
      /\ maxQueueSize - Len(queue) <= maxQueueSize - Len(queue) + 1
      /\ Len(queue) + 1 \in Int /\ maxQueueSize - Len(queue) + 1 \in Int
  BY <1>2 DEF PoolInv, PoolTypeOK, Pool!Constants
<1>5. EmptyCovered(threadPc', poolRunning, Len(queue)) /\ FullCovered(threadPc', poolRunning, Len(queue))
  <2>1. CASE threadPc[t] = "waitEmpty"
    <3>0. /\ "wokenEmpty" \in Pool!States /\ "waitEmpty" # "wokenEmpty"
          /\ threadPc[t] \notin {"waitFull", "wokenFull"}
          /\ "wokenEmpty" \notin {"waitFull", "wokenFull"}
          /\ Moves(threadPc, threadPc', t, "wokenEmpty")
      BY <1>1, <2>1 DEF Pool!States
    <3>1. Covered(threadPc', poolRunning, Len(queue) + 1, "waitEmpty", "wokenEmpty")
      BY <1>4, <2>1, <3>0, WakesUp DEF EmptyCovered
    <3>2. EmptyCovered(threadPc', poolRunning, Len(queue))
      BY <1>4, <3>1, FewerCovered DEF EmptyCovered
    <3>3. FullCovered(threadPc', poolRunning, Len(queue))
      BY <1>4, <3>0, MovesElsewhere DEF FullCovered
    <3> QED BY <3>2, <3>3
  <2>2. CASE threadPc[t] = "waitFull"
    <3>0. /\ "wokenFull" \in Pool!States /\ "waitFull" # "wokenFull"
          /\ threadPc[t] \notin {"waitEmpty", "wokenEmpty"}
          /\ "wokenFull" \notin {"waitEmpty", "wokenEmpty"}
          /\ Moves(threadPc, threadPc', t, "wokenFull")
      BY <1>1, <2>2 DEF Pool!States
    <3>1. Covered(threadPc', poolRunning, maxQueueSize - Len(queue) + 1, "waitFull", "wokenFull")
      BY <1>4, <2>2, <3>0, WakesUp DEF FullCovered
    <3>2. FullCovered(threadPc', poolRunning, Len(queue))
      BY <1>4, <3>1, FewerCovered DEF FullCovered
    <3>3. EmptyCovered(threadPc', poolRunning, Len(queue))
      BY <1>4, <3>0, MovesElsewhere DEF EmptyCovered
    <3> QED BY <3>2, <3>3
  <2> QED BY <2>1, <2>2 DEF Pool!SpuriousWakeup
<1> QED BY <1>1, <1>2, <1>3, <1>5 DEF PoolInv, EmptyCovered, FullCovered, Covered

\* notify keeps the types, and moves no thread that start() has not reached.
LEMMA NotifiedKeepsTypes ==
  ASSUME NEW f \in [Pool!Threads -> Pool!States], NEW a, NEW z \in Pool!States, NEW g \in Pool!Notified(f, a, z),
         a # "none"
  PROVE  /\ g \in [Pool!Threads -> Pool!States]
         /\ \A w \in Pool!Threads : f[w] = "none" => g[w] = "none"
<1>1. CASE Pool!At(f, a) = {}
  BY <1>1 DEF Pool!Notified
<1>2. CASE Pool!At(f, a) # {}
  <2>1. PICK t \in Pool!Threads : f[t] = a /\ g = [f EXCEPT ![t] = z]
    BY <1>2 DEF Pool!Notified, Pool!At
  <2> QED BY <2>1
<1> QED BY <1>1, <1>2

\* run(): a queued task takes the free place the caller may have been woken for, and
\* wakes a worker for itself.
LEMMA RunStep ==
  ASSUME Pool!Constants, PoolInv, NEW t \in Pool!Threads, Pool!Run(t)
  PROVE  PoolInv'
<1>1. /\ threadPc \in [Pool!Threads -> Pool!States] /\ queue \in Seq(Nat) /\ taken \in Seq(Nat) /\ pushed \in Nat
      /\ threads \subseteq Workers /\ poolRunning \in BOOLEAN
      /\ EmptyCovered(threadPc, poolRunning, Len(queue)) /\ FullCovered(threadPc, poolRunning, Len(queue))
      /\ Len(queue) \in Nat /\ Len(taken) \in Nat /\ maxQueueSize \in Nat /\ NotStarted /\ Pool!InOrder
  BY DEF PoolInv, PoolTypeOK, Pool!Constants
<1>2. /\ threadPc[t] \in {"run", "wokenFull"} /\ UNCHANGED <<poolRunning, threads, taken>>
      /\ Pool!Caller(t) \in Pool!States /\ Pool!Caller(t) \notin Conditions
      /\ "waitFull" \in Pool!States /\ "waitEmpty" \in Pool!States /\ "wokenEmpty" \in Pool!States
  BY DEF Pool!Run, Pool!Caller, Pool!States, Conditions
<1>3. CASE Pool!isFull /\ poolRunning /\ threadPc' = [threadPc EXCEPT ![t] = "waitFull"] /\ UNCHANGED <<queue, pushed>>
  <2>1. Moves(threadPc, threadPc', t, "waitFull")
    BY <1>3 DEF Moves
  <2>2. PoolTypeOK' /\ NotStarted'
    <3>1. threadPc' \in [Pool!Threads -> Pool!States] /\ NotStarted'
      <4>1. PoolTypeOK /\ threadPc[t] # "none"
        BY <1>2 DEF PoolInv
      <4> QED BY <1>1, <1>2, <2>1, <4>1, MoveKeepsTypes
    <3> QED BY <1>1, <1>2, <1>3, <3>1 DEF PoolTypeOK
  <2>3. Pool!InOrder'
    BY <1>1, <1>2, <1>3 DEF Pool!InOrder
  <2>4. EmptyCovered(threadPc', poolRunning, Len(queue))
    <3>1. threadPc[t] \notin {"waitEmpty", "wokenEmpty"} /\ "waitFull" \notin {"waitEmpty", "wokenEmpty"}
      BY <1>2
    <3> QED BY <1>1, <1>2, <2>1, <3>1, MovesElsewhere DEF EmptyCovered
  <2>5. FullCovered(threadPc', poolRunning, Len(queue))
    <3>1. maxQueueSize - Len(queue) \in Int /\ maxQueueSize - Len(queue) <= 0 /\ poolRunning
      BY <1>1, <1>3 DEF Pool!isFull
    <3> QED BY <1>1, <1>2, <2>1, <3>1, FallsAsleep, Zenon DEF FullCovered
  <2> QED BY <1>2, <1>3, <2>2, <2>3, <2>4, <2>5, Zenon DEF PoolInv, EmptyCovered, FullCovered, Covered
<1>4. CASE ~poolRunning /\ threadPc' = [threadPc EXCEPT ![t] = Pool!Caller(t)] /\ UNCHANGED <<queue, pushed>>
  <2>1. Moves(threadPc, threadPc', t, Pool!Caller(t))
    BY <1>4 DEF Moves
  <2>2. PoolTypeOK' /\ NotStarted'
    <3>1. threadPc' \in [Pool!Threads -> Pool!States] /\ NotStarted'
      <4>1. PoolTypeOK /\ threadPc[t] # "none"
        BY <1>2 DEF PoolInv
      <4> QED BY <1>1, <1>2, <2>1, <4>1, MoveKeepsTypes
    <3> QED BY <1>1, <1>2, <1>4, <3>1 DEF PoolTypeOK
  <2>3. Pool!InOrder'
    BY <1>1, <1>2, <1>4 DEF Pool!InOrder
  <2>4. Pool!At(threadPc, "waitEmpty") = {} /\ Pool!At(threadPc, "waitFull") = {}
    BY <1>1, <1>4 DEF EmptyCovered, FullCovered, Covered
  <2>5. Pool!At(threadPc', "waitEmpty") = {} /\ Pool!At(threadPc', "waitFull") = {}
    <3>1. Pool!Caller(t) # "waitEmpty" /\ Pool!Caller(t) # "waitFull"
      BY DEF Pool!Caller
    <3>2. Pool!At(threadPc', "waitEmpty") = Pool!At(threadPc, "waitEmpty") \ {t}
      BY <1>1, <1>2, <2>1, <3>1, Moved
    <3>3. Pool!At(threadPc', "waitFull") = Pool!At(threadPc, "waitFull") \ {t}
      BY <1>1, <1>2, <2>1, <3>1, Moved
    <3> QED BY <2>4, <3>2, <3>3
  <2> QED BY <2>2, <2>3, <2>5 DEF PoolInv, EmptyCovered, FullCovered, Covered, Pool!At
<1>5. CASE /\ ~Pool!isFull /\ poolRunning /\ pushed' = pushed + 1 /\ queue' = Append(queue, pushed + 1)
           /\ threadPc' \in Pool!Notified([threadPc EXCEPT ![t] = Pool!Caller(t)], "waitEmpty", "wokenEmpty")
  <2>1. PICK f : Moves(threadPc, f, t, Pool!Caller(t)) /\ threadPc' \in Pool!Notified(f, "waitEmpty", "wokenEmpty")
    BY <1>5 DEF Moves
  <2>2. f \in [Pool!Threads -> Pool!States] /\ \A w \in Pool!Threads : w # t => f[w] = threadPc[w]
    BY <1>1, <1>2, <2>1 DEF Moves
  <2>3. threadPc' \in [Pool!Threads -> Pool!States] /\ \A w \in Pool!Threads : f[w] = "none" => threadPc'[w] = "none"
    BY <1>2, <2>1, <2>2, NotifiedKeepsTypes
  <2>4. Len(queue') = Len(queue) + 1 /\ queue' \in Seq(Nat)
    BY <1>1, <1>5
  <2>5. PoolTypeOK'
    BY <1>1, <1>2, <1>5, <2>3, <2>4 DEF PoolTypeOK
  <2>6. NotStarted'
    BY <1>1, <1>2, <2>2, <2>3 DEF NotStarted, Pool!Threads
  <2>7. Pool!InOrder'
    <3>1. \A i \in 1 .. Len(queue') : queue'[i] = Len(taken) + i
      <4> TAKE i \in 1 .. Len(queue')
      <4>1. CASE i \in 1 .. Len(queue)
        <5>1. queue'[i] = queue[i]
          BY <1>1, <1>5, <4>1
        <5> QED BY <1>1, <4>1, <5>1 DEF Pool!InOrder
      <4>2. CASE i = Len(queue) + 1
        <5>1. queue'[i] = pushed + 1
          BY <1>1, <1>5, <4>2
        <5>2. Len(taken) + Len(queue) = pushed
          BY <1>1 DEF Pool!InOrder
        <5>3. Len(taken) \in Nat /\ Len(queue) \in Nat /\ pushed \in Nat
          BY <1>1
        <5> QED BY ONLY <4>2, <5>1, <5>2, <5>3
      <4> QED BY <1>1, <2>4, <4>1, <4>2
    <3>2. maxQueueSize > 0 => Len(queue') <= maxQueueSize
      BY <1>1, <1>5, <2>4 DEF Pool!isFull
    <3>3. Len(taken) + Len(queue') = pushed'
      BY <1>1, <1>5, <2>4 DEF Pool!InOrder
    <3> QED BY <1>1, <1>2, <3>1, <3>2, <3>3 DEF Pool!InOrder
  <2>8. EmptyCovered(f, poolRunning, Len(queue))
    <3>1. threadPc[t] \notin {"waitEmpty", "wokenEmpty"} /\ Pool!Caller(t) \notin {"waitEmpty", "wokenEmpty"}
      BY <1>2 DEF Pool!Caller
    <3> QED BY <1>1, <1>2, <2>1, <3>1, MovesElsewhere DEF EmptyCovered
  <2>9. Covered(threadPc', poolRunning, Len(queue) + 1, "waitEmpty", "wokenEmpty")
    <3>1. "waitEmpty" # "wokenEmpty" /\ Len(queue) \in Int
      BY <1>1
    <3> QED BY <1>2, <2>1, <2>2, <2>8, <3>1, NotifyCovers DEF EmptyCovered
  <2>10. Covered(f, poolRunning, maxQueueSize - Len(queue) - 1, "waitFull", "wokenFull")
    <3>1. /\ threadPc[t] # "waitFull" /\ Pool!Caller(t) \notin {"waitFull", "wokenFull"}
          /\ maxQueueSize - Len(queue) \in Int
      BY <1>1, <1>2 DEF Pool!Caller
    <3> QED BY <1>1, <1>2, <2>1, <3>1, TakesOne, Zenon DEF FullCovered
  <2>11. Covered(threadPc', poolRunning, maxQueueSize - Len(queue) - 1, "waitFull", "wokenFull")
    BY <1>2, <2>1, <2>2, <2>10, StatesDiffer, NotifyElsewhere
  <2>12. maxQueueSize - Len(queue) - 1 = maxQueueSize - Len(queue')
    BY <1>1, <2>4
  <2> QED BY <1>2, <2>4, <2>5, <2>6, <2>7, <2>9, <2>11, <2>12
          DEF PoolInv, EmptyCovered, FullCovered, Covered
<1> QED BY <1>3, <1>4, <1>5 DEF Pool!Run

\* take(): the worker takes the task it may have been woken for, and wakes a caller of
\* run() for the place.
LEMMA TakeStep ==
  ASSUME Pool!Constants, PoolInv, NEW w \in Workers, Pool!Take(w)
  PROVE  PoolInv'
<1>1. /\ threadPc \in [Pool!Threads -> Pool!States] /\ queue \in Seq(Nat) /\ taken \in Seq(Nat) /\ pushed \in Nat
      /\ threads \subseteq Workers /\ poolRunning \in BOOLEAN
      /\ EmptyCovered(threadPc, poolRunning, Len(queue)) /\ FullCovered(threadPc, poolRunning, Len(queue))
      /\ Len(queue) \in Nat /\ Len(taken) \in Nat /\ maxQueueSize \in Nat /\ NotStarted /\ Pool!InOrder
      /\ w \in Pool!Threads
  BY DEF PoolInv, PoolTypeOK, Pool!Constants, Pool!Threads
<1>2. /\ threadPc[w] \in {"take", "wokenEmpty"} /\ UNCHANGED <<poolRunning, threads, pushed>>
      /\ "waitEmpty" \in Pool!States /\ "loop" \in Pool!States /\ "task" \in Pool!States
      /\ "waitFull" \in Pool!States /\ "wokenFull" \in Pool!States
  BY DEF Pool!Take, Pool!States
<1>3. CASE /\ queue = <<>> /\ UNCHANGED <<queue, taken>>
           /\ threadPc' = [threadPc EXCEPT ![w] = IF poolRunning THEN "waitEmpty" ELSE "loop"]
  <2> DEFINE s == IF poolRunning THEN "waitEmpty" ELSE "loop"
  <2>1. Moves(threadPc, threadPc', w, s) /\ s \in Pool!States
    BY <1>2, <1>3 DEF Moves
  <2>2. PoolTypeOK' /\ NotStarted'
    <3>1. threadPc' \in [Pool!Threads -> Pool!States] /\ NotStarted'
      <4>1. PoolTypeOK /\ threadPc[w] # "none"
        BY <1>2 DEF PoolInv
      <4> HIDE DEF s
      <4> QED BY <1>1, <1>2, <2>1, <4>1, MoveKeepsTypes
    <3> QED BY <1>1, <1>2, <1>3, <3>1 DEF PoolTypeOK
  <2>3. Pool!InOrder'
    BY <1>1, <1>2, <1>3 DEF Pool!InOrder
  <2>4. FullCovered(threadPc', poolRunning, Len(queue))
    <3>1. threadPc[w] \notin {"waitFull", "wokenFull"} /\ s \notin {"waitFull", "wokenFull"}
      BY <1>2
    <3> HIDE DEF s
    <3> QED BY <1>1, <1>2, <2>1, <3>1, MovesElsewhere DEF FullCovered
  <2>5. EmptyCovered(threadPc', poolRunning, Len(queue))
    <3>1. CASE poolRunning
      <4>1. Len(queue) \in Int /\ Len(queue) <= 0 /\ Moves(threadPc, threadPc', w, "waitEmpty")
        BY <1>1, <1>3, <2>1, <3>1
      <4> QED BY <1>1, <1>2, <3>1, <4>1, FallsAsleep, Zenon DEF EmptyCovered
    <3>2. CASE ~poolRunning
      <4>1. Pool!At(threadPc, "waitEmpty") = {} /\ Moves(threadPc, threadPc', w, "loop") /\ "loop" # "waitEmpty"
        BY <1>1, <2>1, <3>2 DEF EmptyCovered, Covered
      <4>2. Pool!At(threadPc', "waitEmpty") = Pool!At(threadPc, "waitEmpty") \ {w}
        BY <1>1, <1>2, <4>1, Moved
      <4> QED BY <4>1, <4>2 DEF EmptyCovered, Covered
    <3> QED BY <3>1, <3>2
  <2> QED BY <1>2, <1>3, <2>2, <2>3, <2>4, <2>5, Zenon DEF PoolInv, EmptyCovered, FullCovered, Covered
<1>4. CASE /\ queue # <<>> /\ taken' = Append(taken, Head(queue)) /\ queue' = Tail(queue)
           /\ threadPc' \in IF maxQueueSize > 0
                      THEN Pool!Notified([threadPc EXCEPT ![w] = "task"], "waitFull", "wokenFull")
                      ELSE {[threadPc EXCEPT ![w] = "task"]}
  <2>1. PICK f : /\ Moves(threadPc, f, w, "task")
                 /\ threadPc' \in IF maxQueueSize > 0 THEN Pool!Notified(f, "waitFull", "wokenFull") ELSE {f}
    BY <1>4 DEF Moves
  <2>2. f \in [Pool!Threads -> Pool!States] /\ \A u \in Pool!Threads : u # w => f[u] = threadPc[u]
    BY <1>1, <1>2, <2>1 DEF Moves
  <2>3. threadPc' \in [Pool!Threads -> Pool!States] /\ \A u \in Pool!Threads : f[u] = "none" => threadPc'[u] = "none"
    <3>1. CASE maxQueueSize > 0
      BY <1>2, <2>1, <2>2, <3>1, NotifiedKeepsTypes
    <3>2. CASE ~(maxQueueSize > 0)
      BY <2>1, <2>2, <3>2
    <3> QED BY <3>1, <3>2
  <2>4. /\ Len(queue) >= 1 /\ Len(queue') = Len(queue) - 1 /\ queue' \in Seq(Nat)
        /\ Head(queue) = queue[1] /\ Head(queue) \in Nat
        /\ \A i \in 1 .. Len(queue') : queue'[i] = queue[i + 1]
    BY <1>1, <1>4
  <2>5. Len(taken') = Len(taken) + 1 /\ taken' \in Seq(Nat)
    BY <1>1, <1>4, <2>4
  <2>6. PoolTypeOK'
    BY <1>1, <1>2, <1>4, <2>3, <2>4, <2>5 DEF PoolTypeOK
  <2>7. NotStarted'
    BY <1>1, <1>2, <2>2, <2>3 DEF NotStarted, Pool!Threads
  <2>8. Pool!InOrder'
    <3>1. \A i \in 1 .. Len(queue') : queue'[i] = Len(taken') + i
      <4> TAKE i \in 1 .. Len(queue')
      <4>1. i + 1 \in 1 .. Len(queue) /\ i \in Nat
        BY <1>1, <2>4
      <4>2. queue[i + 1] = Len(taken) + (i + 1)
        BY <1>1, <4>1 DEF Pool!InOrder
      <4> QED BY <1>1, <2>4, <2>5, <4>1, <4>2
    <3>2. \A i \in 1 .. Len(taken') : taken'[i] = i
      <4> TAKE i \in 1 .. Len(taken')
      <4>1. CASE i \in 1 .. Len(taken)
        <5>1. taken'[i] = taken[i]
          BY <1>1, <1>4, <2>4, <4>1, SMTT(20)
        <5> QED BY <1>1, <4>1, <5>1 DEF Pool!InOrder
      <4>2. CASE i = Len(taken) + 1
        <5>1. taken'[i] = queue[1]
          BY <1>1, <1>4, <2>4, <4>2
        <5>2. queue[1] = Len(taken) + 1
          BY <1>1, <2>4 DEF Pool!InOrder
        <5> QED BY <4>2, <5>1, <5>2
      <4> QED BY <1>1, <2>5, <4>1, <4>2
    <3>3. Len(taken') + Len(queue') = pushed
      <4>1. Len(taken) + Len(queue) = pushed
        BY <1>1 DEF Pool!InOrder
      <4>2. Len(taken) \in Nat /\ Len(queue) \in Nat /\ pushed \in Nat
        BY <1>1
      <4>3. Len(queue') = Len(queue) - 1 /\ Len(taken') = Len(taken) + 1
        BY <2>4, <2>5
      <4> QED BY ONLY <4>1, <4>2, <4>3
    <3>4. maxQueueSize > 0 => Len(queue') <= maxQueueSize
      BY <1>1, <2>4 DEF Pool!InOrder
    <3> QED BY <1>2, <3>1, <3>2, <3>3, <3>4 DEF Pool!InOrder
  <2>9. Covered(f, poolRunning, Len(queue) - 1, "waitEmpty", "wokenEmpty")
    <3>1. threadPc[w] # "waitEmpty" /\ "task" \notin {"waitEmpty", "wokenEmpty"} /\ Len(queue) \in Int
      BY <1>1, <1>2
    <3> QED BY <1>1, <1>2, <2>1, <3>1, TakesOne DEF EmptyCovered
  <2>10. FullCovered(f, poolRunning, Len(queue))
    <3>1. threadPc[w] \notin {"waitFull", "wokenFull"} /\ "task" \notin {"waitFull", "wokenFull"}
      BY <1>2
    <3> QED BY <1>1, <1>2, <2>1, <3>1, MovesElsewhere DEF FullCovered
  <2>11. Covered(threadPc', poolRunning, Len(queue) - 1, "waitEmpty", "wokenEmpty")
    <3>1. CASE maxQueueSize > 0
      <4>1. threadPc' \in Pool!Notified(f, "waitFull", "wokenFull")
        BY <2>1, <3>1
      <4>2. {"waitFull", "wokenFull"} \cap {"waitEmpty", "wokenEmpty"} = {}
        BY StatesDiffer
      <4> QED BY <1>2, <2>2, <2>9, <4>1, <4>2, NotifyElsewhere
    <3>2. CASE ~(maxQueueSize > 0)
      BY <2>1, <2>9, <3>2
    <3> QED BY <3>1, <3>2
  <2>12. Covered(threadPc', poolRunning, maxQueueSize - Len(queue) + 1, "waitFull", "wokenFull")
    <3>1. CASE maxQueueSize > 0
      <4>1. /\ threadPc' \in Pool!Notified(f, "waitFull", "wokenFull") /\ "waitFull" # "wokenFull"
            /\ maxQueueSize - Len(queue) \in Int
        BY <1>1, <2>1, <3>1
      <4> QED BY <1>2, <2>2, <2>10, <4>1, NotifyCovers DEF FullCovered
    <3>2. CASE ~(maxQueueSize > 0)
      <4>1. /\ maxQueueSize - Len(queue) + 1 <= 0 /\ maxQueueSize - Len(queue) + 1 \in Int
            /\ threadPc' = f
        BY <1>1, <2>1, <2>4, <3>2, SMTT(20)
      <4>2. Cardinality(Pool!At(f, "wokenFull")) \in Nat
        BY <1>1, <1>2, <2>1, Moved
      <4> QED BY <2>10, <4>1, <4>2 DEF FullCovered, Covered
    <3> QED BY <3>1, <3>2
  <2>13. maxQueueSize - Len(queue) + 1 = maxQueueSize - Len(queue')
    BY <1>1, <2>4
  <2> QED BY <1>2, <2>4, <2>6, <2>7, <2>8, <2>11, <2>12, <2>13, Zenon
          DEF PoolInv, EmptyCovered, FullCovered, Covered
<1> QED BY <1>3, <1>4 DEF Pool!Take

-----------------------------------------------------------------------------
(* The theorems.                                                           *)

\* The invariant holds of a new pool ...
LEMMA PoolInit == Pool!Constants /\ Pool!Init => Pool!Constants /\ PoolInv
<1> SUFFICES ASSUME Pool!Constants, Pool!Init PROVE PoolInv
  OBVIOUS
<1>1. PoolTypeOK /\ NotStarted
  <2>1. threadPc \in [Pool!Threads -> Pool!States]
    BY DEF Pool!Init, Pool!States
  <2>2. \A w \in Workers : threadPc[w] = "none"
    BY DEF Pool!Init, Pool!Threads
  <2>3. <<>> \in Seq(Nat)
    BY EmptySeq
  <2> QED BY <2>1, <2>2, <2>3, Zenon DEF Pool!Init, PoolTypeOK, NotStarted
<1>2. Pool!InOrder
  BY DEF Pool!Init, Pool!InOrder, Pool!Constants
<1>3. Pool!At(threadPc, "waitEmpty") = {} /\ Pool!At(threadPc, "waitFull") = {}
  BY DEF Pool!Init, Pool!At
<1> QED BY <1>1, <1>2, <1>3, NobodyCovered DEF PoolInv

\* ... and every step keeps it.
LEMMA PoolStep == Pool!Constants /\ PoolInv /\ [Pool!Next]_(Pool!vars) => Pool!Constants' /\ PoolInv'
<1> SUFFICES ASSUME Pool!Constants, PoolInv, [Pool!Next]_(Pool!vars) PROVE Pool!Constants' /\ PoolInv'
  OBVIOUS
<1>1. Pool!Constants'
  BY DEF Pool!Constants
<1>2. CASE UNCHANGED Pool!vars
  BY <1>2 DEF Pool!vars, PoolInv, PoolTypeOK, NotStarted, Pool!InOrder, EmptyCovered, FullCovered, Covered, Pool!At
<1>3. CASE Pool!Start
  BY <1>3, StartStep
<1>4. CASE Pool!Stop
  BY <1>4, StopStep
<1>5. CASE \E w \in Workers : Pool!StartThread(w)
  BY <1>5, StartThreadStep
<1>6. CASE \E w \in Workers : Pool!Take(w)
  BY <1>6, TakeStep
<1>7. CASE \E t \in Pool!Threads : Pool!Run(t)
  BY <1>7, RunStep
<1>8. CASE \E t \in Pool!Threads : Pool!SpuriousWakeup(t)
  BY <1>8, SpuriousWakeupStep
<1>9. CASE \/ Pool!StartReturns \/ Pool!Joined
           \/ \E t \in Pool!Threads : Pool!CallRun(t)
           \/ \E w \in Workers : Pool!RunInThread(w) \/ Pool!TaskReturns(w)
  BY <1>9, SimpleSteps
<1> QED BY <1>1, <1>2, <1>3, <1>4, <1>5, <1>6, <1>7, <1>8, <1>9 DEF Pool!Next

\* So it always holds.
LEMMA PoolInductive == Pool!Constants => (Pool!Spec => []PoolInv)
  BY PoolInit, PoolStep, PTL DEF Pool!Spec

\* run() and take() lose no task, hand none out twice and keep their order, however
\* many workers and callers contend for the mutex.
THEOREM TasksTakenInOrder == Pool!Constants => (Pool!Spec => []Pool!InOrder)
<1>1. PoolInv => Pool!InOrder
  BY DEF PoolInv
<1> QED BY <1>1, PoolInductive, PTL

\* notify, and not notifyAll, is enough in run() and take(): no sleeper is left behind
\* with a task or a place it waits for that nobody is on the way to take.
THEOREM NoWakeupLost == Pool!Constants => (Pool!Spec => []Pool!WakeupsSuffice)
<1>1. PoolInv => Pool!WakeupsSuffice
  BY PoolSets DEF PoolInv, Pool!WakeupsSuffice, EmptyCovered, FullCovered, Covered,
         Pool!WaitEmpty, Pool!WokenEmpty, Pool!WaitFull, Pool!WokenFull
<1> QED BY <1>1, PoolInductive, PTL

\* The two conditions never hold each other up: in a bounded pool, workers that wait
\* for a task and callers that wait for a place do not sleep at once for good.
THEOREM NeverBothAsleep == Pool!Constants => (Pool!Spec => [](maxQueueSize > 0 => Pool!NoMutualSleep))
<1>1. Pool!Constants /\ PoolInv => (maxQueueSize > 0 => Pool!NoMutualSleep)
  <2> SUFFICES ASSUME Pool!Constants, PoolInv, maxQueueSize > 0,
                      Pool!WaitEmpty # {}, Pool!WaitFull # {}, Pool!WokenEmpty = {}, Pool!WokenFull = {}
               PROVE  FALSE
    BY DEF Pool!NoMutualSleep
  <2>1. Cardinality({}) = 0
    BY FS_EmptySet
  <2>2. Len(queue) <= 0 /\ maxQueueSize - Len(queue) <= 0
    BY <2>1, Zenon DEF PoolInv, EmptyCovered, FullCovered, Covered,
                Pool!WaitEmpty, Pool!WokenEmpty, Pool!WaitFull, Pool!WokenFull
  <2>3. Len(queue) \in Nat /\ maxQueueSize \in Nat
    BY DEF PoolInv, PoolTypeOK, Pool!Constants
  <2> QED BY ONLY <2>2, <2>3, maxQueueSize > 0
<1>2. Pool!Constants => []Pool!Constants
  <2>1. Pool!Constants => Pool!Constants'
    BY DEF Pool!Constants
  <2> QED BY <2>1, PTL
<1> QED BY <1>1, <1>2, PoolInductive, PTL
=============================================================================
