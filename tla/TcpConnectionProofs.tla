------------------------ MODULE TcpConnectionProofs ------------------------
(***************************************************************************)
(* Proofs about TcpConnection, for every program that uses the connection, *)
(* every number of threads and calls, and every length of message: output  *)
(* is watched exactly while there is some, and the FIN follows it.  Then   *)
(* the life of the connection, in the programs of Careful: it is up once,  *)
(* down once, out of the map and out of the poller, and no assertion fails *)
(* on the way.                                                             *)
(***************************************************************************)
EXTENDS TcpConnection, SequenceTheorems, TLAPS

Names == {"connectEstablished", "connectDestroyed", "shutdownInLoop", "forceCloseInLoop", "addTimerInLoop",
          "startReadInLoop", "stopReadInLoop", "writeComplete", "highWaterMark"}

Functors == [name : Names] \cup [name : {"sendInLoop"}, len : 1 .. MaxMessage]

\* connectEstablished is the first functor of the io loop, and comes once: u is the
\* number of times it has run.
QueueInv(q, u) ==
    /\ q \in Seq(Functors)
    /\ \A i \in 1 .. Len(q) : q[i].name = "connectEstablished" => i = 1 /\ u = 0
    /\ u = 0 => q # <<>> /\ q[1].name = "connectEstablished"

\* What is known before connectEstablished has run.
NotYetUp ==
    /\ state = "kConnecting" /\ output = 0 /\ events = {} /\ index = "kNew" /\ revents = {}
    /\ ~writeShut /\ downs = 0
    /\ \A u \in Users : userPc[u] = Idle

\* Where the threads can be in their calls.
PcInv == use \in Use /\ userPc \in [Users -> {Idle} \cup (Ops \X {"set", "queue"})]

\* The inductive invariant.
OutputInv ==
    /\ output \in Nat /\ ups \in {0, 1} /\ downs \in Nat
    /\ batch \in 0 .. Len(ioFunctors)
    /\ QueueInv(ioFunctors, ups)
    /\ PcInv
    /\ ups = 0 => NotYetUp
    /\ Up => (Writing <=> output > 0)
    /\ Up /\ writeShut => output = 0

\* A functor queued later than connectEstablished leaves it in its place.
LEMMA QueueAppend ==
    ASSUME NEW q, NEW u, NEW f \in Functors, QueueInv(q, u), f.name # "connectEstablished"
    PROVE  QueueInv(Append(q, f), u) /\ Len(Append(q, f)) = Len(q) + 1
<1>1. q \in Seq(Functors)
  BY DEF QueueInv
<1>2. /\ Append(q, f) \in Seq(Functors) /\ Len(Append(q, f)) = Len(q) + 1
      /\ Append(q, f)[Len(q) + 1] = f
      /\ \A i \in 1 .. Len(q) : Append(q, f)[i] = q[i]
  <2> HIDE DEF Functors
  <2> QED BY <1>1, AppendProperties
<1>3. Len(q) \in Nat
  BY <1>1, LenProperties
<1>4. \A i \in 1 .. Len(q) + 1 : i \in 1 .. Len(q) \/ i = Len(q) + 1
  BY <1>3
<1>5. u = 0 => Len(q) >= 1
  BY <1>1, <1>3, EmptySeq DEF QueueInv
<1> HIDE DEF Functors
<1> QED BY <1>1, <1>2, <1>3, <1>4, <1>5 DEF QueueInv

\* Once the first functor has run, connectEstablished has.
LEMMA QueueTail ==
    ASSUME NEW q, NEW u, QueueInv(q, u), Len(q) > 0
    PROVE  QueueInv(Tail(q), 1) /\ Len(Tail(q)) = Len(q) - 1 /\ Head(q) = q[1] /\ Head(q) \in Functors
<1>1. q \in Seq(Functors) /\ q # <<>> /\ Len(q) \in Nat
  BY LenProperties, EmptySeq DEF QueueInv
<1>2. /\ Head(q) \in Functors /\ Head(q) = q[1] /\ Tail(q) \in Seq(Functors) /\ Len(Tail(q)) = Len(q) - 1
      /\ \A i \in 1 .. Len(q) - 1 : Tail(q)[i] = q[i + 1]
  <2> HIDE DEF Functors
  <2> QED BY <1>1, HeadTailProperties
<1>3. \A i \in 1 .. Len(Tail(q)) : Tail(q)[i].name # "connectEstablished"
  BY <1>1, <1>2 DEF QueueInv
<1> HIDE DEF Functors
<1> QED BY <1>1, <1>2, <1>3 DEF QueueInv

\* The steps that may only be taken when the connection has been up, each with what it
\* leaves of the queue.
LEMMA Started ==
    ASSUME OutputInv, NEW name, NextFunctor(name), name # "connectEstablished"
    PROVE  /\ ups = 1 /\ Head(ioFunctors) \in Functors
           /\ QueueInv(Tail(ioFunctors), ups) /\ Len(Tail(ioFunctors)) = Len(ioFunctors) - 1
           /\ batch' = batch - 1 /\ batch' \in 0 .. Len(Tail(ioFunctors)) /\ batch' \in 0 .. Len(ioFunctors)
<1>1. Len(ioFunctors) \in Nat /\ Len(ioFunctors) > 0 /\ batch \in 1 .. Len(ioFunctors)
  <2>1. Len(ioFunctors) \in Nat
    BY LenProperties DEF OutputInv, QueueInv
  <2> QED BY <2>1 DEF OutputInv, NextFunctor
<1>2. /\ QueueInv(Tail(ioFunctors), 1) /\ Len(Tail(ioFunctors)) = Len(ioFunctors) - 1
      /\ Head(ioFunctors) = ioFunctors[1] /\ Head(ioFunctors) \in Functors
  BY <1>1, QueueTail DEF OutputInv
<1>3. ups = 1
  BY <1>2 DEF OutputInv, QueueInv, NextFunctor
<1> HIDE DEF QueueInv, Functors
<1> QED BY <1>1, <1>2, <1>3 DEF NextFunctor

\* handleClose takes the connection down, or fails.
LEMMA CloseStep ==
    ASSUME NEW q, QueueInv(q, ups), ups = 1, output \in Nat, downs \in Nat, HandleClose(q),
           Up => (Writing <=> output > 0), Up /\ writeShut => output = 0, writeShut' = writeShut
    PROVE  /\ output' = output /\ ups' = ups /\ downs' \in Nat
           /\ \/ ioFunctors' = ioFunctors
              \/ QueueInv(ioFunctors', ups') /\ Len(ioFunctors') \in {Len(q), Len(q) + 1}
           /\ Up' => (Writing' <=> output' > 0)
           /\ Up' /\ writeShut' => output' = 0
<1> Functor("connectDestroyed") \in Functors /\ Functor("connectDestroyed").name # "connectEstablished"
  BY DEF Functors, Functor, Names
<1>1. CASE HandleCloseFails # "none"
  <2>1. Fail(HandleCloseFails)
    BY <1>1 DEF HandleClose
  <2>2. /\ output' = output /\ events' = events /\ ups' = ups /\ downs' = downs
        /\ ioFunctors' = ioFunctors
    BY <2>1 DEF Fail, connVars, history
  <2>3. Up' = Up /\ (Writing' <=> Writing)
    BY <2>2 DEF Up, Writing
  <2> QED BY <2>2, <2>3
<1>2. CASE HandleCloseFails = "none"
  <2>1. /\ output' = output /\ ups' = ups /\ downs' = downs + 1 /\ RemoveConnection(q)
    BY <1>2 DEF HandleClose
  <2>2. QueueInv(Append(q, Functor("connectDestroyed")), ups)
        /\ Len(Append(q, Functor("connectDestroyed"))) = Len(q) + 1
    BY QueueAppend
  <2>3. QueueInv(ioFunctors', ups') /\ Len(ioFunctors') \in {Len(q), Len(q) + 1}
    <3> HIDE DEF QueueInv, Functor
    <3> QED BY <2>1, <2>2, Zenon DEF RemoveConnection, RemoveConnectionInLoop
  <2>4. ~Up'
    BY <2>1 DEF Up
  <2> QED BY <2>1, <2>3, <2>4
<1> QED BY <1>1, <1>2

\* sendInLoop keeps what write() has not taken, and nothing behind a FIN.
LEMMA SendStep ==
    ASSUME NEW q, NEW len \in Nat \ {0}, QueueInv(q, ups), output \in Nat, SendInLoop(len, q),
           Up => (Writing <=> output > 0), Up /\ writeShut => output = 0
    PROVE  /\ output' \in Nat /\ ups' = ups /\ downs' = downs
           /\ QueueInv(ioFunctors', ups') /\ Len(ioFunctors') >= Len(q)
           /\ Up' => (Writing' <=> output' > 0)
           /\ Up' /\ writeShut' => output' = 0
<1> \A c \in {"writeComplete", "highWaterMark"} :
       Functor(c) \in Functors /\ Functor(c).name # "connectEstablished"
  BY DEF Functors, Functor, Names
<1>0. Len(q) \in Nat
  BY LenProperties DEF QueueInv
<1>1. ASSUME NEW r, QueueInv(r, ups), NEW c \in {"writeComplete", "highWaterMark"}
      PROVE  QueueInv(Queued(r, c), ups) /\ Len(r) \in Nat /\ Len(Queued(r, c)) \in {Len(r), Len(r) + 1}
  <2>1. QueueInv(Append(r, Functor(c)), ups) /\ Len(Append(r, Functor(c))) = Len(r) + 1
    BY <1>1, QueueAppend
  <2>2. Len(r) \in Nat
    BY <1>1, LenProperties DEF QueueInv
  <2> HIDE DEF QueueInv, Functor
  <2> QED BY <1>1, <2>1, <2>2 DEF Queued
<1>2. ups' = ups /\ downs' = downs /\ writeShut' = writeShut /\ Up' = Up
  BY DEF SendInLoop, history, Up
<1>3. ASSUME NEW r, QueueInv(r, ups), Len(r) \in {Len(q), Len(q) + 1}, NEW k \in Nat, KeepRemaining(k, r)
      PROVE  /\ output' = output + k /\ QueueInv(ioFunctors', ups) /\ Len(ioFunctors') >= Len(q)
             /\ Writing' <=> (Writing \/ k > 0)
  <2>1. QueueInv(ioFunctors', ups) /\ Len(ioFunctors') >= Len(q)
    <3> HIDE DEF QueueInv, Queued
    <3> QED BY <1>0, <1>1, <1>3 DEF KeepRemaining
  <2>2. output' = output + k /\ (Writing' <=> (Writing \/ k > 0))
    BY <1>3 DEF KeepRemaining, UpdateChannel, Writing
  <2> QED BY <2>1, <2>2
<1>4. CASE output' = output /\ events' = events /\ ioFunctors' = q
  BY <1>0, <1>2, <1>4 DEF Writing
<1>5. CASE (Writing \/ output > 0) /\ KeepRemaining(len, q)
  BY <1>0, <1>2, <1>3, <1>5
<1>6. CASE /\ ~(Writing \/ output > 0) /\ ~WriteFails
           /\ \E nwrote \in 0 .. len :
                KeepRemaining(len - nwrote, IF nwrote = len THEN Queued(q, "writeComplete") ELSE q)
  <2>1. PICK nwrote \in 0 .. len :
                KeepRemaining(len - nwrote, IF nwrote = len THEN Queued(q, "writeComplete") ELSE q)
    BY <1>6
  <2> DEFINE r == IF nwrote = len THEN Queued(q, "writeComplete") ELSE q
  <2>2. QueueInv(r, ups) /\ Len(r) \in {Len(q), Len(q) + 1} /\ len - nwrote \in Nat
    <3> HIDE DEF QueueInv, Queued
    <3> QED BY <1>0, <1>1
  <2>3. /\ output' = output + (len - nwrote) /\ QueueInv(ioFunctors', ups) /\ Len(ioFunctors') >= Len(q)
        /\ Writing' <=> (Writing \/ len - nwrote > 0)
    <3> HIDE DEF r
    <3> SUFFICES KeepRemaining(len - nwrote, r)
      BY <1>3, <2>2
    <3> QED BY <2>1 DEF r
  <2>4. ~writeShut
    BY <1>6 DEF WriteFails
  <2> HIDE DEF QueueInv
  <2> QED BY <1>2, <1>6, <2>2, <2>3, <2>4
<1> QED BY <1>4, <1>5, <1>6 DEF SendInLoop

\* connectDestroyed takes the connection down, or finds no events.
LEMMA DestroyStep ==
    ASSUME output \in Nat, downs \in Nat, ups \in {0, 1}, ConnectDestroyedFails = "none", ConnectDestroyed,
           Up => (Writing <=> output > 0), Up /\ writeShut => output = 0, writeShut' = writeShut
    PROVE  /\ output' = output /\ ups' = ups /\ downs' \in Nat
           /\ Up' => (Writing' <=> output' > 0)
           /\ Up' /\ writeShut' => output' = 0
<1>1. output' = output /\ ups' = ups /\ events' = {}
  BY DEF ConnectDestroyed
<1>2. CASE state = "kConnected"
  <2>1. downs' = downs + 1
    BY <1>2 DEF ConnectDestroyed
  <2> QED BY <1>1, <2>1 DEF Up
<1>3. CASE state # "kConnected"
  <2>1. downs' = downs
    BY <1>3 DEF ConnectDestroyed
  <2>2. events = {}
    BY <1>3 DEF ConnectDestroyedFails
  <2>3. Up' = Up /\ (Writing' <=> Writing)
    BY <1>1, <2>1, <2>2 DEF Up, Writing
  <2> QED BY <1>1, <2>1, <2>3
<1> QED BY <1>2, <1>3

\* OutputInv is kept by a step that leaves the connection alone and appends to the queue.
LEMMA QueueStep ==
    ASSUME OutputInv, UNCHANGED <<state, output, events, index, revents, writeShut, batch, use, userPc, ups, downs>>,
           \/ ioFunctors' = ioFunctors
           \/ \E f \in Functors : f.name # "connectEstablished" /\ ioFunctors' = Append(ioFunctors, f)
    PROVE  OutputInv'
<1>1. Len(ioFunctors) \in Nat
  BY LenProperties DEF OutputInv, QueueInv
<1>2. QueueInv(ioFunctors', ups') /\ Len(ioFunctors') \in {Len(ioFunctors), Len(ioFunctors) + 1}
  <2>1. CASE ioFunctors' = ioFunctors
    BY <1>1, <2>1 DEF OutputInv
  <2>2. CASE \E f \in Functors : f.name # "connectEstablished" /\ ioFunctors' = Append(ioFunctors, f)
    <3> HIDE DEF Functors
    <3>1. PICK f \in Functors : f.name # "connectEstablished" /\ ioFunctors' = Append(ioFunctors, f)
      BY <2>2
    <3>2. QueueInv(Append(ioFunctors, f), ups) /\ Len(Append(ioFunctors, f)) = Len(ioFunctors) + 1
      BY <3>1, QueueAppend DEF OutputInv
    <3> HIDE DEF QueueInv
    <3> QED BY <3>1, <3>2
  <2> QED BY <2>1, <2>2
<1>3. batch' \in 0 .. Len(ioFunctors')
  BY <1>1, <1>2 DEF OutputInv
<1>4. (ups' = 0 => NotYetUp') /\ (Up' = Up) /\ (Writing' <=> Writing) /\ PcInv'
  BY DEF OutputInv, NotYetUp, Up, Writing, PcInv
<1> HIDE DEF QueueInv, NotYetUp, Up, Writing, PcInv
<1> QED BY <1>2, <1>3, <1>4 DEF OutputInv

\* OutputInv is kept by a step of a connection that has been up, if its parts are.
LEMMA UpStep ==
    ASSUME OutputInv, ups = 1, ups' = ups, downs' \in Nat, output' \in Nat,
           QueueInv(ioFunctors', ups'), batch' \in 0 .. Len(ioFunctors'),
           PcInv',
           Up' => (Writing' <=> output' > 0), Up' /\ writeShut' => output' = 0
    PROVE  OutputInv'
<1> HIDE DEF QueueInv, NotYetUp, Up, Writing, PcInv
<1> QED BY DEF OutputInv

\* The handlers of events keep OutputInv.
LEMMA EventsKeep ==
    ASSUME OutputInv, CloseEvent \/ ErrorEvent \/ ReadEvent \/ WriteEvent
    PROVE  OutputInv'
<1>0. Len(ioFunctors) \in Nat /\ QueueInv(ioFunctors, ups) /\ output \in Nat /\ downs \in Nat
      /\ batch \in 0 .. Len(ioFunctors)
  BY LenProperties DEF OutputInv, QueueInv
<1>1. ups = 1 /\ batch' = batch /\ PcInv'
  BY DEF CloseEvent, ErrorEvent, ReadEvent, WriteEvent, InHandler, OutputInv, NotYetUp, PcInv, userVars
<1>2. ASSUME HandleClose(ioFunctors), writeShut' = writeShut
      PROVE  OutputInv'
  <2>1. /\ output' = output /\ ups' = ups /\ downs' \in Nat
        /\ \/ ioFunctors' = ioFunctors
           \/ QueueInv(ioFunctors', ups') /\ Len(ioFunctors') \in {Len(ioFunctors), Len(ioFunctors) + 1}
        /\ Up' => (Writing' <=> output' > 0)
        /\ Up' /\ writeShut' => output' = 0
    <3> HIDE DEF QueueInv, Up, Writing, HandleClose
    <3> QED BY <1>0, <1>1, <1>2, CloseStep DEF OutputInv
  <2> HIDE DEF QueueInv, Up, Writing
  <2>2. QueueInv(ioFunctors', ups') /\ batch' \in 0 .. Len(ioFunctors')
    BY <1>0, <1>1, <2>1
  <2> QED BY <1>0, <1>1, <2>1, <2>2, UpStep
<1>3. ASSUME UNCHANGED <<closeVars, writeShut>>
      PROVE  OutputInv'
  <2>1. UNCHANGED <<output, events, ups, downs, ioFunctors, writeShut>>
    BY <1>3 DEF closeVars, connVars, history
  <2>2. Up' = Up /\ (Writing' <=> Writing)
    BY <2>1 DEF Up, Writing
  <2> HIDE DEF QueueInv, Up, Writing
  <2>4. (Up' => (Writing' <=> output' > 0)) /\ (Up' /\ writeShut' => output' = 0)
    BY <2>1, <2>2 DEF OutputInv
  <2> QED BY <1>0, <1>1, <2>1, <2>4, UpStep
<1>4. CASE CloseEvent
  BY <1>2, <1>3, <1>4 DEF CloseEvent, sockVars
<1>5. CASE ErrorEvent
  BY <1>3, <1>5 DEF ErrorEvent
<1>6. CASE ReadEvent
  BY <1>2, <1>3, <1>6 DEF ReadEvent
<1>7. CASE WriteEvent
  <2>1. ups' = ups /\ downs' = downs /\ Up' = Up
    BY <1>7 DEF WriteEvent, history, Up
  <2>3. ASSUME Writing, ~WriteFails, NEW n \in 1 .. output, HandleWrite(n)
        PROVE  OutputInv'
    <3>1. Functor("writeComplete") \in Functors /\ Functor("writeComplete").name # "connectEstablished"
      BY DEF Functors, Functor, Names
    <3>2. /\ QueueInv(Append(ioFunctors, Functor("writeComplete")), ups)
          /\ Len(Append(ioFunctors, Functor("writeComplete"))) = Len(ioFunctors) + 1
      BY <1>0, <3>1, QueueAppend
    <3>3. QueueInv(ioFunctors', ups') /\ batch' \in 0 .. Len(ioFunctors')
      <4>1. ioFunctors' = ioFunctors \/ ioFunctors' = Append(ioFunctors, Functor("writeComplete"))
        <5> HIDE DEF Functor
        <5> QED BY <2>3 DEF HandleWrite, Queued
      <4> HIDE DEF QueueInv, Functor
      <4>2. CASE ioFunctors' = ioFunctors
        BY <1>0, <1>1, <2>1, <4>2
      <4>3. CASE ioFunctors' = Append(ioFunctors, Functor("writeComplete"))
        <5>1. QueueInv(ioFunctors', ups')
          BY <2>1, <3>2, <4>3
        <5>2. Len(ioFunctors') = Len(ioFunctors) + 1
          BY <3>2, <4>3
        <5> QED BY <1>0, <1>1, <5>1, <5>2
      <4> QED BY <4>1, <4>2, <4>3
    <3>4. output' = output - n /\ output' \in Nat
      BY <1>0, <2>3 DEF HandleWrite
    <3>5. CASE n = output
      <4>1. ~Writing' /\ output' = 0
        BY <1>0, <2>3, <3>4, <3>5 DEF HandleWrite, UpdateChannel, Writing
      <4> HIDE DEF QueueInv, Up, Writing
      <4> QED BY <1>0, <1>1, <2>1, <3>3, <3>4, <4>1, UpStep
    <3>6. CASE n # output
      <4>1. events' = events /\ writeShut' = writeShut /\ output' > 0
        BY <1>0, <2>3, <3>4, <3>6 DEF HandleWrite
      <4>2. Writing' /\ ~writeShut'
        BY <2>3, <4>1 DEF Writing, WriteFails
      <4> HIDE DEF QueueInv, Up, Writing
      <4> QED BY <1>0, <1>1, <2>1, <3>3, <3>4, <4>1, <4>2, UpStep
    <3> QED BY <3>5, <3>6
  <2>4. ASSUME UNCHANGED <<output, events, index, ioFunctors, writeShut>>
        PROVE  OutputInv'
    <3>1. Writing' <=> Writing
      BY <2>4 DEF Writing
    <3> HIDE DEF QueueInv, Up, Writing
    <3>2. (Up' => (Writing' <=> output' > 0)) /\ (Up' /\ writeShut' => output' = 0)
      BY <2>1, <2>4, <3>1 DEF OutputInv
    <3> QED BY <1>0, <1>1, <2>1, <2>4, <3>2, UpStep
  <2> QED BY <1>7, <2>3, <2>4 DEF WriteEvent
<1> QED BY <1>4, <1>5, <1>6, <1>7

\* The functors of the io loop keep OutputInv.
LEMMA FunctorsKeep ==
    ASSUME OutputInv,
           \/ RunConnectEstablished \/ RunConnectDestroyed \/ RunSendInLoop \/ RunShutdownInLoop
           \/ RunReadInLoop \/ RunForceCloseInLoop \/ RunOther
    PROVE  OutputInv'
<1>0. /\ Len(ioFunctors) \in Nat /\ QueueInv(ioFunctors, ups) /\ output \in Nat /\ downs \in Nat
      /\ batch \in 0 .. Len(ioFunctors)
      /\ Up => (Writing <=> output > 0)
      /\ Up /\ writeShut => output = 0
  BY LenProperties DEF OutputInv, QueueInv
<1>1. PcInv'
  BY DEF RunConnectEstablished, RunConnectDestroyed, RunSendInLoop, RunShutdownInLoop, RunReadInLoop,
         RunForceCloseInLoop, RunOther, NextFunctor, OutputInv, PcInv, userVars
<1> DEFINE Gone == /\ ups = 1 /\ Head(ioFunctors) \in Functors
                   /\ QueueInv(Tail(ioFunctors), ups) /\ Len(Tail(ioFunctors)) = Len(ioFunctors) - 1
                   /\ batch' = batch - 1 /\ batch' \in 0 .. Len(Tail(ioFunctors))
                   /\ batch' \in 0 .. Len(ioFunctors)
<1>2. ASSUME NEW name, NextFunctor(name), name # "connectEstablished"
      PROVE  Gone
  <2> HIDE DEF QueueInv, NextFunctor, Functors, OutputInv
  <2> QED BY <1>2, Started
<1>3. ASSUME Gone, ioFunctors' = Tail(ioFunctors), UNCHANGED <<output, ups, downs>>, Writing' <=> Writing,
             writeShut' => writeShut \/ ~Writing
      PROVE  OutputInv'
  <2>1. Up' = Up
    BY <1>3 DEF Up
  <2> HIDE DEF QueueInv, Up, Writing, Functors
  <2>2. (Up' => (Writing' <=> output' > 0)) /\ (Up' /\ writeShut' => output' = 0)
    BY <1>0, <1>3, <2>1
  <2>3. ups' = ups /\ downs' \in Nat /\ output' \in Nat /\ QueueInv(ioFunctors', ups')
        /\ batch' \in 0 .. Len(ioFunctors')
    BY <1>0, <1>3
  <2> HIDE DEF OutputInv
  <2> QED BY <1>1, <1>3, <2>2, <2>3, UpStep
<1>4. CASE RunConnectEstablished
  <2>1. Len(ioFunctors) > 0 /\ batch' = batch - 1 /\ batch > 0 /\ ups' = ups + 1
        /\ ioFunctors' = Tail(ioFunctors) /\ UNCHANGED <<output, downs, writeShut>> /\ events' = {"read"}
        /\ Head(ioFunctors).name = "connectEstablished"
    BY <1>0, <1>4 DEF RunConnectEstablished, NextFunctor, sockVars, UpdateChannel
  <2>2. /\ QueueInv(Tail(ioFunctors), 1) /\ Len(Tail(ioFunctors)) = Len(ioFunctors) - 1
        /\ Head(ioFunctors) = ioFunctors[1]
    BY <1>0, <2>1, QueueTail
  <2>3. ups = 0 /\ NotYetUp
    BY <1>0, <2>1, <2>2 DEF OutputInv, QueueInv
  <2>4. output' = 0 /\ ~Writing' /\ ups' = 1 /\ downs' \in Nat
    BY <2>1, <2>3 DEF NotYetUp, Writing
  <2>5. QueueInv(ioFunctors', ups') /\ batch' \in 0 .. Len(ioFunctors')
    <3> HIDE DEF QueueInv
    <3> QED BY <1>0, <2>1, <2>2, <2>4
  <2> HIDE DEF QueueInv, Up, Writing, NotYetUp
  <2> QED BY <1>1, <2>4, <2>5 DEF OutputInv
<1>5. CASE RunConnectDestroyed
  <2>1. Gone /\ writeShut' = writeShut
    BY <1>2, <1>5 DEF RunConnectDestroyed, sockVars
  <2>2. CASE ConnectDestroyedFails # "none"
    <3>1. UNCHANGED <<output, events, ups, downs, ioFunctors>>
      BY <1>5, <2>2 DEF RunConnectDestroyed, Fail, connVars, history
    <3>2. Up' = Up /\ (Writing' <=> Writing)
      BY <3>1 DEF Up, Writing
    <3> HIDE DEF QueueInv, Up, Writing, OutputInv, Functors
    <3>3. (Up' => (Writing' <=> output' > 0)) /\ (Up' /\ writeShut' => output' = 0)
      BY <1>0, <2>1, <3>1, <3>2
    <3> QED BY <1>0, <1>1, <2>1, <3>1, <3>3, UpStep
  <2>3. CASE ConnectDestroyedFails = "none"
    <3>1. ConnectDestroyed /\ ioFunctors' = Tail(ioFunctors)
      BY <1>5, <2>3 DEF RunConnectDestroyed
    <3> HIDE DEF QueueInv, Up, Writing, OutputInv, Functors, ConnectDestroyed, ConnectDestroyedFails
    <3>2. /\ output' = output /\ ups' = ups /\ downs' \in Nat
          /\ Up' => (Writing' <=> output' > 0)
          /\ Up' /\ writeShut' => output' = 0
      BY <1>0, <2>1, <2>3, <3>1, DestroyStep
    <3> QED BY <1>0, <1>1, <2>1, <3>1, <3>2, UpStep
  <2> QED BY <2>2, <2>3
<1>6. CASE RunSendInLoop
  <2>1. Gone /\ Head(ioFunctors).name = "sendInLoop"
        /\ SendInLoop(Head(ioFunctors).len, Tail(ioFunctors))
    BY <1>2, <1>6 DEF RunSendInLoop, NextFunctor
  <2>2. Head(ioFunctors).len \in Nat \ {0}
    BY <2>1, TcpConnectionAssumption DEF Functors, Names
  <2> HIDE DEF QueueInv, Up, Writing, OutputInv, Functors
  <2>3. /\ output' \in Nat /\ ups' = ups /\ downs' = downs
        /\ QueueInv(ioFunctors', ups') /\ Len(ioFunctors') >= Len(Tail(ioFunctors))
        /\ Up' => (Writing' <=> output' > 0)
        /\ Up' /\ writeShut' => output' = 0
    <3> HIDE DEF SendInLoop
    <3> QED BY <1>0, <2>1, <2>2, SendStep, Zenon
  <2>4. Len(ioFunctors') \in Nat
    BY <2>3, LenProperties DEF QueueInv
  <2>5. batch' \in 0 .. Len(ioFunctors') /\ downs' \in Nat
    BY <1>0, <2>1, <2>3, <2>4
  <2> QED BY <1>1, <2>1, <2>3, <2>5, UpStep
<1>7. CASE RunShutdownInLoop
  <2>1. Gone
    BY <1>2, <1>7 DEF RunShutdownInLoop
  <2>2. UNCHANGED <<output, events, ups, downs>> /\ ioFunctors' = Tail(ioFunctors)
    BY <1>7 DEF RunShutdownInLoop, connVars, history
  <2>3. writeShut' => writeShut \/ ~Writing
    BY <1>7, Zenon DEF RunShutdownInLoop, ShutdownInLoop
  <2>4. Writing' <=> Writing
    BY <2>2 DEF Writing
  <2> HIDE DEF Gone, OutputInv
  <2> QED BY <1>3, <2>1, <2>2, <2>3, <2>4
<1>8. CASE RunReadInLoop
  <2>1. Gone
    BY <1>2, <1>8 DEF RunReadInLoop
  <2>2. UNCHANGED <<output, ups, downs, writeShut>> /\ ioFunctors' = Tail(ioFunctors)
    BY <1>8 DEF RunReadInLoop, history, sockVars
  <2>3. Writing' <=> Writing
    BY <1>8 DEF RunReadInLoop, StartReadInLoop, StopReadInLoop, UpdateChannel, Writing
  <2> HIDE DEF Gone, OutputInv
  <2> QED BY <1>3, <2>1, <2>2, <2>3
<1>9. CASE RunForceCloseInLoop
  <2>1. Gone /\ writeShut' = writeShut
    BY <1>2, <1>9 DEF RunForceCloseInLoop, sockVars
  <2>2. CASE Open
    <3>1. HandleClose(Tail(ioFunctors))
      BY <1>9, <2>2 DEF RunForceCloseInLoop
    <3> HIDE DEF QueueInv, Up, Writing, OutputInv, Functors
    <3>2. /\ output' = output /\ ups' = ups /\ downs' \in Nat
          /\ \/ ioFunctors' = ioFunctors
             \/ /\ QueueInv(ioFunctors', ups')
                /\ Len(ioFunctors') \in {Len(Tail(ioFunctors)), Len(Tail(ioFunctors)) + 1}
          /\ Up' => (Writing' <=> output' > 0)
          /\ Up' /\ writeShut' => output' = 0
      <4> HIDE DEF HandleClose
      <4> QED BY <1>0, <2>1, <3>1, CloseStep, Zenon
    <3>3. QueueInv(ioFunctors', ups') /\ batch' \in 0 .. Len(ioFunctors')
      BY <1>0, <2>1, <3>2
    <3> QED BY <1>0, <1>1, <2>1, <3>2, <3>3, UpStep
  <2>3. CASE ~Open
    <3>1. UNCHANGED <<output, events, ups, downs>> /\ ioFunctors' = Tail(ioFunctors)
      BY <1>9, <2>3 DEF RunForceCloseInLoop, connVars, history
    <3>2. Writing' <=> Writing
      BY <3>1 DEF Writing
    <3> HIDE DEF Gone, OutputInv
    <3> QED BY <1>3, <2>1, <3>1, <3>2
  <2> QED BY <2>2, <2>3
<1>10. CASE RunOther
  <2>1. Gone
    BY <1>2, <1>10 DEF RunOther
  <2>2. UNCHANGED <<output, events, ups, downs, writeShut>> /\ ioFunctors' = Tail(ioFunctors)
    BY <1>10 DEF RunOther, connVars, history, sockVars
  <2>3. Writing' <=> Writing
    BY <2>2 DEF Writing
  <2> HIDE DEF Gone, OutputInv
  <2> QED BY <1>3, <2>1, <2>2, <2>3
<1> QED BY <1>4, <1>5, <1>6, <1>7, <1>8, <1>9, <1>10

\* The calls of the user keep OutputInv.
LEMMA CallsKeep ==
    ASSUME OutputInv,
           \/ LoopSend \/ LoopShutdown \/ LoopForceClose \/ LoopForceCloseWithDelay \/ LoopRead
           \/ \E u \in Users : ThreadCall(u) \/ ThreadSetState(u) \/ ThreadQueue(u)
    PROVE  OutputInv'
<1>0. /\ Len(ioFunctors) \in Nat /\ QueueInv(ioFunctors, ups) /\ output \in Nat /\ downs \in Nat
      /\ batch \in 0 .. Len(ioFunctors) /\ PcInv
      /\ Up => (Writing <=> output > 0)
      /\ Up /\ writeShut => output = 0
  BY LenProperties DEF OutputInv, QueueInv
<1>1. ups = 1
  <2>1. ASSUME NEW u \in Users, ThreadSetState(u) \/ ThreadQueue(u)
        PROVE  ups = 1
    BY <2>1 DEF ThreadSetState, ThreadQueue, OutputInv, NotYetUp, Idle
  <2> QED BY <2>1 DEF LoopSend, LoopShutdown, LoopForceClose, LoopForceCloseWithDelay, LoopRead, ThreadCall, Call
<1>2. ASSUME UNCHANGED <<output, ups, downs, batch>>, Writing' <=> Writing, writeShut' => writeShut \/ ~Writing,
             PcInv',
             \/ ioFunctors' = ioFunctors
             \/ \E f \in Functors : f.name # "connectEstablished" /\ ioFunctors' = Append(ioFunctors, f)
      PROVE  OutputInv'
  <2>1. Up' = Up
    BY <1>2 DEF Up
  <2> HIDE DEF Functors
  <2>2. ASSUME NEW f \in Functors, f.name # "connectEstablished", ioFunctors' = Append(ioFunctors, f)
        PROVE  QueueInv(ioFunctors', ups') /\ Len(ioFunctors') = Len(ioFunctors) + 1
    <3>1. QueueInv(Append(ioFunctors, f), ups) /\ Len(Append(ioFunctors, f)) = Len(ioFunctors) + 1
      BY <1>0, <2>2, QueueAppend
    <3> HIDE DEF QueueInv
    <3> QED BY <1>2, <2>2, <3>1
  <2> HIDE DEF QueueInv, Up, Writing, OutputInv
  <2>3. QueueInv(ioFunctors', ups') /\ Len(ioFunctors') \in {Len(ioFunctors), Len(ioFunctors) + 1}
    BY <1>0, <1>2, <2>2
  <2>4. (Up' => (Writing' <=> output' > 0)) /\ (Up' /\ writeShut' => output' = 0)
    BY <1>0, <1>2, <2>1
  <2>5. batch' \in 0 .. Len(ioFunctors')
    BY <1>0, <1>2, <2>3
  <2> QED BY <1>0, <1>1, <1>2, <2>3, <2>4, <2>5, UpStep
<1>a. UNCHANGED <<use, userPc>> => PcInv'
  BY <1>0 DEF PcInv
<1>3. \A name \in Names \ {"connectEstablished"} :
         Functor(name) \in Functors /\ Functor(name).name # "connectEstablished"
  BY DEF Functors, Functor, Names
<1>4. CASE LoopSend
  <2>1. PICK len \in 1 .. MaxMessage : SendInLoop(len, ioFunctors)
    BY <1>4 DEF LoopSend
  <2>2. batch' = batch /\ PcInv' /\ len \in Nat \ {0}
    BY <1>4, <1>a, TcpConnectionAssumption DEF LoopSend, Call, loopVars
  <2> HIDE DEF QueueInv, Up, Writing, OutputInv, SendInLoop
  <2>3. /\ output' \in Nat /\ ups' = ups /\ downs' = downs
        /\ QueueInv(ioFunctors', ups') /\ Len(ioFunctors') >= Len(ioFunctors)
        /\ Up' => (Writing' <=> output' > 0)
        /\ Up' /\ writeShut' => output' = 0
    BY <1>0, <2>1, <2>2, SendStep
  <2>4. Len(ioFunctors') \in Nat
    BY <2>3, LenProperties DEF QueueInv
  <2>5. batch' \in 0 .. Len(ioFunctors') /\ downs' \in Nat
    BY <1>0, <2>2, <2>3, <2>4
  <2> QED BY <1>1, <2>2, <2>3, <2>5, UpStep
<1>5. CASE LoopShutdown
  <2>1. UNCHANGED <<output, events, ups, downs, batch, ioFunctors, userPc, use>>
    BY <1>5 DEF LoopShutdown, Call, loopVars, history
  <2>2. writeShut' => writeShut \/ ~Writing
    BY <1>5, Zenon DEF LoopShutdown, ShutdownInLoop
  <2>3. Writing' <=> Writing
    BY <2>1 DEF Writing
  <2> HIDE DEF OutputInv, Writing
  <2> QED BY <1>0, <1>2, <1>a, <2>1, <2>2, <2>3
<1>6. CASE LoopForceClose
  <2>1. UNCHANGED <<output, events, ups, downs, batch, userPc, use, writeShut>>
    BY <1>6 DEF LoopForceClose, ForceClose, Call, loopVars, history, sockVars
  <2>2. ioFunctors' = ioFunctors \/ ioFunctors' = Append(ioFunctors, Functor("forceCloseInLoop"))
    BY <1>6 DEF LoopForceClose, ForceClose
  <2>3. Writing' <=> Writing
    BY <2>1 DEF Writing
  <2>4. Functor("forceCloseInLoop") \in Functors /\ Functor("forceCloseInLoop").name # "connectEstablished"
    BY <1>3 DEF Names
  <2> HIDE DEF OutputInv, Writing, Functor, Functors
  <2> QED BY <1>0, <1>2, <1>a, <2>1, <2>2, <2>3, <2>4
<1>7. CASE LoopForceCloseWithDelay
  <2>1. UNCHANGED <<output, events, ups, downs, batch, ioFunctors, userPc, use, writeShut>>
    BY <1>7, Zenon DEF LoopForceCloseWithDelay, Call, loopVars, history, sockVars
  <2>2. Writing' <=> Writing
    BY <2>1 DEF Writing
  <2> HIDE DEF OutputInv, Writing
  <2> QED BY <1>0, <1>2, <1>a, <2>1, <2>2
<1>8. CASE LoopRead
  <2>1. UNCHANGED <<output, ups, downs, batch, ioFunctors, userPc, use, writeShut>>
    BY <1>8 DEF LoopRead, Call, loopVars, history, sockVars
  <2>2. Writing' <=> Writing
    BY <1>8 DEF LoopRead, StartReadInLoop, StopReadInLoop, UpdateChannel, Writing
  <2> HIDE DEF OutputInv, Writing
  <2> QED BY <1>0, <1>2, <1>a, <2>1, <2>2
<1>9. ASSUME NEW u \in Users, ThreadCall(u) \/ ThreadSetState(u)
      PROVE  OutputInv'
  <2>1. UNCHANGED <<output, events, ups, downs, batch, ioFunctors, writeShut>>
    BY <1>9 DEF ThreadCall, ThreadSetState, Call, loopVars, closeVars, connVars, history, sockVars
  <2>2. Writing' <=> Writing
    BY <2>1 DEF Writing
  <2>3. PcInv'
    <3>1. CASE ThreadCall(u)
      <4>1. PICK op \in use.threadOps :
               userPc' = [userPc EXCEPT ![u] =
                  <<op, IF op \in {"shutdown", "forceClose", "forceCloseWithDelay"} THEN "set" ELSE "queue">>]
        BY <3>1, Zenon DEF ThreadCall
      <4>2. op \in Ops /\ use' = use
        BY <1>0, <1>9, <3>1, <4>1 DEF PcInv, Use, ThreadCall, Call
      <4> QED BY <1>0, <4>1, <4>2 DEF PcInv
    <3>2. CASE ThreadSetState(u)
      <4>1. userPc[u] \in Ops \X {"set", "queue"} /\ use' = use
        BY <1>0, <3>2 DEF PcInv, ThreadSetState, Idle
      <4>2. [userPc[u] EXCEPT ![2] = "queue"] \in Ops \X {"set", "queue"}
        BY <4>1
      <4>3. userPc' = [userPc EXCEPT ![u] = [userPc[u] EXCEPT ![2] = "queue"]]
        BY <1>0, <3>2 DEF PcInv, ThreadSetState
      <4> QED BY <1>0, <4>1, <4>2, <4>3 DEF PcInv
    <3> QED BY <1>9, <3>1, <3>2
  <2> HIDE DEF OutputInv, Writing
  <2> QED BY <1>2, <2>1, <2>2, <2>3
<1>10. ASSUME NEW u \in Users, ThreadQueue(u)
       PROVE  OutputInv'
  <2>1. UNCHANGED <<output, events, ups, downs, batch, writeShut>>
    BY <1>10 DEF ThreadQueue, loopVars, connVars, history, sockVars
  <2>2. Writing' <=> Writing
    BY <2>1 DEF Writing
  <2>3. PcInv'
    BY <1>0, <1>10 DEF ThreadQueue, PcInv
  <2>4. PICK f \in FunctorsOf(userPc[u][1]) : ioFunctors' = Append(ioFunctors, f)
    BY <1>10 DEF ThreadQueue
  <2>5. f \in Functors /\ f.name # "connectEstablished"
    <3>1. userPc[u][1] \in Ops
      BY <1>0, <1>10 DEF PcInv, ThreadQueue, Idle
    <3> QED BY <2>4, <3>1 DEF FunctorsOf, Functors, Functor, Names, Ops
  <2> HIDE DEF OutputInv, Writing, Functors
  <2> QED BY <1>2, <2>1, <2>2, <2>3, <2>4, <2>5, Zenon
<1> QED BY <1>4, <1>5, <1>6, <1>7, <1>8, <1>9, <1>10

\* The loops' other steps, the server and the peer keep OutputInv.
LEMMA OthersKeep ==
    ASSUME OutputInv,
           Poll \/ SwapFunctors \/ DelayTimer \/ RunRemoveConnectionInLoop \/ ServerDestroyed \/ Peer
    PROVE  OutputInv'
<1>0. /\ Len(ioFunctors) \in Nat /\ QueueInv(ioFunctors, ups) /\ output \in Nat /\ downs \in Nat
      /\ ups \in {0, 1} /\ batch \in 0 .. Len(ioFunctors)
      /\ Up => (Writing <=> output > 0)
      /\ Up /\ writeShut => output = 0
  BY LenProperties DEF OutputInv, QueueInv
<1>1. \A name \in Names \ {"connectEstablished"} :
         Functor(name) \in Functors /\ Functor(name).name # "connectEstablished"
  BY DEF Functors, Functor, Names
<1>2. CASE Poll \/ SwapFunctors
  <2>1. UNCHANGED <<state, output, events, index, writeShut, use, userPc, ups, downs, ioFunctors>>
    BY <1>2 DEF Poll, SwapFunctors, closeVars, connVars, history, userVars, sockVars
  <2>2. ups = 0 => revents' = {}
    BY <1>2 DEF Poll, SwapFunctors, OutputInv, NotYetUp, Reported, Writing
  <2>3. batch' \in 0 .. Len(ioFunctors')
    BY <1>0, <1>2, <2>1 DEF Poll, SwapFunctors
  <2>4. (ups' = 0 => NotYetUp') /\ (Up' = Up) /\ (Writing' <=> Writing) /\ PcInv'
    BY <2>1, <2>2 DEF OutputInv, NotYetUp, Up, Writing, PcInv
  <2> HIDE DEF QueueInv, NotYetUp, Up, Writing, PcInv
  <2> QED BY <2>1, <2>3, <2>4 DEF OutputInv
<1>3. CASE DelayTimer
  <2>1. UNCHANGED <<output, events, index, revents, writeShut, batch, use, userPc, ups, downs>>
    BY <1>3 DEF DelayTimer, ForceClose, history, userVars, sockVars, loopVars
  <2>2. \/ UNCHANGED <<state, ioFunctors>>
        \/ Open /\ ioFunctors' = Append(ioFunctors, Functor("forceCloseInLoop"))
    BY <1>3 DEF DelayTimer, ForceClose
  <2>3. CASE UNCHANGED <<state, ioFunctors>>
    BY <2>1, <2>3, QueueStep
  <2>4. CASE Open /\ ioFunctors' = Append(ioFunctors, Functor("forceCloseInLoop"))
    <3>1. ups = 1
      BY <2>4 DEF OutputInv, NotYetUp, Open
    <3>2. /\ QueueInv(Append(ioFunctors, Functor("forceCloseInLoop")), ups)
          /\ Len(Append(ioFunctors, Functor("forceCloseInLoop"))) = Len(ioFunctors) + 1
      <4>1. /\ Functor("forceCloseInLoop") \in Functors
            /\ Functor("forceCloseInLoop").name # "connectEstablished"
        BY <1>1 DEF Names
      <4> QED BY <1>0, <4>1, QueueAppend
    <3>3. (Up' = Up) /\ (Writing' <=> Writing) /\ PcInv'
      BY <2>1 DEF OutputInv, Up, Writing, PcInv
    <3> HIDE DEF QueueInv, NotYetUp, Up, Writing, PcInv, Functor
    <3>4. QueueInv(ioFunctors', ups') /\ batch' \in 0 .. Len(ioFunctors')
      BY <1>0, <2>1, <2>4, <3>2
    <3> QED BY <2>1, <3>1, <3>3, <3>4 DEF OutputInv
  <2> QED BY <2>2, <2>3, <2>4
<1>4. CASE RunRemoveConnectionInLoop
  <2>1. UNCHANGED <<state, output, events, index, revents, writeShut, batch, use, userPc, ups, downs>>
    BY <1>4 DEF RunRemoveConnectionInLoop, Fail, connVars, history, userVars, sockVars, loopVars
  <2>2. ioFunctors' = ioFunctors \/ ioFunctors' = Append(ioFunctors, Functor("connectDestroyed"))
    BY <1>4 DEF RunRemoveConnectionInLoop, RemoveConnectionInLoop, Fail
  <2>3. Functor("connectDestroyed") \in Functors /\ Functor("connectDestroyed").name # "connectEstablished"
    BY <1>1 DEF Names
  <2> HIDE DEF OutputInv, Functor, Functors
  <2> QED BY <2>1, <2>2, <2>3, QueueStep
<1>5. CASE ServerDestroyed
  <2>1. UNCHANGED <<revents, writeShut, batch, use, userPc>>
    BY <1>5 DEF ServerDestroyed, userVars, sockVars, loopVars
  <2>2. CASE use.single /\ inMap /\ ConnectDestroyedFails = "none"
    <3>1. ConnectDestroyed /\ ioFunctors' = ioFunctors /\ ups = 1
      BY <1>5, <2>2 DEF ServerDestroyed, OutputInv, NotYetUp
    <3>2. PcInv'
      BY <2>1 DEF OutputInv, PcInv
    <3> HIDE DEF QueueInv, Up, Writing, OutputInv, ConnectDestroyed, ConnectDestroyedFails, PcInv
    <3>3. /\ output' = output /\ ups' = ups /\ downs' \in Nat
          /\ Up' => (Writing' <=> output' > 0)
          /\ Up' /\ writeShut' => output' = 0
      BY <1>0, <2>1, <2>2, <3>1, DestroyStep
    <3> QED BY <1>0, <2>1, <3>1, <3>2, <3>3, UpStep
  <2>3. CASE ~(use.single /\ inMap /\ ConnectDestroyedFails = "none")
    <3>1. UNCHANGED <<state, output, events, index, ups, downs>>
      BY <1>5, <2>3 DEF ServerDestroyed, Fail, connVars, history
    <3>2. ioFunctors' = ioFunctors \/ ioFunctors' = Append(ioFunctors, Functor("connectDestroyed"))
      BY <1>5 DEF ServerDestroyed, Fail
    <3>3. Functor("connectDestroyed") \in Functors /\ Functor("connectDestroyed").name # "connectEstablished"
      BY <1>1 DEF Names
    <3> HIDE DEF OutputInv, Functor, Functors
    <3> QED BY <2>1, <3>1, <3>2, <3>3, QueueStep
  <2> QED BY <2>2, <2>3
<1>6. CASE Peer
  <2>1. UNCHANGED <<state, output, events, index, revents, writeShut, batch, use, userPc, ups, downs, ioFunctors>>
    BY <1>6 DEF Peer, closeVars, connVars, history, userVars, loopVars
  <2> QED BY <2>1, QueueStep
<1> QED BY <1>2, <1>3, <1>4, <1>5, <1>6

\* OutputInv holds at first and is kept by every step.
LEMMA OutputInductive == Spec => []OutputInv
<1>1. Init => OutputInv
  <2> SUFFICES ASSUME Init PROVE OutputInv
    OBVIOUS
  <2>1. ioFunctors = <<[name |-> "connectEstablished"]>> /\ ups = 0
    BY DEF Init
  <2>2. QueueInv(ioFunctors, ups) /\ Len(ioFunctors) = 1
    BY <2>1 DEF QueueInv, Functors, Names
  <2>3. PcInv
    BY TcpConnectionAssumption DEF Init, PcInv, Idle
  <2>4. NotYetUp
    BY DEF Init, NotYetUp
  <2>5. ~Up /\ output \in Nat /\ ups \in {0, 1} /\ downs \in Nat /\ batch = 0
    BY DEF Init, Up
  <2> HIDE DEF QueueInv, NotYetUp, Up, Writing, PcInv
  <2> QED BY <2>2, <2>3, <2>4, <2>5 DEF OutputInv
<1>2. OutputInv /\ [Next]_vars => OutputInv'
  <2> SUFFICES ASSUME OutputInv, [Next]_vars PROVE OutputInv'
    OBVIOUS
  <2>1. CASE UNCHANGED vars
    <3>1. UNCHANGED <<state, output, events, index, revents, writeShut, batch, use, userPc, ups, downs, ioFunctors>>
      BY <2>1 DEF vars, closeVars, connVars, history, userVars, loopVars, sockVars
    <3> QED BY <3>1, QueueStep
  <2>2. CASE Next
    <3> HIDE DEF OutputInv
    <3> QED BY <2>2, EventsKeep, FunctorsKeep, CallsKeep, OthersKeep DEF Next, IoLoop
  <2> QED BY <2>1, <2>2
<1> QED BY <1>1, <1>2, PTL DEF Spec

\* Output is watched exactly while there is some: for every use of the connection, any
\* threads and any calls (sendInLoop, handleWrite).
THEOREM OutputIsWatched == Spec => []WritingIffOutput
<1>1. OutputInv => WritingIffOutput
  BY DEF OutputInv, WritingIffOutput
<1> QED BY <1>1, OutputInductive, PTL

\* The FIN of shutdown() follows all output, and nothing is buffered behind it
\* (shutdownInLoop, handleWrite, sendInLoop).
THEOREM FinFollowsOutput == Spec => []FinAfterOutput
<1>1. OutputInv => FinAfterOutput
  BY DEF OutputInv, FinAfterOutput
<1> QED BY <1>1, OutputInductive, PTL

-----------------------------------------------------------------------------
(* The life of a connection, for the programs of Careful.                  *)

\* The functors of a careful program; s is use.single, here and below.
CarefulName(name, s) ==
    /\ name \in {"connectEstablished", "connectDestroyed", "sendInLoop", "writeComplete", "highWaterMark",
                 "forceCloseInLoop"}
    /\ s => name # "forceCloseInLoop"

CarefulQueue(q, s) == q \in Seq(Functors) /\ \A i \in 1 .. Len(q) : CarefulName(q[i].name, s)

CarefulCalls ==
    /\ CarefulQueue(ioFunctors, use.single)
    /\ \A u \in Users : userPc[u] \in {Idle, <<"send", "queue">>}
    /\ use.single => delayTimers = 0

Destroys(q) == {i \in 1 .. Len(q) : q[i].name = "connectDestroyed"}

\* connectDestroyed is not in the queue; or it is there once and, with one loop, will
\* run before the next poll: h is handling and b is batch.
NotDestroying(q) == Destroys(q) = {}

Destroying(q, b, h, s) ==
    \E k \in 1 .. Len(q) : Destroys(q) = {k} /\ (s => h \/ k <= b)

\* Before the connection is down: the server has it, its events are watched, and nobody
\* is about to remove it.
Staying ==
    /\ downs = 0 /\ inMap /\ server /\ baseFunctors = <<>> /\ NotDestroying(ioFunctors)
    /\ ups = 1 => Open
    /\ ups = 1 /\ use.single => state = "kConnected"
    /\ ups = 1 /\ ~use.single => "read" \in events /\ index = "kAdded"

\* After: it is on its way out of the map, then on its way out of the poller, then gone.
InTheMap ==
    /\ inMap /\ ~use.single /\ Len(baseFunctors) = 1 /\ baseFunctors \in Seq({Functor("removeConnectionInLoop")})
    /\ NotDestroying(ioFunctors) /\ index = "kDeleted"

InThePoller ==
    /\ ~inMap /\ baseFunctors = <<>>
    /\ Destroying(ioFunctors, batch, handling, use.single)
    /\ index # "kNew" /\ (~use.single => index = "kDeleted")

OutOfBoth == ~inMap /\ baseFunctors = <<>> /\ NotDestroying(ioFunctors) /\ index = "kNew"

Leaving ==
    /\ ups = 1 /\ downs = 1 /\ state = "kDisconnected" /\ events = {}
    /\ revents \cap {"HUP", "IN"} = {}
    /\ ~use.single => server
    /\ InTheMap \/ InThePoller \/ OutOfBoth

Life ==
    /\ failed = "none"
    /\ ~handling => revents = {}
    /\ batch > 0 => ~handling
    /\ CarefulCalls
    /\ Staying \/ Leaving

\* The inductive invariant.
LifeInv == Careful(use) => Life

-----------------------------------------------------------------------------
(* What becomes of connectDestroyed in the queue.                          *)

\* A queue r that comes of q by other functors.
Extends(q, r, s) ==
    /\ CarefulQueue(r, s)
    /\ NotDestroying(q) => NotDestroying(r)
    /\ \A b, h : Destroying(q, b, h, s) => Destroying(r, b, h, s)

\* Appending a functor other than connectDestroyed is such an extension ...
LEMMA ExtendsAppend ==
    ASSUME NEW q, NEW s, CarefulQueue(q, s), NEW f \in Functors, CarefulName(f.name, s), f.name # "connectDestroyed"
    PROVE  Extends(q, Append(q, f), s)
<1> HIDE DEF Functors, CarefulName
<1>1. q \in Seq(Functors) /\ Len(q) \in Nat
  BY LenProperties DEF CarefulQueue
<1>2. /\ Append(q, f) \in Seq(Functors) /\ Len(Append(q, f)) = Len(q) + 1
      /\ Append(q, f)[Len(q) + 1] = f
      /\ \A i \in 1 .. Len(q) : Append(q, f)[i] = q[i]
  BY <1>1, AppendProperties
<1>3. CarefulQueue(Append(q, f), s)
  BY <1>1, <1>2 DEF CarefulQueue
<1>4. Destroys(Append(q, f)) = Destroys(q)
  BY <1>1, <1>2 DEF Destroys
<1>5. \A k \in 1 .. Len(q) : k \in 1 .. Len(Append(q, f))
  BY <1>1, <1>2
<1> HIDE DEF Destroys, CarefulQueue
<1> QED BY <1>3, <1>4, <1>5 DEF Extends, NotDestroying, Destroying

\* connectDestroyed is queued: where a handler of events is running, or with two loops.
LEMMA DestroyingAppend ==
    ASSUME NEW q, NEW s, CarefulQueue(q, s), NotDestroying(q), NEW b, NEW h, s => h
    PROVE  /\ CarefulQueue(Append(q, Functor("connectDestroyed")), s)
           /\ Destroying(Append(q, Functor("connectDestroyed")), b, h, s)
<1> DEFINE f == Functor("connectDestroyed")
<1>0. f \in Functors /\ f.name = "connectDestroyed" /\ CarefulName(f.name, s)
  BY DEF Functor, Functors, Names, CarefulName
<1> HIDE DEF f, Functors, CarefulName
<1>1. q \in Seq(Functors) /\ Len(q) \in Nat
  BY LenProperties DEF CarefulQueue
<1>2. /\ Append(q, f) \in Seq(Functors) /\ Len(Append(q, f)) = Len(q) + 1
      /\ Append(q, f)[Len(q) + 1] = f
      /\ \A i \in 1 .. Len(q) : Append(q, f)[i] = q[i]
  BY <1>0, <1>1, AppendProperties
<1>3. CarefulQueue(Append(q, f), s)
  BY <1>0, <1>1, <1>2 DEF CarefulQueue
<1>4. Destroys(Append(q, f)) = {Len(q) + 1}
  BY <1>0, <1>1, <1>2 DEF Destroys, NotDestroying
<1>5. Len(q) + 1 \in 1 .. Len(Append(q, f))
  BY <1>1, <1>2
<1>6. Destroying(Append(q, f), b, h, s)
  <2> HIDE DEF Destroys
  <2> QED BY <1>4, <1>5 DEF Destroying
<1> QED BY <1>3, <1>6 DEF f

\* The first functor is run, another or connectDestroyed itself.
LEMMA DestroyingTail ==
    ASSUME NEW q, NEW s, CarefulQueue(q, s), NEW b \in Nat, 0 < b, b <= Len(q)
    PROVE  /\ CarefulQueue(Tail(q), s) /\ Len(Tail(q)) = Len(q) - 1
           /\ Head(q) \in Functors /\ CarefulName(Head(q).name, s)
           /\ NotDestroying(q) => NotDestroying(Tail(q)) /\ Head(q).name # "connectDestroyed"
           /\ \A h : Destroying(q, b, h, s) =>
                IF Head(q).name = "connectDestroyed" THEN NotDestroying(Tail(q))
                                                     ELSE Destroying(Tail(q), b - 1, h, s)
<1> HIDE DEF Functors, CarefulName
<1>1. q \in Seq(Functors) /\ q # <<>> /\ Len(q) \in Nat
  BY LenProperties, EmptySeq DEF CarefulQueue
<1>2. /\ Head(q) \in Functors /\ Head(q) = q[1] /\ Tail(q) \in Seq(Functors) /\ Len(Tail(q)) = Len(q) - 1
      /\ \A i \in 1 .. Len(q) - 1 : Tail(q)[i] = q[i + 1]
  BY <1>1, HeadTailProperties
<1>3. CarefulQueue(Tail(q), s) /\ CarefulName(Head(q).name, s)
  BY <1>1, <1>2 DEF CarefulQueue
<1>4. \A i \in 1 .. Len(Tail(q)) : i \in Destroys(Tail(q)) <=> i + 1 \in Destroys(q)
  BY <1>1, <1>2 DEF Destroys
<1>5. Head(q).name = "connectDestroyed" <=> 1 \in Destroys(q)
  BY <1>1, <1>2 DEF Destroys
<1>6. Destroys(Tail(q)) \subseteq 1 .. Len(Tail(q))
  BY DEF Destroys
<1> HIDE DEF Destroys, CarefulQueue
<1>7. NotDestroying(q) => NotDestroying(Tail(q)) /\ Head(q).name # "connectDestroyed"
  BY <1>4, <1>5, <1>6 DEF NotDestroying
<1>8. ASSUME NEW h, Destroying(q, b, h, s)
      PROVE  IF Head(q).name = "connectDestroyed" THEN NotDestroying(Tail(q))
                                                  ELSE Destroying(Tail(q), b - 1, h, s)
  <2>1. PICK k \in 1 .. Len(q) : Destroys(q) = {k} /\ (s => h \/ k <= b)
    BY <1>8 DEF Destroying
  <2>2. CASE k = 1
    <3>1. \A i \in 1 .. Len(Tail(q)) : i + 1 # 1
      BY <1>1, <1>2
    <3> QED BY <1>4, <1>5, <1>6, <2>1, <2>2, <3>1 DEF NotDestroying
  <2>3. CASE k # 1
    <3>1. k - 1 \in 1 .. Len(Tail(q)) /\ (k - 1) + 1 = k /\ (k <= b => k - 1 <= b - 1)
      BY <1>1, <1>2, <2>3
    <3>2. Destroys(Tail(q)) = {k - 1}
      <4>1. \A i \in 1 .. Len(Tail(q)) : i + 1 = k <=> i = k - 1
        BY <1>1, <1>2
      <4> QED BY <1>4, <1>6, <2>1, <3>1, <4>1
    <3> QED BY <1>5, <2>1, <2>3, <3>1, <3>2 DEF Destroying
  <2> QED BY <2>2, <2>3
<1> QED BY <1>2, <1>3, <1>7, <1>8

\* A queue that extends an extension of q extends q.
LEMMA ExtendsTwice ==
    ASSUME NEW p, NEW q, NEW r, NEW s, Extends(p, q, s), Extends(q, r, s)
    PROVE  Extends(p, r, s)
  BY DEF Extends

\* ... and so is appending nothing.
LEMMA ExtendsItself ==
    ASSUME NEW q, NEW s, CarefulQueue(q, s)
    PROVE  Extends(q, q, s)
  BY DEF Extends

\* handleClose of a connection that is up fails no assertion, and takes it down.
LEMMA CloseOnce ==
    ASSUME NEW q, HandleClose(q), downs = 0, inMap, server, baseFunctors = <<>>, Open,
           ~use.single => index = "kAdded"
    PROVE  /\ failed' = failed /\ state' = "kDisconnected" /\ events' = {}
           /\ ups' = ups /\ downs' = 1 /\ server'
           /\ use.single => /\ ~inMap' /\ baseFunctors' = <<>> /\ index' # "kNew"
                            /\ ioFunctors' = Append(q, Functor("connectDestroyed"))
           /\ ~use.single => /\ inMap' /\ Len(baseFunctors') = 1 /\ ioFunctors' = q /\ index' = "kDeleted"
                             /\ baseFunctors' \in Seq({Functor("removeConnectionInLoop")})
<1>1. HandleCloseFails = "none"
  BY DEF HandleCloseFails
<1>2. /\ failed' = failed /\ state' = "kDisconnected" /\ UpdateChannel({}) /\ ups' = ups /\ downs' = 1
      /\ server' = server /\ RemoveConnection(q)
  BY <1>1 DEF HandleClose
<1>3. events' = {} /\ index' # "kNew" /\ (~use.single => index' = "kDeleted")
  BY <1>2 DEF UpdateChannel
<1> HIDE DEF Functor
<1>4. CASE use.single
  BY <1>2, <1>3, <1>4 DEF RemoveConnection, RemoveConnectionInLoop
<1>5. CASE ~use.single
  <2>1. baseFunctors' = Append(<<>>, Functor("removeConnectionInLoop")) /\ ioFunctors' = q /\ inMap' = inMap
    BY <1>2, <1>5 DEF RemoveConnection
  <2>2. baseFunctors' = <<Functor("removeConnectionInLoop")>>
    BY <2>1
  <2> QED BY <1>2, <1>3, <1>5, <2>1, <2>2
<1> QED BY <1>4, <1>5

\* So it is when an event of the channel or, with two loops, a functor closes it.
LEMMA CloseKeepsLife ==
    ASSUME Life, NEW q, CarefulQueue(q, use.single), NotDestroying(q), HandleClose(q), ups = 1, downs = 0,
           UNCHANGED <<use, userPc, delayTimers, handling>>,
           revents' \cap {"HUP", "IN"} = {}, ~handling => revents' = {}, use.single => handling,
           batch' > 0 => batch > 0
    PROVE  Life'
<1> DEFINE s == use.single
<1>1. Staying /\ CarefulCalls /\ failed = "none"
  BY DEF Life, Leaving
<1>2. /\ CarefulQueue(q, s) /\ NotDestroying(q) /\ inMap /\ server /\ baseFunctors = <<>> /\ Open
      /\ ~s => index = "kAdded"
  BY <1>1 DEF Staying
<1>3. /\ failed' = failed /\ state' = "kDisconnected" /\ events' = {}
      /\ ups' = ups /\ downs' = 1 /\ server'
      /\ s => /\ ~inMap' /\ baseFunctors' = <<>> /\ index' # "kNew"
              /\ ioFunctors' = Append(q, Functor("connectDestroyed"))
      /\ ~s => /\ inMap' /\ Len(baseFunctors') = 1 /\ ioFunctors' = q /\ index' = "kDeleted"
               /\ baseFunctors' \in Seq({Functor("removeConnectionInLoop")})
  <2> HIDE DEF HandleClose, Functor
  <2> QED BY <1>2, CloseOnce
<1>4. s => /\ CarefulQueue(Append(q, Functor("connectDestroyed")), s)
           /\ Destroying(Append(q, Functor("connectDestroyed")), batch', handling', s)
  BY <1>2, DestroyingAppend, Zenon
<1>5. CarefulCalls'
  <2> HIDE DEF CarefulQueue, Functor
  <2> QED BY <1>1, <1>2, <1>3, <1>4, Zenon DEF CarefulCalls
<1>6. s => InThePoller'
  <2> HIDE DEF Destroying, Functor
  <2> QED BY <1>3, <1>4, Zenon DEF InThePoller
<1>7. ~s => InTheMap'
  <2> HIDE DEF NotDestroying, Functor
  <2> QED BY <1>2, <1>3 DEF InTheMap
<1>8. Leaving'
  <2> HIDE DEF InThePoller, InTheMap, OutOfBoth
  <2> QED BY <1>3, <1>6, <1>7 DEF Leaving
<1> HIDE DEF CarefulCalls, Leaving, Staying
<1> QED BY <1>1, <1>3, <1>5, <1>8 DEF Life

\* The stage stays the same in a step that neither closes the connection nor runs what
\* takes it out, and that changes the channel and state_ only while the connection is up.
LEMMA StageStays ==
    ASSUME Life, CarefulCalls', UNCHANGED <<inMap, server, baseFunctors, ups, downs, failed, use, handling>>,
           revents' \subseteq revents, batch' > 0 => batch > 0,
           NotDestroying(ioFunctors) => NotDestroying(ioFunctors'),
           Destroying(ioFunctors, batch, handling, use.single)
              => Destroying(ioFunctors', batch', handling, use.single),
           \/ UNCHANGED <<state, events, index>>
           \/ /\ ups = 1 /\ downs = 0 /\ state' \in {"kConnected", "kDisconnecting"}
              /\ use.single => state' = "kConnected"
              /\ ~use.single => "read" \in events' /\ index' = "kAdded"
    PROVE  Life'
<1> HIDE DEF CarefulCalls, NotDestroying, Destroying
<1>1. failed' = "none" /\ (~handling' => revents' = {}) /\ (batch' > 0 => ~handling')
  BY DEF Life
<1>2. CASE Staying
  <2>1. /\ downs' = 0 /\ inMap' /\ server' /\ baseFunctors' = <<>> /\ NotDestroying(ioFunctors')
    BY <1>2 DEF Staying
  <2>2. /\ ups' = 1 => Open'
        /\ ups' = 1 /\ use'.single => state' = "kConnected"
        /\ ups' = 1 /\ ~use'.single => "read" \in events' /\ index' = "kAdded"
    BY <1>2 DEF Staying, Open
  <2>3. Staying'
    <3> HIDE DEF Open
    <3> QED BY <2>1, <2>2 DEF Staying
  <2> QED BY <1>1, <2>3 DEF Life
<1>3. CASE Leaving
  <2>1. UNCHANGED <<state, events, index>>
    BY <1>3 DEF Leaving
  <2>2. InTheMap => InTheMap'
    BY <2>1 DEF InTheMap
  <2>3. InThePoller => InThePoller'
    BY <2>1 DEF InThePoller
  <2>4. OutOfBoth => OutOfBoth'
    BY <2>1 DEF OutOfBoth
  <2>5. Leaving'
    <3> HIDE DEF InTheMap, InThePoller, OutOfBoth
    <3> QED BY <1>3, <2>1, <2>2, <2>3, <2>4 DEF Leaving
  <2> QED BY <1>1, <2>5 DEF Life
<1> QED BY <1>2, <1>3 DEF Life

\* Such a step outside of the functors of the io loop.
LEMMA StepKeepsLife ==
    ASSUME Life, UNCHANGED <<inMap, server, baseFunctors, ups, downs, failed, use, handling, batch>>,
           revents' \subseteq revents,
           Extends(ioFunctors, ioFunctors', use.single),
           \A u \in Users : userPc'[u] \in {Idle, <<"send", "queue">>},
           use.single => delayTimers' = 0,
           \/ UNCHANGED <<state, events, index>>
           \/ /\ ups = 1 /\ downs = 0 /\ state' \in {"kConnected", "kDisconnecting"}
              /\ use.single => state' = "kConnected"
              /\ ~use.single => "read" \in events' /\ index' = "kAdded"
    PROVE  Life'
<1>1. CarefulCalls'
  BY Zenon DEF CarefulCalls, Extends
<1>2. /\ NotDestroying(ioFunctors) => NotDestroying(ioFunctors')
      /\ Destroying(ioFunctors, batch, handling, use.single)
            => Destroying(ioFunctors', batch', handling, use.single)
  <2> HIDE DEF NotDestroying, Destroying
  <2> QED BY Zenon DEF Extends
<1> HIDE DEF NotDestroying, Destroying, Life, CarefulCalls
<1> QED BY <1>1, <1>2, StageStays, Zenon

\* What a functor of the io loop finds.
LEMMA FunctorTaken ==
    ASSUME Life, OutputInv, NEW name, NextFunctor(name)
    PROVE  /\ CarefulQueue(Tail(ioFunctors), use.single)
           /\ name = Head(ioFunctors).name /\ Head(ioFunctors) \in Functors /\ CarefulName(name, use.single)
           /\ batch' = batch - 1 /\ batch \in Nat /\ ~handling /\ revents = {}
           /\ UNCHANGED <<handling, revents, use, userPc>>
           /\ NotDestroying(ioFunctors) => NotDestroying(Tail(ioFunctors)) /\ name # "connectDestroyed"
           /\ Destroying(ioFunctors, batch, handling, use.single) =>
                IF name = "connectDestroyed"
                THEN NotDestroying(Tail(ioFunctors))
                ELSE Destroying(Tail(ioFunctors), batch', handling, use.single)
<1>1. /\ CarefulQueue(ioFunctors, use.single) /\ name = Head(ioFunctors).name /\ batch' = batch - 1
      /\ ~handling /\ revents = {} /\ UNCHANGED <<handling, revents, use, userPc>>
  BY DEF Life, CarefulCalls, NextFunctor, userVars
<1>2. batch \in Nat /\ 0 < batch /\ batch <= Len(ioFunctors)
  <2>1. Len(ioFunctors) \in Nat /\ batch \in 0 .. Len(ioFunctors)
    BY LenProperties DEF OutputInv, QueueInv
  <2> QED BY <2>1 DEF NextFunctor
<1> HIDE DEF CarefulQueue, NotDestroying, Destroying, Functors, CarefulName, Life, OutputInv, NextFunctor
<1> QED BY <1>1, <1>2, DestroyingTail

\* A functor that neither closes the connection nor is connectDestroyed.
LEMMA FunctorKeepsLife ==
    ASSUME Life, OutputInv, NEW name, NextFunctor(name), name # "connectDestroyed",
           UNCHANGED <<inMap, server, baseFunctors, ups, downs, failed, delayTimers>>,
           Extends(Tail(ioFunctors), ioFunctors', use.single),
           \/ UNCHANGED <<state, events, index>>
           \/ /\ ups = 1 /\ downs = 0 /\ state' \in {"kConnected", "kDisconnecting"}
              /\ use.single => state' = "kConnected"
              /\ ~use.single => "read" \in events' /\ index' = "kAdded"
    PROVE  Life'
<1>1. /\ batch' = batch - 1 /\ batch \in Nat /\ UNCHANGED <<handling, revents, use, userPc>>
      /\ NotDestroying(ioFunctors) => NotDestroying(Tail(ioFunctors))
      /\ Destroying(ioFunctors, batch, handling, use.single) =>
           Destroying(Tail(ioFunctors), batch', handling, use.single)
  <2> HIDE DEF CarefulQueue, NotDestroying, Destroying, Functors, CarefulName, Life, OutputInv, NextFunctor
  <2> QED BY FunctorTaken
<1>2. /\ NotDestroying(ioFunctors) => NotDestroying(ioFunctors')
      /\ Destroying(ioFunctors, batch, handling, use.single)
            => Destroying(ioFunctors', batch', handling, use.single)
      /\ CarefulQueue(ioFunctors', use.single)
  <2> HIDE DEF NotDestroying, Destroying, CarefulQueue
  <2> QED BY <1>1 DEF Extends
<1>3. CarefulCalls'
  <2> HIDE DEF CarefulQueue
  <2> QED BY <1>1, <1>2, Zenon DEF CarefulCalls, Life
<1> HIDE DEF NotDestroying, Destroying, Life, CarefulCalls, OutputInv, NextFunctor
<1> QED BY <1>1, <1>2, <1>3, StageStays, SMTT(20)

\* Callbacks of the user do not come between a connection and its connectDestroyed.
LEMMA QueuedExtends ==
    ASSUME NEW q, NEW s, CarefulQueue(q, s), NEW c \in {"writeComplete", "highWaterMark"}
    PROVE  Extends(q, Queued(q, c), s)
<1>1. Functor(c) \in Functors /\ CarefulName(Functor(c).name, s) /\ Functor(c).name # "connectDestroyed"
  BY DEF Functor, Functors, Names, CarefulName
<1>2. Extends(q, Append(q, Functor(c)), s)
  BY <1>1, ExtendsAppend
<1>3. Extends(q, q, s)
  BY ExtendsItself
<1> HIDE DEF Extends, Functor
<1> QED BY <1>2, <1>3 DEF Queued

\* sendInLoop does nothing to a connection that is down, and watches one that is up.
LEMMA SendExtends ==
    ASSUME NEW q, NEW len, CarefulQueue(q, use.single), SendInLoop(len, q)
    PROVE  /\ Extends(q, ioFunctors', use.single)
           /\ UNCHANGED <<state, inMap, server, baseFunctors, ups, downs, failed>>
           /\ \/ UNCHANGED <<events, index>>
              \/ state # "kDisconnected" /\ events' = events \cup {"write"} /\ index' = "kAdded"
<1> DEFINE s == use.single
<1>1. UNCHANGED <<state, inMap, server, baseFunctors, ups, downs, failed>>
  BY DEF SendInLoop, serverVars, history
<1>2. Extends(q, q, s)
  BY ExtendsItself
<1>3. ASSUME NEW r, Extends(q, r, s), NEW k, KeepRemaining(k, r)
      PROVE  /\ Extends(q, ioFunctors', s)
             /\ UNCHANGED <<events, index>> \/ (events' = events \cup {"write"} /\ index' = "kAdded")
  <2>1. Extends(r, Queued(r, "highWaterMark"), s)
    <3>1. CarefulQueue(r, s)
      BY <1>3 DEF Extends
    <3> QED BY <3>1, QueuedExtends
  <2>2. Extends(q, Queued(r, "highWaterMark"), s)
    <3> HIDE DEF Extends
    <3> QED BY <1>3, <2>1, ExtendsTwice
  <2>3. Extends(q, ioFunctors', s)
    <3> HIDE DEF Extends, Queued
    <3> QED BY <1>3, <2>2 DEF KeepRemaining
  <2>4. UNCHANGED <<events, index>> \/ (events' = events \cup {"write"} /\ index' = "kAdded")
    BY <1>3 DEF KeepRemaining, UpdateChannel
  <2> QED BY <2>3, <2>4
<1>4. CASE ioFunctors' = q /\ UNCHANGED <<events, index>>
  <2> HIDE DEF Extends
  <2> QED BY <1>1, <1>2, <1>4
<1>5. CASE state # "kDisconnected" /\ KeepRemaining(len, q)
  <2> HIDE DEF Extends, KeepRemaining
  <2> QED BY <1>1, <1>2, <1>3, <1>5
<1>6. CASE /\ state # "kDisconnected"
           /\ \E nwrote \in 0 .. len :
                KeepRemaining(len - nwrote, IF nwrote = len THEN Queued(q, "writeComplete") ELSE q)
  <2>1. PICK nwrote \in 0 .. len :
                KeepRemaining(len - nwrote, IF nwrote = len THEN Queued(q, "writeComplete") ELSE q)
    BY <1>6
  <2>2. Extends(q, Queued(q, "writeComplete"), s)
    BY QueuedExtends
  <2>3. Extends(q, IF nwrote = len THEN Queued(q, "writeComplete") ELSE q, s)
    <3> HIDE DEF Extends, Queued
    <3> QED BY <1>2, <2>2
  <2> HIDE DEF Extends, KeepRemaining, Queued
  <2> QED BY <1>1, <1>3, <1>6, <2>1, <2>3
<1> HIDE DEF Extends, KeepRemaining, Queued
<1> QED BY <1>4, <1>5, <1>6 DEF SendInLoop

\* The handlers of events keep Life.
LEMMA EventsKeepLife ==
    ASSUME Life, OutputInv, CloseEvent \/ ErrorEvent \/ ReadEvent \/ WriteEvent
    PROVE  Life'
<1> DEFINE s == use.single
<1>1. /\ UNCHANGED <<handling, batch, delayTimers, use, userPc>> /\ revents' \subseteq revents /\ handling
  BY DEF CloseEvent, ErrorEvent, ReadEvent, WriteEvent, InHandler, userVars, Life
<1>2. /\ CarefulQueue(ioFunctors, s) /\ Extends(ioFunctors, ioFunctors, s)
      /\ \A u \in Users : userPc'[u] \in {Idle, <<"send", "queue">>}
      /\ s => delayTimers' = 0
      /\ ups = 1
  <2>1. ups = 1
    BY DEF OutputInv, NotYetUp, CloseEvent, ErrorEvent, ReadEvent, WriteEvent, InHandler
  <2>2. CarefulQueue(ioFunctors, s)
    BY DEF Life, CarefulCalls
  <2>3. Extends(ioFunctors, ioFunctors, s)
    BY <2>2, ExtendsItself
  <2> HIDE DEF CarefulQueue, Extends
  <2> QED BY <1>1, <2>1, <2>2, <2>3 DEF Life, CarefulCalls
<1>3. ASSUME UNCHANGED closeVars
      PROVE  Life'
  <2>1. UNCHANGED <<state, events, index, inMap, server, baseFunctors, ioFunctors, ups, downs, failed>>
    BY <1>3 DEF closeVars, connVars, serverVars, history
  <2> HIDE DEF Life, Extends, CarefulQueue
  <2> QED BY <1>1, <1>2, <2>1, StepKeepsLife, Zenon
<1>4. ASSUME HandleClose(ioFunctors), revents \cap {"HUP", "IN"} # {}, revents' \cap {"HUP", "IN"} = {}
      PROVE  Life'
  <2>1. Staying
    BY <1>4 DEF Life, Leaving
  <2>2. downs = 0 /\ NotDestroying(ioFunctors)
    BY <2>1 DEF Staying
  <2> HIDE DEF Life, CarefulQueue, NotDestroying, HandleClose
  <2> QED BY <1>1, <1>2, <1>4, <2>2, CloseKeepsLife
<1>5. CASE CloseEvent
  <2>1. "IN" \notin revents => revents \cap {"HUP", "IN"} # {} /\ revents' \cap {"HUP", "IN"} = {}
    BY <1>5 DEF CloseEvent, InHandler
  <2> HIDE DEF Life, HandleClose
  <2> QED BY <1>3, <1>4, <1>5, <2>1 DEF CloseEvent
<1>6. CASE ErrorEvent
  BY <1>3, <1>6 DEF ErrorEvent
<1>7. CASE ReadEvent
  <2>1. revents \cap {"HUP", "IN"} # {} /\ revents' \cap {"HUP", "IN"} = {}
    BY <1>7 DEF ReadEvent, InHandler
  <2> HIDE DEF Life, HandleClose
  <2> QED BY <1>3, <1>4, <1>7, <2>1 DEF ReadEvent
<1>8. CASE WriteEvent
  <2>1. UNCHANGED <<state, inMap, server, baseFunctors, ups, downs, failed>>
    BY <1>8 DEF WriteEvent, serverVars, history
  <2>2. CASE UNCHANGED <<events, index, ioFunctors>>
    <3> HIDE DEF Life, Extends, CarefulQueue
    <3> QED BY <1>1, <1>2, <2>1, <2>2, StepKeepsLife
  <2>3. ASSUME Writing, NEW n \in 1 .. output, HandleWrite(n)
        PROVE  Life'
    <3>1. Extends(ioFunctors, Queued(ioFunctors, "writeComplete"), s)
      BY <1>2, QueuedExtends
    <3>2. Extends(ioFunctors, ioFunctors', s)
      <4> HIDE DEF Extends, Queued
      <4> QED BY <1>2, <2>3, <3>1 DEF HandleWrite
    <3>3. Staying
      BY <2>3 DEF Life, Leaving, Writing
    <3>4. ~s => "read" \in events' /\ index' = "kAdded"
      <4>1. ~s => "read" \in events /\ index = "kAdded"
        BY <1>2, <3>3 DEF Staying
      <4>2. \/ UNCHANGED <<events, index>>
            \/ UpdateChannel(events \ {"write"})
        BY <2>3 DEF HandleWrite
      <4> QED BY <4>1, <4>2 DEF UpdateChannel
    <3>5. downs = 0 /\ state' \in {"kConnected", "kDisconnecting"} /\ (s => state' = "kConnected")
      BY <1>2, <2>1, <3>3 DEF Staying, Open
    <3> HIDE DEF Life, Extends, CarefulQueue
    <3> QED BY <1>1, <1>2, <2>1, <3>2, <3>4, <3>5, StepKeepsLife
  <2> HIDE DEF Life, HandleWrite
  <2> QED BY <1>8, <2>2, <2>3 DEF WriteEvent
<1> QED BY <1>5, <1>6, <1>7, <1>8

\* The functors of the io loop keep Life.
LEMMA FunctorsKeepLife ==
    ASSUME Life, OutputInv, Careful(use),
           \/ RunConnectEstablished \/ RunConnectDestroyed \/ RunSendInLoop \/ RunShutdownInLoop
           \/ RunReadInLoop \/ RunForceCloseInLoop \/ RunOther
    PROVE  Life'
<1> DEFINE s == use.single
<1>1. ASSUME NEW name, NextFunctor(name)
      PROVE  /\ CarefulQueue(Tail(ioFunctors), s) /\ Extends(Tail(ioFunctors), Tail(ioFunctors), s)
             /\ name = Head(ioFunctors).name /\ CarefulName(name, s)
             /\ batch' = batch - 1 /\ batch \in Nat /\ ~handling /\ revents = {}
             /\ UNCHANGED <<handling, revents, use, userPc>>
             /\ NotDestroying(ioFunctors) => NotDestroying(Tail(ioFunctors)) /\ name # "connectDestroyed"
             /\ Destroying(ioFunctors, batch, handling, s) /\ name = "connectDestroyed"
                   => NotDestroying(Tail(ioFunctors))
             /\ name # "connectEstablished" => ups = 1
             /\ name = "connectEstablished" => ups = 0
  <2>1. /\ CarefulQueue(Tail(ioFunctors), s)
        /\ name = Head(ioFunctors).name /\ CarefulName(name, s)
        /\ batch' = batch - 1 /\ batch \in Nat /\ ~handling /\ revents = {}
        /\ UNCHANGED <<handling, revents, use, userPc>>
        /\ NotDestroying(ioFunctors) => NotDestroying(Tail(ioFunctors)) /\ name # "connectDestroyed"
        /\ Destroying(ioFunctors, batch, handling, s) /\ name = "connectDestroyed"
              => NotDestroying(Tail(ioFunctors))
    <3> HIDE DEF CarefulQueue, NotDestroying, Destroying, Functors, CarefulName, Life, OutputInv, NextFunctor
    <3> QED BY <1>1, FunctorTaken
  <2>2. Extends(Tail(ioFunctors), Tail(ioFunctors), s)
    BY <2>1, ExtendsItself
  <2>3. name # "connectEstablished" => ups = 1
    <3> HIDE DEF OutputInv, NextFunctor
    <3> QED BY <1>1, Started
  <2>4. name = "connectEstablished" => ups = 0
    <3>1. QueueInv(ioFunctors, ups) /\ Len(ioFunctors) \in Nat /\ Len(ioFunctors) > 0
      <4>1. QueueInv(ioFunctors, ups) /\ Len(ioFunctors) \in Nat /\ batch \in 0 .. Len(ioFunctors)
        BY LenProperties DEF OutputInv, QueueInv
      <4> QED BY <1>1, <4>1 DEF NextFunctor
    <3>2. Head(ioFunctors) = ioFunctors[1]
      BY <3>1, QueueTail
    <3> QED BY <2>1, <3>1, <3>2 DEF QueueInv
  <2> HIDE DEF CarefulQueue, NotDestroying, Destroying, CarefulName, Extends
  <2> QED BY <2>1, <2>2, <2>3, <2>4
<1> HIDE DEF CarefulQueue, NotDestroying, Destroying, Extends, NextFunctor
<1>2. CASE RunConnectEstablished
  <2>1. NextFunctor("connectEstablished")
    BY <1>2 DEF RunConnectEstablished
  <2>2. /\ state' = "kConnected" /\ events' = {"read"} /\ index' = "kAdded" /\ ioFunctors' = Tail(ioFunctors)
        /\ UNCHANGED <<inMap, server, baseFunctors, downs, failed, delayTimers>>
    BY <1>2 DEF RunConnectEstablished, UpdateChannel, serverVars
  <2>3. ups = 0
    BY <1>1, <2>1
  <2>4. Staying
    BY <2>3 DEF Life, Leaving
  <2>5. Staying'
    BY <1>1, <2>1, <2>2, <2>4 DEF Staying, Open
  <2>6. CarefulCalls'
    BY <1>1, <2>1, <2>2, Zenon DEF Life, CarefulCalls
  <2>7. failed' = "none" /\ (~handling' => revents' = {}) /\ (batch' > 0 => ~handling')
    BY <1>1, <2>1, <2>2 DEF Life
  <2> QED BY <2>5, <2>6, <2>7 DEF Life
<1>3. CASE RunConnectDestroyed
  <2>1. NextFunctor("connectDestroyed") /\ delayTimers' = delayTimers
    BY <1>3 DEF RunConnectDestroyed
  <2>2. ~NotDestroying(ioFunctors)
    BY <1>1, <2>1
  <2>3. Leaving /\ InThePoller
    BY <2>2 DEF Life, Staying, Leaving, InTheMap, OutOfBoth
  <2>4. ConnectDestroyedFails = "none"
    BY <2>3 DEF ConnectDestroyedFails, Leaving, InThePoller
  <2>5. ConnectDestroyed /\ ioFunctors' = Tail(ioFunctors) /\ UNCHANGED <<inMap, server, baseFunctors, failed>>
    BY <1>3, <2>4 DEF RunConnectDestroyed, serverVars
  <2>6. events' = {} /\ index' = "kNew" /\ UNCHANGED <<state, downs, ups>>
    BY <2>3, <2>5 DEF ConnectDestroyed, Leaving
  <2>7. OutOfBoth'
    BY <1>1, <2>1, <2>3, <2>5, <2>6 DEF OutOfBoth, InThePoller
  <2>8. Leaving'
    BY <1>1, <2>1, <2>3, <2>5, <2>6, <2>7 DEF Leaving
  <2>9. CarefulCalls'
    BY <1>1, <2>1, <2>5, Zenon DEF Life, CarefulCalls
  <2>10. failed' = "none" /\ (~handling' => revents' = {}) /\ (batch' > 0 => ~handling')
    BY <1>1, <2>1, <2>5 DEF Life
  <2> QED BY <2>8, <2>9, <2>10 DEF Life
<1>4. CASE RunSendInLoop
  <2>1. NextFunctor("sendInLoop") /\ delayTimers' = delayTimers
        /\ SendInLoop(Head(ioFunctors).len, Tail(ioFunctors))
    BY <1>4 DEF RunSendInLoop
  <2>2. /\ Extends(Tail(ioFunctors), ioFunctors', s)
        /\ UNCHANGED <<state, inMap, server, baseFunctors, ups, downs, failed>>
        /\ \/ UNCHANGED <<events, index>>
           \/ state # "kDisconnected" /\ events' = events \cup {"write"} /\ index' = "kAdded"
    <3> HIDE DEF SendInLoop
    <3> QED BY <1>1, <2>1, SendExtends
  <2>3. \/ UNCHANGED <<state, events, index>>
        \/ /\ ups = 1 /\ downs = 0 /\ state' \in {"kConnected", "kDisconnecting"}
           /\ use.single => state' = "kConnected"
           /\ ~use.single => "read" \in events' /\ index' = "kAdded"
    BY <1>1, <2>1, <2>2 DEF Life, Staying, Leaving, Open
  <2> HIDE DEF Life, OutputInv
  <2> QED BY <2>1, <2>2, <2>3, FunctorKeepsLife
<1>5. CASE RunForceCloseInLoop
  <2>1. NextFunctor("forceCloseInLoop") /\ delayTimers' = delayTimers
    BY <1>5 DEF RunForceCloseInLoop
  <2>2. ~s /\ ups = 1
    BY <1>1, <2>1 DEF CarefulName
  <2>3. CASE Open
    <3>1. HandleClose(Tail(ioFunctors))
      BY <1>5, <2>3 DEF RunForceCloseInLoop
    <3>2. downs = 0 /\ NotDestroying(ioFunctors)
      BY <2>3 DEF Life, Leaving, Staying, Open
    <3>3. /\ CarefulQueue(Tail(ioFunctors), s) /\ NotDestroying(Tail(ioFunctors))
          /\ UNCHANGED <<use, userPc, delayTimers, handling>> /\ revents' = {}
          /\ (batch' > 0 => batch > 0)
      BY <1>1, <2>1, <3>2
    <3> HIDE DEF Life, HandleClose
    <3> QED BY <2>2, <3>1, <3>2, <3>3, CloseKeepsLife
  <2>4. CASE ~Open
    <3>1. /\ UNCHANGED <<state, events, index, inMap, server, baseFunctors, ups, downs, failed>>
          /\ ioFunctors' = Tail(ioFunctors)
      BY <1>5, <2>4 DEF RunForceCloseInLoop, connVars, serverVars, history
    <3>2. Extends(Tail(ioFunctors), ioFunctors', s)
      BY <1>1, <2>1, <3>1
    <3> HIDE DEF Life, OutputInv
    <3> QED BY <2>1, <3>1, <3>2, FunctorKeepsLife
  <2> QED BY <2>3, <2>4
<1>6. ~RunShutdownInLoop /\ ~RunReadInLoop
  <2>1. ~NextFunctor("shutdownInLoop") /\ ~NextFunctor("startReadInLoop") /\ ~NextFunctor("stopReadInLoop")
    BY <1>1 DEF CarefulName
  <2> QED BY <2>1 DEF RunShutdownInLoop, RunReadInLoop
<1>7. CASE RunOther
  <2>1. /\ NextFunctor("writeComplete") \/ NextFunctor("highWaterMark")
        /\ UNCHANGED delayTimers
    BY <1>1, <1>7 DEF RunOther, CarefulName
  <2>2. /\ UNCHANGED <<state, events, index, inMap, server, baseFunctors, ups, downs, failed>>
        /\ ioFunctors' = Tail(ioFunctors)
    BY <1>7 DEF RunOther, connVars, serverVars, history
  <2>3. Extends(Tail(ioFunctors), ioFunctors', s)
    BY <1>1, <2>1, <2>2
  <2> HIDE DEF Life, OutputInv
  <2> QED BY <2>1, <2>2, <2>3, FunctorKeepsLife
<1> QED BY <1>2, <1>3, <1>4, <1>5, <1>6, <1>7

\* The calls of the user keep Life.
LEMMA CallsKeepLife ==
    ASSUME Life, OutputInv, Careful(use),
           \/ LoopSend \/ LoopShutdown \/ LoopForceClose \/ LoopForceCloseWithDelay \/ LoopRead
           \/ \E u \in Users : ThreadCall(u) \/ ThreadSetState(u) \/ ThreadQueue(u)
    PROVE  Life'
<1> DEFINE s == use.single
<1>1. /\ CarefulQueue(ioFunctors, s) /\ Extends(ioFunctors, ioFunctors, s)
      /\ \A u \in Users : userPc[u] \in {Idle, <<"send", "queue">>}
      /\ s => delayTimers = 0
  <2>1. CarefulQueue(ioFunctors, s)
    BY DEF Life, CarefulCalls
  <2>2. Extends(ioFunctors, ioFunctors, s)
    BY <2>1, ExtendsItself
  <2> HIDE DEF CarefulQueue, Extends
  <2> QED BY <2>1, <2>2 DEF Life, CarefulCalls
<1>2. state \in {"kConnected", "kDisconnecting"} /\ ups = 1
         => downs = 0 /\ (s => state = "kConnected") /\ (~s => "read" \in events /\ index = "kAdded")
  BY DEF Life, Staying, Leaving
<1>3. Extends(ioFunctors, Append(ioFunctors, Functor("forceCloseInLoop")), s) \/ s
  <2>1. ~s => /\ Functor("forceCloseInLoop") \in Functors /\ CarefulName(Functor("forceCloseInLoop").name, s)
              /\ Functor("forceCloseInLoop").name # "connectDestroyed"
    BY DEF Functor, Functors, Names, CarefulName
  <2> QED BY <1>1, <2>1, ExtendsAppend
<1>4. ASSUME NEW f \in FunctorsOf("send")
      PROVE  Extends(ioFunctors, Append(ioFunctors, f), s)
  <2>1. f \in Functors /\ CarefulName(f.name, s) /\ f.name # "connectDestroyed"
    BY <1>4 DEF FunctorsOf, Functors, CarefulName
  <2> QED BY <1>1, <2>1, ExtendsAppend, Zenon
<1> HIDE DEF CarefulQueue, Extends, Functor
<1>5. CASE LoopSend
  <2>1. PICK len \in 1 .. MaxMessage : SendInLoop(len, ioFunctors)
    BY <1>5 DEF LoopSend
  <2>2. /\ Extends(ioFunctors, ioFunctors', s)
        /\ UNCHANGED <<state, inMap, server, baseFunctors, ups, downs, failed>>
        /\ \/ UNCHANGED <<events, index>>
           \/ state # "kDisconnected" /\ events' = events \cup {"write"} /\ index' = "kAdded"
    <3> HIDE DEF SendInLoop
    <3> QED BY <1>1, <2>1, SendExtends, Zenon
  <2>3. ups = 1 /\ state = "kConnected" /\ UNCHANGED <<handling, batch, revents, use, userPc, delayTimers>>
    BY <1>5 DEF LoopSend, Call, Passes, loopVars
  <2>4. \/ UNCHANGED <<state, events, index>>
        \/ /\ ups = 1 /\ downs = 0 /\ state' \in {"kConnected", "kDisconnecting"}
           /\ use.single => state' = "kConnected"
           /\ ~use.single => "read" \in events' /\ index' = "kAdded"
    BY <1>2, <2>2, <2>3
  <2> HIDE DEF Life
  <2> QED BY <1>1, <2>2, <2>3, <2>4, StepKeepsLife, Zenon
<1>6. CASE LoopShutdown
  <2>1. /\ ups = 1 /\ state = "kConnected" /\ state' = "kDisconnecting" /\ ~s
        /\ UNCHANGED <<events, index, inMap, server, baseFunctors, ioFunctors, ups, downs, failed, delayTimers,
                       userPc, use, handling, batch, revents>>
    BY <1>6 DEF LoopShutdown, Call, Passes, loopVars, serverVars, history, Careful
  <2>2. downs = 0 /\ "read" \in events' /\ index' = "kAdded"
    BY <1>2, <2>1
  <2> HIDE DEF Life
  <2> QED BY <1>1, <2>1, <2>2, StepKeepsLife
<1>7. CASE LoopForceClose
  <2>1. /\ ups = 1 /\ state \in {"kConnected", "kDisconnecting"} /\ state' = "kDisconnecting" /\ ~s
        /\ ioFunctors' = Append(ioFunctors, Functor("forceCloseInLoop"))
        /\ UNCHANGED <<events, index, inMap, server, baseFunctors, ups, downs, failed, delayTimers,
                       userPc, use, handling, batch, revents>>
    BY <1>7 DEF LoopForceClose, ForceClose, Open, Call, Passes, loopVars, serverVars, history, Careful
  <2>2. downs = 0 /\ "read" \in events' /\ index' = "kAdded"
    BY <1>2, <2>1
  <2> HIDE DEF Life
  <2> QED BY <1>1, <1>3, <2>1, <2>2, StepKeepsLife, Zenon
<1>8. CASE LoopForceCloseWithDelay
  <2>1. /\ ups = 1 /\ state \in {"kConnected", "kDisconnecting"} /\ state' = "kDisconnecting" /\ ~s
        /\ UNCHANGED <<events, index, inMap, server, baseFunctors, ioFunctors, ups, downs, failed,
                       userPc, use, handling, batch, revents>>
    BY <1>8 DEF LoopForceCloseWithDelay, Open, Call, Passes, loopVars, serverVars, history, Careful
  <2>2. downs = 0 /\ "read" \in events' /\ index' = "kAdded"
    BY <1>2, <2>1
  <2> HIDE DEF Life
  <2> QED BY <1>1, <2>1, <2>2, StepKeepsLife, Zenon
<1>9. CASE LoopRead
  <2>1. /\ ups = 1 /\ state = "kConnected" /\ s
        /\ UNCHANGED <<state, inMap, server, baseFunctors, ioFunctors, ups, downs, failed, delayTimers,
                       userPc, use, handling, batch, revents>>
    BY <1>9 DEF LoopRead, Call, loopVars, serverVars, history, Careful
  <2>2. downs = 0
    BY <1>2, <2>1
  <2> HIDE DEF Life
  <2> QED BY <1>1, <2>1, <2>2, StepKeepsLife, Zenon
<1>10. ASSUME NEW u \in Users, ThreadCall(u) \/ ThreadQueue(u)
       PROVE  Life'
  <2>1. UNCHANGED <<state, events, index, inMap, server, baseFunctors, ups, downs, failed, delayTimers,
                    use, handling, batch, revents>>
    BY <1>10, Zenon DEF ThreadCall, ThreadQueue, Call, loopVars, closeVars, connVars, serverVars, history
  <2>2. userPc \in [Users -> {Idle} \cup (Ops \X {"set", "queue"})]
    BY DEF OutputInv, PcInv
  <2>3. CASE ThreadCall(u)
    <3>1. PICK op \in use.threadOps :
             userPc' = [userPc EXCEPT ![u] =
                <<op, IF op \in {"shutdown", "forceClose", "forceCloseWithDelay"} THEN "set" ELSE "queue">>]
      BY <2>3, Zenon DEF ThreadCall
    <3>2. op = "send"
      BY <3>1 DEF Careful
    <3>3. userPc' = [userPc EXCEPT ![u] = <<"send", "queue">>]
      BY <3>1, <3>2
    <3>4. \A v \in Users : userPc'[v] \in {Idle, <<"send", "queue">>}
      BY <1>1, <2>2, <3>3
    <3>5. ioFunctors' = ioFunctors
      BY <2>3, Zenon DEF ThreadCall, closeVars
    <3> HIDE DEF Life
    <3> QED BY <1>1, <2>1, <3>4, <3>5, StepKeepsLife, Zenon
  <2>4. CASE ThreadQueue(u)
    <3>1. userPc[u][2] = "queue" /\ userPc' = [userPc EXCEPT ![u] = Idle]
      BY <2>4 DEF ThreadQueue
    <3>2. userPc[u] = <<"send", "queue">>
      BY <1>1, <3>1 DEF Idle
    <3>3. PICK f \in FunctorsOf("send") : ioFunctors' = Append(ioFunctors, f)
      BY <2>4, <3>2 DEF ThreadQueue
    <3>4. Extends(ioFunctors, ioFunctors', s)
      BY <1>4, <3>3
    <3>5. \A v \in Users : userPc'[v] \in {Idle, <<"send", "queue">>}
      BY <1>1, <2>2, <3>1
    <3> HIDE DEF Life
    <3> QED BY <1>1, <2>1, <3>4, <3>5, StepKeepsLife, Zenon
  <2> QED BY <1>10, <2>3, <2>4
<1>11. ASSUME NEW u \in Users PROVE ~ThreadSetState(u)
  <2>1. userPc[u] \in {Idle, <<"send", "queue">>}
    BY <1>1
  <2>2. userPc[u][2] # "set"
    BY <2>1 DEF Idle
  <2> QED BY <2>2 DEF ThreadSetState
<1> QED BY <1>5, <1>6, <1>7, <1>8, <1>9, <1>10, <1>11

\* What connectDestroyed's being on its way says when the loop polls or takes its functors.
LEMMA DestroyingLater ==
    ASSUME NEW q, NEW b, NEW h, NEW s, CarefulQueue(q, s), Destroying(q, b, h, s)
    PROVE  /\ Destroying(q, Len(q), FALSE, s)
           /\ ~s => \A c, g : Destroying(q, c, g, s)
<1>1. Len(q) \in Nat
  BY LenProperties DEF CarefulQueue
<1>2. PICK k \in 1 .. Len(q) : Destroys(q) = {k} /\ (s => h \/ k <= b)
  BY DEF Destroying
<1> HIDE DEF Destroys
<1> QED BY <1>1, <1>2 DEF Destroying

\* The loops' other steps, the server and the peer keep Life.
LEMMA OthersKeepLife ==
    ASSUME Life, OutputInv, Careful(use),
           Poll \/ SwapFunctors \/ DelayTimer \/ RunRemoveConnectionInLoop \/ ServerDestroyed \/ Peer
    PROVE  Life'
<1> DEFINE s == use.single
<1>1. /\ CarefulQueue(ioFunctors, s) /\ Extends(ioFunctors, ioFunctors, s)
      /\ \A u \in Users : userPc[u] \in {Idle, <<"send", "queue">>}
      /\ s => delayTimers = 0
      /\ failed = "none"
  <2>1. CarefulQueue(ioFunctors, s)
    BY Zenon DEF Life, CarefulCalls
  <2>2. Extends(ioFunctors, ioFunctors, s)
    BY <2>1, ExtendsItself
  <2> HIDE DEF CarefulQueue, Extends
  <2> QED BY <2>1, <2>2, Zenon DEF Life, CarefulCalls
<1>2. CASE Poll \/ SwapFunctors
  <2>1. UNCHANGED <<state, events, index, inMap, server, baseFunctors, ioFunctors, ups, downs, failed, delayTimers,
                    use, userPc>>
    BY <1>2 DEF Poll, SwapFunctors, closeVars, connVars, serverVars, history, userVars
  <2>2. CarefulCalls'
    <3> HIDE DEF CarefulQueue
    <3> QED BY <1>1, <2>1, Zenon DEF CarefulCalls
  <2>3. (~handling' => revents' = {}) /\ (batch' > 0 => ~handling') /\ failed' = "none"
    <3>1. failed' = "none"
      BY <1>1, <2>1, Zenon
    <3>2. CASE Poll
      <4>1. handling' /\ batch' = 0
        BY <3>2 DEF Poll
      <4> QED BY <3>1, <4>1
    <3>3. CASE SwapFunctors
      <4>1. ~handling' /\ revents' = {}
        BY <3>3 DEF SwapFunctors
      <4> QED BY <3>1, <4>1
    <3> QED BY <1>2, <3>2, <3>3
  <2>4. Staying => Staying'
    <3> HIDE DEF NotDestroying
    <3> QED BY <2>1 DEF Staying, Open
  <2>5. Leaving => Leaving'
    <3> SUFFICES ASSUME Leaving PROVE Leaving'
      OBVIOUS
    <3> HIDE DEF NotDestroying, Destroying, CarefulQueue
    <3>1. CASE InTheMap
      <4>1. InTheMap'
        BY <2>1, <3>1 DEF InTheMap
      <4>2. revents' = {}
        BY <1>2, <3>1, Zenon DEF Poll, SwapFunctors, Reported, InTheMap, Leaving, Writing
      <4> QED BY <2>1, <4>1, <4>2 DEF Leaving
    <3>2. CASE InThePoller
      <4>1. Destroying(ioFunctors, batch, handling, s)
        BY <3>2 DEF InThePoller
      <4>2. /\ Destroying(ioFunctors, Len(ioFunctors), FALSE, s)
            /\ ~s => \A c, g : Destroying(ioFunctors, c, g, s)
            /\ s /\ batch = 0 => handling
        <5> HIDE DEF s
        <5>1. Destroying(ioFunctors, Len(ioFunctors), FALSE, s)
          BY <1>1, <4>1, DestroyingLater, Zenon
        <5>2. ~s => \A c, g : Destroying(ioFunctors, c, g, s)
          BY <1>1, <4>1, DestroyingLater, Zenon
        <5>3. s /\ batch = 0 => handling
          <6>1. PICK k \in 1 .. Len(ioFunctors) : s => handling \/ k <= batch
            BY <4>1 DEF Destroying
          <6>2. Len(ioFunctors) \in Nat
            BY <1>1, LenProperties DEF CarefulQueue
          <6>3. ~(k <= 0)
            BY <6>1, <6>2
          <6> QED BY <6>1, <6>3
        <5> QED BY <5>1, <5>2, <5>3, Zenon
      <4>3. CASE Poll
        <5>1. ~s
          BY <4>2, <4>3 DEF Poll
        <5>2. InThePoller'
          BY <2>1, <3>2, <4>2, <5>1 DEF InThePoller
        <5>3. revents' = {}
          BY <3>2, <4>3, <5>1 DEF Poll, Reported, InThePoller, Leaving, Writing
        <5> QED BY <2>1, <5>2, <5>3 DEF Leaving
      <4>4. CASE SwapFunctors
        <5>1. InThePoller'
          BY <2>1, <3>2, <4>2, <4>4, Zenon DEF InThePoller, SwapFunctors
        <5>2. revents' = {}
          BY <4>4 DEF SwapFunctors
        <5> QED BY <2>1, <5>1, <5>2 DEF Leaving
      <4> QED BY <1>2, <4>3, <4>4
    <3>3. CASE OutOfBoth
      <4>1. OutOfBoth'
        BY <2>1, <3>3 DEF OutOfBoth
      <4>2. revents' = {}
        BY <1>2, <3>3 DEF Poll, SwapFunctors, Reported, OutOfBoth, Leaving, Writing
      <4> QED BY <2>1, <4>1, <4>2 DEF Leaving
    <3> QED BY <3>1, <3>2, <3>3 DEF Leaving
  <2> HIDE DEF Staying, Leaving, CarefulCalls
  <2> QED BY <2>2, <2>3, <2>4, <2>5 DEF Life
<1>3. CASE DelayTimer
  <2>1. ~s
    <3>1. delayTimers > 0 /\ (s => delayTimers = 0)
      BY <1>1, <1>3, Zenon DEF DelayTimer
    <3> QED BY <3>1
  <2>2. UNCHANGED <<events, index, inMap, server, baseFunctors, ups, downs, failed, use, userPc, handling, batch,
                    revents>>
    BY <1>3 DEF DelayTimer, ForceClose, loopVars, userVars, serverVars, history
  <2>3. Extends(ioFunctors, Append(ioFunctors, Functor("forceCloseInLoop")), s)
    <3>1. /\ Functor("forceCloseInLoop") \in Functors /\ CarefulName(Functor("forceCloseInLoop").name, s)
          /\ Functor("forceCloseInLoop").name # "connectDestroyed"
      BY <2>1, Zenon DEF Functor, Functors, Names, CarefulName
    <3> QED BY <1>1, <3>1, ExtendsAppend, Zenon
  <2> HIDE DEF Extends, Functor
  <2>4. Extends(ioFunctors, ioFunctors', s)
    BY <1>1, <1>3, <2>3, Zenon DEF DelayTimer, ForceClose
  <2>5. Open => ups = 1
    BY DEF OutputInv, NotYetUp, Open
  <2>6. \/ UNCHANGED <<state, events, index>>
        \/ /\ ups = 1 /\ downs = 0 /\ state' \in {"kConnected", "kDisconnecting"}
           /\ use.single => state' = "kConnected"
           /\ ~use.single => "read" \in events' /\ index' = "kAdded"
    BY <1>3, <2>1, <2>2, <2>5 DEF DelayTimer, ForceClose, Life, Staying, Leaving, Open
  <2> HIDE DEF Life
  <2> QED BY <1>1, <2>1, <2>2, <2>4, <2>6, StepKeepsLife, Zenon
<1>4. CASE RunRemoveConnectionInLoop
  <2>1. Leaving /\ InTheMap
    BY <1>4 DEF RunRemoveConnectionInLoop, Life, Staying, Leaving, InThePoller, OutOfBoth
  <2>2. /\ RemoveConnectionInLoop(Tail(baseFunctors), ioFunctors)
        /\ UNCHANGED <<state, events, index, server, ups, downs, failed, delayTimers, use, userPc, handling, batch,
                       revents>>
    BY <1>4, <2>1 DEF RunRemoveConnectionInLoop, Leaving, InTheMap, connVars, history, loopVars, userVars
  <2>3. Tail(baseFunctors) = <<>>
    <3> DEFINE F == {Functor("removeConnectionInLoop")}
    <3>1. baseFunctors \in Seq(F) /\ Len(baseFunctors) = 1 /\ baseFunctors # <<>>
      BY <1>4, <2>1 DEF InTheMap, RunRemoveConnectionInLoop
    <3> HIDE DEF F
    <3>2. Tail(baseFunctors) \in Seq(F) /\ Len(Tail(baseFunctors)) = Len(baseFunctors) - 1
      BY <3>1, HeadTailProperties
    <3> DEFINE t == Tail(baseFunctors)
    <3>3. t \in Seq(F) /\ Len(t) = 0
      BY <3>1, <3>2
    <3> HIDE DEF t
    <3>4. t = <<>>
      BY <3>3, EmptySeq
    <3> QED BY <3>4 DEF t
  <2>4. /\ CarefulQueue(Append(ioFunctors, Functor("connectDestroyed")), s)
        /\ Destroying(Append(ioFunctors, Functor("connectDestroyed")), batch, handling, s)
    <3>1. NotDestroying(ioFunctors) /\ ~s
      BY <2>1 DEF InTheMap
    <3> QED BY <1>1, <3>1, DestroyingAppend, Zenon
  <2> HIDE DEF CarefulQueue, Destroying, NotDestroying, Functor
  <2>5. InThePoller'
    BY <2>1, <2>2, <2>3, <2>4 DEF InThePoller, InTheMap, RemoveConnectionInLoop
  <2>6. Leaving'
    BY <2>1, <2>2, <2>5 DEF Leaving
  <2>7. CarefulCalls'
    BY <1>1, <2>2, <2>4, Zenon DEF CarefulCalls, RemoveConnectionInLoop
  <2> QED BY <2>2, <2>6, <2>7 DEF Life
<1>5. CASE ServerDestroyed
  <2>1. /\ s /\ ~handling /\ state # "kConnecting" /\ revents = {}
        /\ UNCHANGED <<delayTimers, use, userPc, handling, batch, revents>>
    BY <1>5 DEF ServerDestroyed, Careful, Life, loopVars, userVars
  <2>2. CASE inMap
    <3>1. Staying /\ ups = 1 /\ state = "kConnected"
      BY <2>1, <2>2 DEF Life, Staying, Leaving, InTheMap, InThePoller, OutOfBoth, OutputInv, NotYetUp
    <3>2. ConnectDestroyedFails = "none"
      BY <3>1 DEF ConnectDestroyedFails
    <3>3. /\ ConnectDestroyed /\ ~inMap' /\ ioFunctors' = ioFunctors /\ UNCHANGED <<baseFunctors, failed>>
      BY <1>5, <2>1, <2>2, <3>2 DEF ServerDestroyed
    <3>4. events' = {} /\ index' = "kNew" /\ state' = "kDisconnected" /\ downs' = 1 /\ ups' = 1
      BY <3>1, <3>3 DEF ConnectDestroyed, Staying
    <3> HIDE DEF CarefulQueue, NotDestroying
    <3>5. OutOfBoth'
      BY <3>1, <3>3, <3>4 DEF OutOfBoth, Staying
    <3>6. Leaving'
      BY <2>1, <3>4, <3>5 DEF Leaving
    <3>7. CarefulCalls'
      BY <1>1, <2>1, <3>3, Zenon DEF CarefulCalls
    <3> QED BY <1>1, <2>1, <3>3, <3>6, <3>7 DEF Life
  <2>3. CASE ~inMap
    <3>1. Leaving
      BY <2>3 DEF Life, Staying
    <3>2. UNCHANGED <<state, events, index, ups, downs, ioFunctors, baseFunctors, failed>> /\ ~inMap'
      BY <1>5, <2>3 DEF ServerDestroyed, connVars, history
    <3> HIDE DEF CarefulQueue, NotDestroying, Destroying
    <3>3. (InThePoller => InThePoller') /\ (OutOfBoth => OutOfBoth') /\ ~InTheMap
      BY <2>1, <2>3, <3>2, Zenon DEF InThePoller, OutOfBoth, InTheMap
    <3>4. Leaving'
      <4> HIDE DEF InThePoller, OutOfBoth, InTheMap
      <4> QED BY <2>1, <3>1, <3>2, <3>3 DEF Leaving
    <3>5. CarefulCalls'
      BY <1>1, <2>1, <3>2, Zenon DEF CarefulCalls
    <3> QED BY <1>1, <2>1, <3>2, <3>4, <3>5 DEF Life
  <2> QED BY <2>2, <2>3
<1>6. CASE Peer
  <2>1. UNCHANGED <<state, events, index, inMap, server, baseFunctors, ioFunctors, ups, downs, failed, use, userPc,
                    handling, batch, revents, delayTimers>>
    BY <1>6 DEF Peer, closeVars, connVars, serverVars, history, userVars, loopVars
  <2> HIDE DEF Life, Extends
  <2> QED BY <1>1, <2>1, StepKeepsLife
<1> QED BY <1>2, <1>3, <1>4, <1>5, <1>6

\* LifeInv holds at first and is kept by every step.
LEMMA LifeInductive == Spec => []LifeInv
<1>1. Init => LifeInv
  <2> SUFFICES ASSUME Init PROVE Life
    BY DEF LifeInv
  <2>1. ioFunctors = <<[name |-> "connectEstablished"]>> /\ ups = 0 /\ downs = 0
    BY DEF Init
  <2>2. CarefulQueue(ioFunctors, use.single) /\ NotDestroying(ioFunctors)
    BY <2>1 DEF CarefulQueue, CarefulName, NotDestroying, Destroys, Functors, Names
  <2> HIDE DEF CarefulQueue, NotDestroying
  <2>3. CarefulCalls
    BY <2>2 DEF Init, CarefulCalls
  <2>4. Staying
    BY <2>2 DEF Init, Staying
  <2> QED BY <2>3, <2>4 DEF Init, Life
<1>2. OutputInv /\ LifeInv /\ [Next]_vars => LifeInv'
  <2> SUFFICES ASSUME OutputInv, LifeInv, [Next]_vars, Careful(use)' PROVE Life'
    BY DEF LifeInv
  <2>1. use' = use
    BY Zenon DEF Next, IoLoop, vars, userVars, Poll, CloseEvent, ErrorEvent, ReadEvent, WriteEvent, InHandler, SwapFunctors,
           RunConnectEstablished, RunConnectDestroyed, RunSendInLoop, RunShutdownInLoop, RunReadInLoop,
           RunForceCloseInLoop, RunOther, NextFunctor, DelayTimer, RunRemoveConnectionInLoop, ServerDestroyed,
           LoopSend, LoopShutdown, LoopForceClose, LoopForceCloseWithDelay, LoopRead, Call, ThreadCall,
           ThreadSetState, ThreadQueue, Peer
  <2>2. Careful(use) /\ Life
    BY <2>1 DEF LifeInv
  <2>3. CASE UNCHANGED vars
    <3>1. UNCHANGED <<state, events, index, inMap, server, baseFunctors, ioFunctors, ups, downs, failed, use, userPc,
                      handling, batch, revents, delayTimers>>
      BY <2>3 DEF vars, closeVars, connVars, serverVars, history, userVars, loopVars
    <3>2. CarefulQueue(ioFunctors, use.single)
      BY <2>2 DEF Life, CarefulCalls
    <3>3. Extends(ioFunctors, ioFunctors, use.single)
      BY <3>2, ExtendsItself
    <3>4. /\ \A u \in Users : userPc[u] \in {Idle, <<"send", "queue">>}
          /\ use.single => delayTimers = 0
      BY <2>2 DEF Life, CarefulCalls
    <3> HIDE DEF Life, Extends
    <3> QED BY <2>2, <3>1, <3>3, <3>4, StepKeepsLife, Zenon
  <2>4. CASE Next
    <3> HIDE DEF OutputInv, Life, Careful
    <3> QED BY <2>2, <2>4, EventsKeepLife, FunctorsKeepLife, CallsKeepLife, OthersKeepLife DEF Next, IoLoop
  <2> QED BY <2>3, <2>4
<1> QED BY <1>1, <1>2, OutputInductive, PTL DEF Spec

\* In a program of Careful no assertion of TcpConnection, TcpServer, Channel or EPollPoller
\* fails, whatever the threads, the calls and the peer do, and no loop uses a TcpServer
\* that is destroyed.
THEOREM NoAssertionFails == Spec => []AssertionsHold
<1>1. LifeInv => AssertionsHold
  BY DEF LifeInv, Life, AssertionsHold
<1> QED BY <1>1, LifeInductive, PTL

\* In a program of Careful connectionCallback_ tells of the end once, after it has told of
\* the beginning, and exactly when state_ says so.
THEOREM UpOnceDownOnce == Spec => []UpThenDown
<1>1. OutputInv /\ LifeInv => UpThenDown
  <2> SUFFICES ASSUME OutputInv, Life, Careful(use) PROVE UpThenDown
    BY DEF LifeInv, UpThenDown
  <2>1. CASE Staying
    BY <2>1 DEF Staying, Open, OutputInv, NotYetUp, UpThenDown
  <2>2. CASE Leaving
    BY <2>2 DEF Leaving, UpThenDown
  <2> QED BY <2>1, <2>2 DEF Life
<1> QED BY <1>1, OutputInductive, LifeInductive, PTL

\* In a program of Careful the library drops its last pointer to a connection only when
\* ~TcpConnection and ~Channel find what they assert.
THEOREM ReleasedWhenClean == Spec => []ReleasedClean
<1>1. OutputInv /\ LifeInv => ReleasedClean
  <2> SUFFICES ASSUME OutputInv, Life, Careful(use), ~Held PROVE state = "kDisconnected" /\ index = "kNew"
    BY DEF LifeInv, ReleasedClean
  <2>1. Leaving /\ ~InTheMap
    BY DEF Held, Life, Staying, InTheMap
  <2>2. NotDestroying(ioFunctors)
    BY DEF Held, NotDestroying, Destroys
  <2>3. ~InThePoller
    <3>1. ASSUME Destroying(ioFunctors, batch, handling, use.single) PROVE FALSE
      BY <2>2, <3>1 DEF Destroying, NotDestroying
    <3> QED BY <3>1 DEF InThePoller
  <2> QED BY <2>1, <2>3 DEF Leaving, OutOfBoth
<1> QED BY <1>1, OutputInductive, LifeInductive, PTL
=============================================================================
