--------------------------- MODULE MuduoNetProofs ---------------------------
(***************************************************************************)
(* Proofs about two components of muduo/net.                               *)
(*                                                                         *)
(* EventLoop, for any number of threads, channels and calls, and the       *)
(* EventLoopThread that runs it: the composition only restricts what the   *)
(* EventLoop does, so what is shown of the loop alone holds of the loop of *)
(* an EventLoopThread; and its destructor leaves no thread behind that     *)
(* uses the object.                                                        *)
(*                                                                         *)
(* Buffer is a queue of bytes, for vectors and byte strings of any length. *)
(* The first lemmas are about the bytes of a vector v between a reader     *)
(* index r and a writer index w; the next show that each member function   *)
(* keeps a Buffer in order and does to its content what the queue does.    *)
(***************************************************************************)
EXTENDS EventLoopThread, Integers, SequenceTheorems, TLAPS

\* A Buffer.
CONSTANTS Byte, Zero, kCheapPrepend, kInitialSize, ExtraBuf, Sizes, Chunks
VARIABLE b

Buf == INSTANCE Buffer

-----------------------------------------------------------------------------
(* The inductive invariants.                                               *)

\* callingPendingFunctors_ marks exactly the part of the iteration in which
\* functors run, and the local vector is used up when that part ends.
BatchInv ==
    /\ callingPendingFunctors <=> pc \in {"run", "functor"}
    /\ functors # <<>> => pc \in {"run", "functor"}

\* A pending functor has a wakeup coming, or the loop will reach the swap
\* without polling, or it was queued by the loop thread outside loop().
WakeupInv ==
    pendingFunctors # <<>> =>
        WakeupComing \/ selfPosted \/ pc \in {"handle", "callback"}

-----------------------------------------------------------------------------
\* Every variable of the loop keeps its type, in every reachable state.
THEOREM TypeCorrect == Spec => []TypeOK
<1> USE EventLoopAssumption DEF TypeOK
<1>1. Init => TypeOK
  <2> SUFFICES ASSUME Init
               PROVE  TypeOK
    OBVIOUS
  <2>1. pendingFunctors \in Seq(Nat) /\ functors \in Seq(Nat)
    BY DEF Init
  <2>2. threadPc \in [Threads -> {"idle", "wakeup"}]
    BY DEF Init
  <2>3. wakeupFd \in 0 .. WakeupFdMax /\ posted \in 0 .. MaxPosts
    BY DEF Init
  <2> QED
    BY <2>1, <2>2, <2>3, Zenon DEF Init
<1>2. TypeOK /\ [Next]_vars => TypeOK'
  <2> SUFFICES ASSUME TypeOK, [Next]_vars
               PROVE  TypeOK'
    OBVIOUS
  <2> USE DEF loopVars, queueVars
  <2>1. ASSUME NEW t \in Threads, QueueInLoop(t)
        PROVE  TypeOK'
    BY <2>1 DEF QueueInLoop, Push
  <2>2. ASSUME NEW t \in Threads, Quit(t)
        PROVE  TypeOK'
    BY <2>2 DEF Quit
  <2>3. ASSUME NEW t \in Threads, Wakeup(t)
        PROVE  TypeOK'
    BY <2>3 DEF Wakeup, Wakened
  <2>4. CASE QueueInLoopSelf
    BY <2>4 DEF QueueInLoopSelf, Push, Wakened
  <2>5. CASE QuitSelf
    BY <2>5 DEF QuitSelf
  <2>6. CASE Loop
    BY <2>6, Zenon DEF Loop
  <2>7. CASE While
    BY <2>7 DEF While
  <2>8. CASE Poll
    <3>1. activeChannels' \subseteq Channels \cup {WakeupChannel}
      BY <2>8 DEF Poll, ReadyChannels
    <3>2. eventsSize' \in Nat \ {0}
      BY <2>8 DEF Poll
    <3> QED
      BY <2>8, <3>1, <3>2 DEF Poll
  <2>9. CASE PollNothing
    BY <2>9 DEF PollNothing
  <2>10. CASE HandleRead
    BY <2>10 DEF HandleRead
  <2>11. ASSUME NEW c \in Channels, HandleEvent(c)
         PROVE  TypeOK'
    BY <2>11 DEF HandleEvent
  <2>12. CASE Return
    BY <2>12 DEF Return
  <2>13. CASE SwapFunctors
    <3>1. <<>> \in Seq(Nat)
      OBVIOUS
    <3> QED
      BY <2>13, <3>1, Zenon DEF SwapFunctors
  <2>14. CASE RunFunctor
    BY <2>14 DEF RunFunctor
  <2>15. CASE FunctorsDone
    BY <2>15, Zenon DEF FunctorsDone
  <2>16. ASSUME NEW c \in Channels, ChannelReady(c)
         PROVE  TypeOK'
    BY <2>16 DEF ChannelReady
  <2>17. CASE UNCHANGED vars
    BY <2>17 DEF vars
  <2> QED
    BY <2>1, <2>2, <2>3, <2>4, <2>5, <2>6, <2>7, <2>8, <2>9, <2>10, <2>11, <2>12,
       <2>13, <2>14, <2>15, <2>16, <2>17 DEF Next, LoopStep
<1> QED
  BY <1>1, <1>2, PTL DEF Spec

\* callingPendingFunctors_ is true exactly while functors run, so that
\* queueInLoop in the loop thread takes the right branch.
LEMMA BatchCorrect == Spec => []BatchInv
<1>1. Init => BatchInv
  BY DEF Init, BatchInv
<1>2. TypeOK /\ BatchInv /\ [Next]_vars => BatchInv'
  <2> SUFFICES ASSUME TypeOK, BatchInv, [Next]_vars
               PROVE  BatchInv'
    OBVIOUS
  <2> USE DEF TypeOK, BatchInv, loopVars
  <2>1. ASSUME NEW t \in Threads, QueueInLoop(t)
        PROVE  BatchInv'
    BY <2>1 DEF QueueInLoop
  <2>2. ASSUME NEW t \in Threads, Quit(t)
        PROVE  BatchInv'
    BY <2>2 DEF Quit
  <2>3. ASSUME NEW t \in Threads, Wakeup(t)
        PROVE  BatchInv'
    BY <2>3 DEF Wakeup
  <2>4. CASE QueueInLoopSelf
    BY <2>4 DEF QueueInLoopSelf
  <2>5. CASE QuitSelf
    BY <2>5 DEF QuitSelf
  <2>6. CASE Loop
    BY <2>6 DEF Loop
  <2>7. CASE While
    BY <2>7 DEF While
  <2>8. CASE Poll
    BY <2>8 DEF Poll
  <2>9. CASE PollNothing
    BY <2>9 DEF PollNothing
  <2>10. CASE HandleRead
    BY <2>10 DEF HandleRead
  <2>11. ASSUME NEW c \in Channels, HandleEvent(c)
        PROVE  BatchInv'
    BY <2>11 DEF HandleEvent
  <2>12. CASE Return
    BY <2>12 DEF Return
  <2>13. CASE SwapFunctors
    BY <2>13 DEF SwapFunctors
  <2>14. CASE RunFunctor
    BY <2>14 DEF RunFunctor
  <2>15. CASE FunctorsDone
    BY <2>15 DEF FunctorsDone
  <2>16. ASSUME NEW c \in Channels, ChannelReady(c)
        PROVE  BatchInv'
    BY <2>16 DEF ChannelReady
  <2>17. CASE UNCHANGED vars
    BY <2>17 DEF vars
  <2> QED
    BY <2>1, <2>2, <2>3, <2>4, <2>5, <2>6, <2>7, <2>8, <2>9, <2>10, <2>11, <2>12,
       <2>13, <2>14, <2>15, <2>16, <2>17 DEF Next, LoopStep
<1> QED
  BY <1>1, <1>2, TypeCorrect, PTL DEF Spec

-----------------------------------------------------------------------------
\* A wakeup that is coming stays so until the loop thread reads the eventfd.
LEMMA WakeupComingStep ==
    ASSUME TypeOK, [Next]_vars, WakeupComing, pc # "handle"
    PROVE  WakeupComing'
<1> USE EventLoopAssumption DEF TypeOK, WakeupComing, loopVars
<1>1. ASSUME NEW t \in Threads, QueueInLoop(t)
      PROVE  WakeupComing'
  BY <1>1 DEF QueueInLoop, Push
<1>2. ASSUME NEW t \in Threads, Quit(t)
      PROVE  WakeupComing'
  BY <1>2 DEF Quit
<1>3. ASSUME NEW t \in Threads, Wakeup(t)
      PROVE  WakeupComing'
  BY <1>3 DEF Wakeup, Wakened
<1>4. CASE QueueInLoopSelf
  BY <1>4 DEF QueueInLoopSelf, Wakened
<1>5. CASE QuitSelf
  BY <1>5 DEF QuitSelf
<1>6. CASE Loop
  BY <1>6 DEF Loop
<1>7. CASE While
  BY <1>7 DEF While
<1>8. CASE Poll
  BY <1>8 DEF Poll
<1>9. CASE PollNothing
  BY <1>9 DEF PollNothing
<1>10. CASE HandleRead
  BY <1>10 DEF HandleRead
<1>11. ASSUME NEW c \in Channels, HandleEvent(c)
      PROVE  WakeupComing'
  BY <1>11 DEF HandleEvent
<1>12. CASE Return
  BY <1>12 DEF Return
<1>13. CASE SwapFunctors
  BY <1>13 DEF SwapFunctors
<1>14. CASE RunFunctor
  BY <1>14 DEF RunFunctor
<1>15. CASE FunctorsDone
  BY <1>15 DEF FunctorsDone
<1>16. ASSUME NEW c \in Channels, ChannelReady(c)
      PROVE  WakeupComing'
  BY <1>16 DEF ChannelReady
<1>17. CASE UNCHANGED vars
  BY <1>17 DEF vars
<1> QED
  BY <1>1, <1>2, <1>3, <1>4, <1>5, <1>6, <1>7, <1>8, <1>9, <1>10, <1>11, <1>12,
     <1>13, <1>14, <1>15, <1>16, <1>17 DEF Next, LoopStep

\* No functor and no quit request waits for a poll that nothing will end: the
\* eventfd protocol of queueInLoop, quit and handleRead loses no wakeup.
THEOREM WakeupNotLost == Spec => [](NoLostWakeup /\ NoLostQuit)
<1>1. Init => WakeupInv /\ NoLostQuit
  BY DEF Init, WakeupInv, NoLostQuit
<1>2. TypeOK /\ BatchInv /\ WakeupInv /\ NoLostQuit /\ [Next]_vars
        => WakeupInv' /\ NoLostQuit'
  <2> SUFFICES ASSUME TypeOK, BatchInv, WakeupInv, NoLostQuit, [Next]_vars
               PROVE  WakeupInv' /\ NoLostQuit'
    OBVIOUS
  <2>0. WakeupComing /\ pc # "handle" => WakeupComing'
    BY WakeupComingStep
  <2> USE EventLoopAssumption DEF TypeOK, BatchInv, WakeupInv, NoLostQuit, loopVars, queueVars
  <2>1. ASSUME NEW t \in Threads, QueueInLoop(t)
        PROVE  WakeupInv' /\ NoLostQuit'
    BY <2>0, <2>1 DEF QueueInLoop, WakeupComing
  <2>2. ASSUME NEW t \in Threads, Quit(t)
        PROVE  WakeupInv' /\ NoLostQuit'
    BY <2>0, <2>2 DEF Quit, WakeupComing
  <2>3. ASSUME NEW t \in Threads, Wakeup(t)
        PROVE  WakeupInv' /\ NoLostQuit'
    BY <2>0, <2>3 DEF Wakeup
  <2>4. CASE QueueInLoopSelf
    <3>1. pc' = pc /\ pc # "poll"
      BY <2>4 DEF QueueInLoopSelf, InUserCode
    <3>2. CASE pc = "outside"
      <4>1. selfPosted'
        BY <2>4, <3>2, Zenon DEF QueueInLoopSelf
      <4> QED
        BY <3>1, <4>1
    <3>3. CASE pc = "callback"
      BY <3>1, <3>3
    <3>4. CASE pc = "functor"
      <4>1. wakeupFd' > 0
        BY <2>4, <3>4 DEF QueueInLoopSelf, Wakened
      <4> QED
        BY <3>1, <4>1 DEF WakeupComing
    <3> QED
      BY <2>4, <3>2, <3>3, <3>4 DEF QueueInLoopSelf, InUserCode
  <2>5. CASE QuitSelf
    BY <2>0, <2>5 DEF QuitSelf, InUserCode
  <2>6. CASE Loop
    BY <2>0, <2>6 DEF Loop
  <2>7. CASE While
    BY <2>0, <2>7 DEF While
  <2>8. CASE Poll
    BY <2>0, <2>8 DEF Poll
  <2>9. CASE PollNothing
    BY <2>0, <2>9 DEF PollNothing
  <2>10. CASE HandleRead
    BY <2>0, <2>10 DEF HandleRead
  <2>11. ASSUME NEW c \in Channels, HandleEvent(c)
        PROVE  WakeupInv' /\ NoLostQuit'
    BY <2>0, <2>11 DEF HandleEvent
  <2>12. CASE Return
    BY <2>0, <2>12 DEF Return
  <2>13. CASE SwapFunctors
    BY <2>0, <2>13 DEF SwapFunctors
  <2>14. CASE RunFunctor
    BY <2>0, <2>14 DEF RunFunctor
  <2>15. CASE FunctorsDone
    BY <2>0, <2>15 DEF FunctorsDone
  <2>16. ASSUME NEW c \in Channels, ChannelReady(c)
        PROVE  WakeupInv' /\ NoLostQuit'
    BY <2>0, <2>16 DEF ChannelReady
  <2>17. CASE UNCHANGED vars
    BY <2>0, <2>17 DEF vars
  <2> QED
    BY <2>1, <2>2, <2>3, <2>4, <2>5, <2>6, <2>7, <2>8, <2>9, <2>10, <2>11, <2>12,
       <2>13, <2>14, <2>15, <2>16, <2>17 DEF Next, LoopStep
<1>3. WakeupInv => NoLostWakeup
  BY DEF WakeupInv, NoLostWakeup
<1> QED
  BY <1>1, <1>2, <1>3, TypeCorrect, BatchCorrect, PTL DEF Spec

\* No call of quit is slept through: the poll it meets is always ended.
THEOREM QuitNotLost == Spec => []NoLostQuit
  BY WakeupNotLost, PTL

-----------------------------------------------------------------------------
\* The functors not yet started, in the order in which they will run.
Waiting == functors \o pendingFunctors

\* Queueing a functor adds it behind all the others.
LEMMA PushSubmits ==
    ASSUME TypeOK, Push, UNCHANGED <<functors, executed>>
    PROVE  Executor!Submit
<1>1. functors \in Seq(Nat) /\ pendingFunctors \in Seq(Nat) /\ posted' \in Nat
  BY DEF TypeOK, Push
<1>2. functors \o Append(pendingFunctors, posted') = Append(functors \o pendingFunctors, posted')
  BY <1>1
<1> QED
  BY <1>2 DEF Push, Executor!Submit

\* The swap moves functors from one vector to the other and no further.
LEMMA SwapStutters ==
    ASSUME TypeOK, BatchInv, SwapFunctors
    PROVE  UNCHANGED Executor!executorVars
<1>1. functors = <<>> /\ functors' = pendingFunctors /\ pendingFunctors' = <<>>
  BY DEF BatchInv, SwapFunctors
<1>2. pendingFunctors \in Seq(Nat)
  BY DEF TypeOK
<1>3. pendingFunctors \o <<>> = <<>> \o pendingFunctors
  BY <1>2
<1> QED
  BY <1>1, <1>3 DEF SwapFunctors, Executor!executorVars

\* Running a functor takes it from the front of all the others.
LEMMA RunExecutes ==
    ASSUME TypeOK, RunFunctor
    PROVE  Executor!Execute
<1>1. functors \in Seq(Nat) /\ pendingFunctors \in Seq(Nat) /\ functors # <<>>
  BY DEF TypeOK, RunFunctor
<1>2. /\ functors \o pendingFunctors # <<>>
      /\ Head(functors \o pendingFunctors) = Head(functors)
      /\ Tail(functors \o pendingFunctors) = Tail(functors) \o pendingFunctors
  BY <1>1
<1> QED
  BY <1>2 DEF RunFunctor, queueVars, Executor!Execute

\* Every step of the loop is a step of the executor, or leaves it as it is.
LEMMA ExecutorStep ==
    ASSUME TypeOK, BatchInv, [Next]_vars
    PROVE  [Executor!Next]_(Executor!executorVars)
<1> USE DEF Executor!Next, Executor!executorVars, loopVars, queueVars
<1>1. ASSUME NEW t \in Threads, QueueInLoop(t)
      PROVE  Executor!Submit
  BY <1>1, PushSubmits DEF QueueInLoop
<1>2. CASE QueueInLoopSelf
  BY <1>2, PushSubmits DEF QueueInLoopSelf
<1>3. CASE SwapFunctors
  BY <1>3, SwapStutters
<1>4. CASE RunFunctor
  BY <1>4, RunExecutes
<1>5. CASE \/ \E t \in Threads : Quit(t) \/ Wakeup(t)
           \/ QuitSelf \/ Loop \/ While \/ Poll \/ PollNothing \/ HandleRead
           \/ \E c \in Channels : HandleEvent(c) \/ ChannelReady(c)
           \/ Return \/ FunctorsDone \/ UNCHANGED vars
  <2>1. UNCHANGED <<functors, pendingFunctors, posted, executed>>
    BY <1>5 DEF Quit, Wakeup, QuitSelf, Loop, While, Poll, PollNothing, HandleRead,
                HandleEvent, ChannelReady, Return, FunctorsDone, vars
  <2> QED
    BY <2>1
<1> QED
  BY <1>1, <1>2, <1>3, <1>4, <1>5 DEF Next, LoopStep

\* EventLoop implements SerialExecutor: through any interleaving of queueInLoop,
\* the swap and functors that queue functors, a caller sees a first-in first-out
\* executor.
THEOREM ImplementsExecutor == Spec => ExecutorSpec
<1>1. Init => Executor!Init
  BY DEF Init, Executor!Init
<1>2. TypeOK /\ BatchInv /\ [Next]_vars => [Executor!Next]_(Executor!executorVars)
  BY ExecutorStep
<1> QED
  BY <1>1, <1>2, TypeCorrect, BatchCorrect, PTL DEF Spec, ExecutorSpec, Executor!Spec

\* No functor is lost, run twice or overtaken by a later one.
THEOREM RunsExactlyOnceInOrder == Spec => []ExactlyOnceInOrder
<1>1. Init => ExactlyOnceInOrder
  BY DEF Init, ExactlyOnceInOrder
<1>2. TypeOK /\ BatchInv /\ ExactlyOnceInOrder /\ [Next]_vars => ExactlyOnceInOrder'
  <2> SUFFICES ASSUME TypeOK, BatchInv, ExactlyOnceInOrder, [Next]_vars
               PROVE  ExactlyOnceInOrder'
    OBVIOUS
  <2>1. /\ Waiting \in Seq(Nat) /\ executed \in Nat /\ posted \in Nat
        /\ Len(Waiting) = posted - executed
        /\ \A i \in 1 .. Len(Waiting) : Waiting[i] = executed + i
    BY SMTT(30) DEF TypeOK, ExactlyOnceInOrder, Waiting
  <2>2. CASE Executor!Submit
    <3>1. Waiting' = Append(Waiting, posted + 1) /\ posted' = posted + 1 /\ executed' = executed
      BY <2>2 DEF Executor!Submit, Waiting
    <3>2. Len(Waiting') = posted' - executed' /\ Waiting' \in Seq(Nat)
      <4>1. Len(Append(Waiting, posted + 1)) = Len(Waiting) + 1
        BY <2>1
      <4>2. Append(Waiting, posted + 1) \in Seq(Nat)
        BY <2>1
      <4> QED
        BY <2>1, <3>1, <4>1, <4>2
    <3>3. \A i \in 1 .. Len(Waiting') : Waiting'[i] = executed' + i
      BY <2>1, <3>1
    <3>4. DOMAIN Waiting' = 1 .. Len(Waiting')
      BY <3>2
    <3> QED
      BY <3>2, <3>3, <3>4 DEF ExactlyOnceInOrder, Waiting
  <2>3. CASE Executor!Execute
    <3>1. /\ Waiting # <<>> /\ Waiting' = Tail(Waiting)
          /\ executed' = Waiting[1] /\ posted' = posted
      BY <2>3 DEF Executor!Execute, Waiting
    <3>2. /\ executed' = executed + 1
          /\ Len(Waiting') = posted' - executed' /\ Waiting' \in Seq(Nat)
      BY <2>1, <3>1
    <3>3. \A i \in 1 .. Len(Waiting') : Waiting'[i] = executed' + i
      BY <2>1, <3>1, <3>2
    <3>4. DOMAIN Waiting' = 1 .. Len(Waiting')
      BY <3>2
    <3> QED
      BY <3>2, <3>3, <3>4 DEF ExactlyOnceInOrder, Waiting
  <2>4. CASE UNCHANGED Executor!executorVars
    BY <2>4 DEF Executor!executorVars, ExactlyOnceInOrder
  <2> QED
    BY <2>2, <2>3, <2>4, ExecutorStep DEF Executor!Next
<1> QED
  BY <1>1, <1>2, TypeCorrect, BatchCorrect, PTL DEF Spec
-----------------------------------------------------------------------------
(* EventLoopThread.                                                        *)

\* Every step of the composition is a step of the EventLoop, or not its concern.
LEMMA ThreadStep ==
    ASSUME [ThreadNext]_allVars
    PROVE  [Next]_vars
<1>1. CASE StartThread \/ StartLoop \/ Destroy \/ Join \/ Publish \/ Unpublish \/ Finish
  BY <1>1 DEF StartThread, StartLoop, Destroy, Join, Publish, Unpublish, Finish
<1>2. CASE DestroyQuit
  BY <1>2, OwnerAssumption DEF DestroyQuit, Next
<1>3. CASE EnterLoop
  BY <1>3 DEF EnterLoop, Next
<1>4. CASE SelfCall
  BY <1>4 DEF SelfCall, Next
<1>5. CASE \E t \in Threads : OtherCall(t)
  BY <1>5 DEF OtherCall, Next
<1>6. CASE InLoop
  BY <1>6 DEF InLoop, Next
<1>7. CASE UNCHANGED allVars
  BY <1>7 DEF allVars
<1> QED BY <1>1, <1>2, <1>3, <1>4, <1>5, <1>6, <1>7 DEF ThreadNext, OwnerStep, ThreadFuncStep

\* The loop of an EventLoopThread is an EventLoop.
THEOREM ThreadImplementsLoop == ThreadSpec => Spec
<1>1. ThreadInit => Init
  BY DEF ThreadInit
<1>2. [ThreadNext]_allVars => [Next]_vars
  BY ThreadStep
<1> QED BY <1>1, <1>2, PTL DEF ThreadSpec, Spec

\* A thread that queues functors on the loop of an EventLoopThread sees a first-in
\* first-out executor.
THEOREM ThreadImplementsExecutor == ThreadSpec => ExecutorSpec
  BY ThreadImplementsLoop, ImplementsExecutor, PTL

\* The inductive invariant: a loop that has been left has been quit, by the
\* destructor or by somebody else; a loop_ that is NULL again while the owner uses
\* the object tells that it was somebody else.
LifeInv ==
    /\ ownerPc = "created" => threadFunc = "none"
    /\ quit => otherQuit \/ ownerPc \in {"join", "destroyed"}
    /\ threadFunc = "looping" /\ pc = "outside" => quit
    /\ ownerPc = "running" => loopPtr \/ otherQuit
    /\ NoThreadOutlivesObject

\* The destructor leaves no thread behind that uses the object, unless somebody else
\* has quit the loop: its unlocked test of loop_ goes wrong in that case only.
THEOREM NoThreadLeftBehind == ThreadSpec => []NoThreadOutlivesObject
<1>1. ThreadInit => LifeInv
  BY DEF ThreadInit, Init, LifeInv, NoThreadOutlivesObject
<1>2. LifeInv /\ [ThreadNext]_allVars => LifeInv'
  <2> SUFFICES ASSUME LifeInv, [ThreadNext]_allVars PROVE LifeInv'
    OBVIOUS
  <2> USE DEF LifeInv, NoThreadOutlivesObject
  <2>1. CASE StartThread \/ StartLoop \/ Destroy \/ Join \/ Publish \/ Unpublish \/ Finish
    <3>1. UNCHANGED <<pc, quit>>
      BY <2>1 DEF StartThread, StartLoop, Destroy, Join, Publish, Unpublish, Finish, vars, loopVars
    <3> QED BY <2>1, <3>1 DEF StartThread, StartLoop, Destroy, Join, Publish, Unpublish, Finish
  <2>2. CASE DestroyQuit
    BY <2>2 DEF DestroyQuit, Quit
  <2>3. CASE EnterLoop
    BY <2>3 DEF EnterLoop, Loop
  <2>4. CASE SelfCall
    <3>1. UNCHANGED pc /\ (quit' => quit \/ otherQuit') /\ (quit => quit') /\ (otherQuit => otherQuit')
      BY <2>4 DEF SelfCall, QueueInLoopSelf, QuitSelf, loopVars
    <3>2. UNCHANGED <<loopPtr, ownerPc, threadFunc>>
      BY <2>4 DEF SelfCall
    <3> QED BY <3>1, <3>2
  <2>5. CASE \E t \in Threads : OtherCall(t)
    <3>1. UNCHANGED pc /\ (quit' => quit \/ otherQuit') /\ (quit => quit') /\ (otherQuit => otherQuit')
      BY <2>5 DEF OtherCall, QueueInLoop, Quit, Wakeup, loopVars
    <3>2. UNCHANGED <<loopPtr, ownerPc, threadFunc>>
      BY <2>5 DEF OtherCall
    <3> QED BY <3>1, <3>2
  <2>6. CASE InLoop
    <3>1. UNCHANGED <<loopPtr, ownerPc, threadFunc, otherQuit, quit>>
      BY <2>6 DEF InLoop, threadVars, LoopStep, While, Poll, HandleRead, HandleEvent, Return,
                  SwapFunctors, RunFunctor, FunctorsDone, PollNothing, ChannelReady
    <3>2. pc' = "outside" => quit \/ pc = "outside"
      BY <2>6 DEF InLoop, LoopStep, While, Poll, HandleRead, HandleEvent, Return,
                  SwapFunctors, RunFunctor, FunctorsDone, PollNothing, ChannelReady, loopVars
    <3> QED BY <3>1, <3>2
  <2>7. CASE UNCHANGED allVars
    BY <2>7 DEF allVars, vars, loopVars, threadVars
  <2> QED BY <2>1, <2>2, <2>3, <2>4, <2>5, <2>6, <2>7 DEF ThreadNext, OwnerStep, ThreadFuncStep
<1>3. LifeInv => NoThreadOutlivesObject
  BY DEF LifeInv
<1> QED BY <1>1, <1>2, <1>3, PTL DEF ThreadSpec

-----------------------------------------------------------------------------
(* Buffer.                                                                 *)

\* std::copy inside the vector replaces these bytes and no others.
LEMMA CopyProperties ==
  ASSUME NEW v \in Seq(Byte), NEW at \in Nat, NEW s \in Seq(Byte),
         at + Len(s) <= Len(v)
  PROVE  /\ Buf!Copy(v, at, s) \in Seq(Byte)
         /\ Len(Buf!Copy(v, at, s)) = Len(v)
         /\ \A i \in 1 .. Len(v) :
               Buf!Copy(v, at, s)[i] = IF i \in at + 1 .. at + Len(s) THEN s[i - at] ELSE v[i]
  BY DEF Buf!Copy

\* vector::resize keeps what there was.
LEMMA ResizedProperties ==
  ASSUME Buf!Constants, NEW v \in Seq(Byte), NEW n \in Nat
  PROVE  /\ Buf!Resized(v, n) \in Seq(Byte)
         /\ Len(Buf!Resized(v, n)) = n
         /\ \A i \in 1 .. n : Buf!Resized(v, n)[i] = IF i <= Len(v) THEN v[i] ELSE Zero
  BY DEF Buf!Resized, Buf!Constants

\* The bytes between two indices, one by one.
LEMMA BetweenProperties ==
  ASSUME NEW v \in Seq(Byte), NEW r \in Nat, NEW w \in Nat, r <= w, w <= Len(v)
  PROVE  /\ SubSeq(v, r + 1, w) \in Seq(Byte)
         /\ Len(SubSeq(v, r + 1, w)) = w - r
         /\ \A i \in 1 .. w - r : SubSeq(v, r + 1, w)[i] = v[r + i]
<1> DEFINE m == r + 1
<1>1. m \in Int /\ w \in Int /\ \A i \in m .. w : v[i] \in Byte
  OBVIOUS
<1>2. /\ SubSeq(v, m, w) \in Seq(Byte)
      /\ Len(SubSeq(v, m, w)) = IF m <= w THEN w - m + 1 ELSE 0
      /\ \A i \in 1 .. w - m + 1 : SubSeq(v, m, w)[i] = v[m + i - 1]
  <2> HIDE DEF m
  <2> QED BY <1>1, SubSeqProperties
<1> QED BY <1>2

\* They are s if they are the bytes of s.
LEMMA BetweenIs ==
  ASSUME NEW v \in Seq(Byte), NEW r \in Nat, NEW w \in Nat, r <= w, w <= Len(v),
         NEW s \in Seq(Byte), Len(s) = w - r, \A i \in 1 .. w - r : v[r + i] = s[i]
  PROVE  SubSeq(v, r + 1, w) = s
<1> DEFINE t == SubSeq(v, r + 1, w)
<1>1. t \in Seq(Byte) /\ Len(t) = Len(s) /\ \A i \in 1 .. Len(t) : t[i] = s[i]
  BY BetweenProperties
<1> HIDE DEF t
<1>2. t = s
  BY <1>1, SeqEqual, Zenon
<1> QED BY <1>2 DEF t

\* resize keeps the bytes between two indices of the old vector.
LEMMA ResizedBetween ==
  ASSUME Buf!Constants, NEW v \in Seq(Byte), NEW r \in Nat, NEW w \in Nat, r <= w, w <= Len(v),
         NEW n \in Nat, w <= n
  PROVE  SubSeq(Buf!Resized(v, n), r + 1, w) = SubSeq(v, r + 1, w)
<1> DEFINE u == Buf!Resized(v, n)
           s == SubSeq(v, r + 1, w)
<1>1. u \in Seq(Byte) /\ Len(u) = n /\ \A i \in 1 .. w : u[i] = v[i]
  BY ResizedProperties, SMTT(20)
<1>2. s \in Seq(Byte) /\ Len(s) = w - r /\ \A i \in 1 .. w - r : s[i] = v[r + i]
  BY BetweenProperties
<1> HIDE DEF u, s
<1>3. \A i \in 1 .. w - r : u[r + i] = s[i]
  BY <1>1, <1>2
<1>4. SubSeq(u, r + 1, w) = s
  BY <1>1, <1>2, <1>3, BetweenIs
<1> QED BY <1>4 DEF u, s

\* The content is moved ...
LEMMA CopyBetween ==
  ASSUME NEW v \in Seq(Byte), NEW at \in Nat, NEW s \in Seq(Byte), at + Len(s) <= Len(v)
  PROVE  SubSeq(Buf!Copy(v, at, s), at + 1, at + Len(s)) = s
<1> DEFINE u == Buf!Copy(v, at, s)
           n == at + Len(s)
<1>1. /\ u \in Seq(Byte) /\ Len(u) = Len(v)
      /\ \A i \in 1 .. Len(v) : u[i] = IF i \in at + 1 .. at + Len(s) THEN s[i - at] ELSE v[i]
  BY CopyProperties
<1>2. n \in Nat /\ at <= n /\ n - at = Len(s) /\ n <= Len(v)
  OBVIOUS
<1> HIDE DEF u
<1>4. ASSUME NEW i \in 1 .. n - at PROVE u[at + i] = s[i]
  <2>1. at + i \in 1 .. Len(v) /\ at + i \in at + 1 .. at + Len(s) /\ (at + i) - at = i
    OBVIOUS
  <2> QED BY <1>1, <2>1
<1> HIDE DEF n
<1>3. SubSeq(u, at + 1, n) = s
  BY <1>1, <1>2, <1>4, BetweenIs
<1> QED BY <1>3 DEF u, n

\* ... extended at its end ...
LEMMA CopyAfter ==
  ASSUME NEW v \in Seq(Byte), NEW r \in Nat, NEW w \in Nat, r <= w, w <= Len(v),
         NEW s \in Seq(Byte), w + Len(s) <= Len(v)
  PROVE  SubSeq(Buf!Copy(v, w, s), r + 1, w + Len(s)) = SubSeq(v, r + 1, w) \o s
<1> DEFINE u == Buf!Copy(v, w, s)
           n == w + Len(s)
           t == SubSeq(v, r + 1, w)
           c == t \o s
<1>1. /\ u \in Seq(Byte) /\ Len(u) = Len(v)
      /\ \A i \in 1 .. Len(v) : u[i] = IF i \in w + 1 .. w + Len(s) THEN s[i - w] ELSE v[i]
  BY CopyProperties
<1>2. t \in Seq(Byte) /\ Len(t) = w - r /\ \A i \in 1 .. w - r : t[i] = v[r + i]
  BY BetweenProperties
<1> HIDE DEF u, t
<1>3. /\ c \in Seq(Byte) /\ Len(c) = Len(t) + Len(s)
      /\ \A i \in 1 .. Len(t) + Len(s) : c[i] = IF i <= Len(t) THEN t[i] ELSE s[i - Len(t)]
  BY <1>2, ConcatProperties, ZenonT(30)
<1>4. n \in Nat /\ r <= n /\ n <= Len(u) /\ Len(c) = n - r
  BY <1>1, <1>2, <1>3
<1> HIDE DEF c
<1>5. ASSUME NEW i \in 1 .. n - r PROVE u[r + i] = c[i]
  <2>1. i \in 1 .. Len(t) + Len(s) /\ r + i \in 1 .. Len(v)
    BY <1>2
  <2>2. CASE i <= w - r
    <3>1. c[i] = t[i] /\ t[i] = v[r + i]
      BY <1>2, <1>3, <2>1, <2>2
    <3>2. u[r + i] = v[r + i]
      <4>1. r + i \notin w + 1 .. w + Len(s)
        BY <2>2
      <4> QED BY <1>1, <2>1, <4>1, Zenon
    <3> QED BY <3>1, <3>2
  <2>3. CASE i > w - r
    <3>1. c[i] = s[i - Len(t)]
      BY <1>2, <1>3, <2>1, <2>3
    <3>2. u[r + i] = s[(r + i) - w]
      <4>1. r + i \in 1 .. Len(v) /\ r + i \in w + 1 .. w + Len(s)
        BY <2>1, <2>3
      <4> QED BY <1>1, <4>1, Zenon
    <3> QED BY <1>2, <3>1, <3>2
  <2> QED BY <2>2, <2>3
<1> HIDE DEF n
<1>6. SubSeq(u, r + 1, n) = c
  BY <1>1, <1>3, <1>4, <1>5, BetweenIs, Zenon
<1> QED BY <1>6, Zenon DEF u, n, t, c

\* ... or at its beginning ...
LEMMA CopyBefore ==
  ASSUME NEW v \in Seq(Byte), NEW r \in Nat, NEW w \in Nat, r <= w, w <= Len(v),
         NEW s \in Seq(Byte), Len(s) <= r
  PROVE  SubSeq(Buf!Copy(v, r - Len(s), s), r - Len(s) + 1, w) = s \o SubSeq(v, r + 1, w)
<1> DEFINE at == r - Len(s)
           u == Buf!Copy(v, at, s)
           t == SubSeq(v, r + 1, w)
           c == s \o t
<1>0. at \in Nat /\ at + Len(s) = r /\ at <= w /\ Len(s) \in Nat
  OBVIOUS
<1> HIDE DEF at
<1>1. /\ u \in Seq(Byte) /\ Len(u) = Len(v)
      /\ \A i \in 1 .. Len(v) : u[i] = IF i \in at + 1 .. r THEN s[i - at] ELSE v[i]
  BY <1>0, CopyProperties
<1>2. t \in Seq(Byte) /\ Len(t) = w - r /\ \A i \in 1 .. w - r : t[i] = v[r + i]
  BY BetweenProperties
<1> HIDE DEF u, t
<1>3. /\ c \in Seq(Byte) /\ Len(c) = Len(s) + Len(t)
      /\ \A i \in 1 .. Len(s) + Len(t) : c[i] = IF i <= Len(s) THEN s[i] ELSE t[i - Len(s)]
  BY <1>2, ConcatProperties
<1> HIDE DEF c
<1>4. Len(c) = w - at /\ w <= Len(u)
  <2>1. Len(c) = Len(s) + (w - r) /\ Len(u) = Len(v)
    BY <1>1, <1>2, <1>3
  <2> QED BY <1>0, <2>1
<1>5. ASSUME NEW i \in 1 .. w - at PROVE u[at + i] = c[i]
  <2>1. i \in 1 .. Len(s) + Len(t) /\ at + i \in 1 .. Len(v)
    BY <1>0, <1>2
  <2>2. CASE i <= Len(s)
    BY <1>0, <1>1, <1>3, <2>1, <2>2
  <2>3. CASE i > Len(s)
    <3>1. c[i] = t[i - Len(s)]
      BY <1>3, <2>1, <2>3
    <3>2. i - Len(s) \in 1 .. w - r /\ r + (i - Len(s)) = at + i /\ at + i > r
      BY <1>0, <2>3
    <3>3. u[at + i] = v[at + i]
      BY <1>0, <1>1, <2>1, <3>2
    <3>4. t[i - Len(s)] = v[r + (i - Len(s))]
      BY <1>2, <3>2
    <3> QED BY <3>1, <3>2, <3>3, <3>4
  <2> QED BY <2>2, <2>3
<1>6. SubSeq(u, at + 1, w) = c
  <2>1. /\ u \in Seq(Byte) /\ c \in Seq(Byte) /\ at \in Nat /\ at <= w /\ w <= Len(u)
        /\ Len(c) = w - at
    BY <1>0, <1>1, <1>3, <1>4, Zenon
  <2>2. \A i \in 1 .. w - at : u[at + i] = c[i]
    BY <1>5
  <2> QED BY <2>1, <2>2, BetweenIs
<1> QED BY <1>6, Zenon DEF at, u, t, c

\* ... or cut at either end.
LEMMA CutBetween ==
  ASSUME NEW v \in Seq(Byte), NEW r \in Nat, NEW w \in Nat, r <= w, w <= Len(v),
         NEW p \in Nat, NEW q \in Nat, r <= p, p <= q, q <= w
  PROVE  SubSeq(v, p + 1, q) = SubSeq(SubSeq(v, r + 1, w), (p - r) + 1, q - r)
<1> DEFINE t == SubSeq(v, r + 1, w)
           j == p - r
           k == q - r
           s == SubSeq(t, j + 1, k)
<1>1. t \in Seq(Byte) /\ Len(t) = w - r /\ \A i \in 1 .. w - r : t[i] = v[r + i]
  BY BetweenProperties
<1>2. j \in Nat /\ k \in Nat /\ j <= k /\ k <= w - r /\ p = r + j /\ q = r + k
  OBVIOUS
<1> HIDE DEF t, j, k
<1>3. s \in Seq(Byte) /\ Len(s) = k - j /\ \A i \in 1 .. k - j : s[i] = t[j + i]
  BY <1>1, <1>2, BetweenProperties
<1> HIDE DEF s
<1>4. q - p = k - j /\ q <= Len(v) /\ \A i \in 1 .. q - p : v[p + i] = s[i]
  BY <1>1, <1>2, <1>3
<1>5. SubSeq(v, p + 1, q) = s
  BY <1>3, <1>4, BetweenIs, SMTT(20)
<1> QED BY <1>5 DEF s, t, j, k
-----------------------------------------------------------------------------
(* The member functions.                                                   *)

\* A Buffer in order: the inductive invariant.
IsBuffer(x) ==
    /\ x \in [buffer : Seq(Byte), readerIndex : Nat, writerIndex : Nat]
    /\ x.readerIndex <= x.writerIndex /\ x.writerIndex <= Len(x.buffer)
    /\ kCheapPrepend <= Len(x.buffer)

\* ... built from its parts.
LEMMA MakeBuffer ==
  ASSUME NEW v \in Seq(Byte), NEW r \in Nat, NEW w \in Nat,
         r <= w, w <= Len(v), kCheapPrepend <= Len(v)
  PROVE  LET x == [buffer |-> v, readerIndex |-> r, writerIndex |-> w]
         IN  IsBuffer(x) /\ Buf!Content(x) = SubSeq(v, r + 1, w)
  BY DEF IsBuffer, Buf!Content

\* A new Buffer is in order and empty.
LEMMA NewIsBuffer ==
  ASSUME Buf!Constants, NEW n \in Nat
  PROVE  IsBuffer(Buf!NewBuffer(n)) /\ Buf!Content(Buf!NewBuffer(n)) = <<>>
<1>1. IsBuffer(Buf!NewBuffer(n))
  BY DEF IsBuffer, Buf!NewBuffer, Buf!Constants
<1>2. Buf!Content(Buf!NewBuffer(n)) = SubSeq(Buf!NewBuffer(n).buffer, kCheapPrepend + 1, kCheapPrepend)
  BY Zenon DEF Buf!Content, Buf!NewBuffer
<1> QED BY <1>1, <1>2, SubSeqEmpty DEF Buf!Constants

\* makeSpace and ensureWritableBytes make the room asked for and keep the content.
\* When the content is moved, the reader index is above kCheapPrepend, as
\* makeSpace asserts.
LEMMA EnsureWritableBytesKeeps ==
  ASSUME Buf!Constants, NEW x, IsBuffer(x), NEW len \in Nat
  PROVE  /\ IsBuffer(Buf!EnsureWritableBytes(x, len))
         /\ Buf!WritableBytes(Buf!EnsureWritableBytes(x, len)) >= len
         /\ Buf!Content(Buf!EnsureWritableBytes(x, len)) = Buf!Content(x)
<1> DEFINE y == Buf!EnsureWritableBytes(x, len)
           v == x.buffer
           r == x.readerIndex
           w == x.writerIndex
           k == kCheapPrepend
<1>0. /\ x = [buffer |-> v, readerIndex |-> r, writerIndex |-> w]
      /\ v \in Seq(Byte) /\ r \in Nat /\ w \in Nat /\ k \in Nat
      /\ r <= w /\ w <= Len(v) /\ k <= Len(v) /\ Len(v) \in Nat
      /\ Buf!WritableBytes(x) = Len(v) - w /\ Buf!ReadableBytes(x) = w - r /\ Buf!PrependableBytes(x) = r
      /\ Buf!Content(x) = SubSeq(v, r + 1, w)
  BY DEF IsBuffer, Buf!WritableBytes, Buf!ReadableBytes, Buf!PrependableBytes, Buf!Content, Buf!Constants
<1> HIDE DEF v, r, w
<1>1. CASE Len(v) - w >= len
  <2>1. y = x
    BY <1>0, <1>1 DEF Buf!EnsureWritableBytes
  <2> QED BY <1>0, <1>1, <2>1
<1>2. CASE Len(v) - w < len /\ (Len(v) - w) + r < len + k
  <2> DEFINE n == w + len
             u == Buf!Resized(v, n)
  <2>1. y = [buffer |-> u, readerIndex |-> r, writerIndex |-> w]
    BY <1>0, <1>2 DEF Buf!EnsureWritableBytes, Buf!MakeSpace
  <2>2. n \in Nat /\ w <= n /\ k <= n
    BY <1>0, <1>2
  <2>3. u \in Seq(Byte) /\ Len(u) = n
    BY <1>0, <2>2, ResizedProperties
  <2> HIDE DEF n
  <2>4. SubSeq(u, r + 1, w) = SubSeq(v, r + 1, w)
    <3>1. v \in Seq(Byte) /\ r \in Nat /\ w \in Nat /\ r <= w /\ w <= Len(v)
      BY <1>0
    <3>2. n \in Nat /\ w <= n
      BY <2>2
    <3> HIDE DEF k
    <3> QED BY ONLY Buf!Constants, <3>1, <3>2, ResizedBetween
  <2> HIDE DEF u, y
  <2>5. IsBuffer(y) /\ Buf!Content(y) = Buf!Content(x)
    BY <1>0, <2>1, <2>2, <2>3, <2>4, MakeBuffer, Zenon
  <2>6. Buf!WritableBytes(y) = len
    BY <1>0, <2>1, <2>3 DEF Buf!WritableBytes, n
  <2> QED BY <2>5, <2>6 DEF y
<1>3. CASE Len(v) - w < len /\ ~((Len(v) - w) + r < len + k)
  <2> DEFINE t == SubSeq(v, r + 1, w)
             u == Buf!Copy(v, k, t)
             n == k + (w - r)
  <2>1. k < r /\ n \in Nat /\ k <= n /\ n <= Len(v) /\ Len(v) - n >= len
    BY <1>0, <1>3
  <2>2. y = [buffer |-> u, readerIndex |-> k, writerIndex |-> n]
    BY <1>0, <1>3, Zenon DEF Buf!EnsureWritableBytes, Buf!MakeSpace
  <2>3. t \in Seq(Byte) /\ Len(t) = w - r
    BY <1>0, BetweenProperties
  <2> HIDE DEF t
  <2>4. u \in Seq(Byte) /\ Len(u) = Len(v) /\ SubSeq(u, k + 1, n) = t
    <3>1. k + Len(t) = n
      BY <2>3
    <3>2. u \in Seq(Byte) /\ Len(u) = Len(v)
      BY <1>0, <2>1, <2>3, <3>1, CopyProperties
    <3>3. SubSeq(u, k + 1, k + Len(t)) = t
      BY <1>0, <2>1, <2>3, <3>1, CopyBetween, Zenon
    <3> QED BY <3>1, <3>2, <3>3
  <2> HIDE DEF u, n, y
  <2>5. IsBuffer(y) /\ Buf!Content(y) = Buf!Content(x)
    BY <1>0, <2>1, <2>2, <2>4, MakeBuffer, Zenon DEF t
  <2>6. Buf!WritableBytes(y) >= len
    BY <1>0, <2>1, <2>2, <2>4 DEF Buf!WritableBytes
  <2> QED BY <2>5, <2>6 DEF y
<1> QED BY <1>0, <1>1, <1>2, <1>3

\* Bytes written after the content.
LEMMA WrittenAppends ==
  ASSUME Buf!Constants, NEW x, IsBuffer(x), NEW s \in Seq(Byte), Len(s) <= Buf!WritableBytes(x)
  PROVE  /\ IsBuffer(Buf!Written(x, s)) /\ Buf!Content(Buf!Written(x, s)) = Buf!Content(x) \o s
         /\ Buf!WritableBytes(Buf!Written(x, s)) = Buf!WritableBytes(x) - Len(s)
<1> DEFINE y == Buf!Written(x, s)
           v == x.buffer
           r == x.readerIndex
           w == x.writerIndex
           u == Buf!Copy(v, w, s)
           n == w + Len(s)
<1>0. x = [buffer |-> v, readerIndex |-> r, writerIndex |-> w]
  BY DEF IsBuffer
<1>1. /\ v \in Seq(Byte) /\ r \in Nat /\ w \in Nat /\ Len(s) \in Nat /\ Len(v) \in Nat
      /\ r <= w /\ w <= Len(v) /\ kCheapPrepend <= Len(v)
      /\ n <= Len(v) /\ n \in Nat /\ r <= n
      /\ Buf!WritableBytes(x) = Len(v) - w
      /\ Buf!Content(x) = SubSeq(v, r + 1, w)
  BY DEF IsBuffer, Buf!WritableBytes, Buf!Content
<1> HIDE DEF v, r, w
<1>2. y = [buffer |-> u, readerIndex |-> r, writerIndex |-> n]
  <2>1. y = [x EXCEPT !.buffer = u, !.writerIndex = n]
    BY DEF Buf!Written, v, w
  <2> HIDE DEF y, u, n
  <2> QED BY <1>0, <2>1, Zenon
<1> HIDE DEF y
<1>3. u \in Seq(Byte) /\ Len(u) = Len(v)
  BY <1>1, CopyProperties
<1>4. SubSeq(u, r + 1, n) = SubSeq(v, r + 1, w) \o s
  BY <1>1, CopyAfter, ZenonT(60)
<1> HIDE DEF u, n
<1>5. IsBuffer(y) /\ Buf!Content(y) = SubSeq(u, r + 1, n)
  BY <1>1, <1>2, <1>3, MakeBuffer, Zenon
<1>6. Buf!WritableBytes(y) = Len(v) - n
  BY <1>2, <1>3 DEF Buf!WritableBytes
<1>7. Len(v) - n = Buf!WritableBytes(x) - Len(s)
  BY <1>1 DEF n
<1> QED BY <1>1, <1>4, <1>5, <1>6, <1>7, Zenon DEF y

\* append puts the bytes behind the content, whether or not it had to make space.
LEMMA AppendedAppends ==
  ASSUME Buf!Constants, NEW x, IsBuffer(x), NEW s \in Seq(Byte)
  PROVE  IsBuffer(Buf!Appended(x, s)) /\ Buf!Content(Buf!Appended(x, s)) = Buf!Content(x) \o s
<1> DEFINE y == Buf!EnsureWritableBytes(x, Len(s))
<1>1. IsBuffer(y) /\ Buf!WritableBytes(y) >= Len(s) /\ Buf!Content(y) = Buf!Content(x)
  BY EnsureWritableBytesKeeps
<1>2. Len(s) <= Buf!WritableBytes(y)
  BY <1>1 DEF Buf!WritableBytes, IsBuffer
<1> HIDE DEF y
<1>3. IsBuffer(Buf!Written(y, s)) /\ Buf!Content(Buf!Written(y, s)) = Buf!Content(y) \o s
  BY <1>1, <1>2, WrittenAppends, Zenon
<1> QED BY <1>1, <1>3 DEF Buf!Appended, y

\* prepend puts the bytes before the content.
LEMMA PrependedPrepends ==
  ASSUME Buf!Constants, NEW x, IsBuffer(x), NEW s \in Seq(Byte), Len(s) <= Buf!PrependableBytes(x)
  PROVE  IsBuffer(Buf!Prepended(x, s)) /\ Buf!Content(Buf!Prepended(x, s)) = s \o Buf!Content(x)
<1> DEFINE y == Buf!Prepended(x, s)
           v == x.buffer
           r == x.readerIndex
           w == x.writerIndex
           at == r - Len(s)
           u == Buf!Copy(v, at, s)
<1>0. x = [buffer |-> v, readerIndex |-> r, writerIndex |-> w]
  BY DEF IsBuffer
<1>1. /\ v \in Seq(Byte) /\ r \in Nat /\ w \in Nat /\ Len(s) \in Nat /\ Len(v) \in Nat
      /\ r <= w /\ w <= Len(v) /\ kCheapPrepend <= Len(v) /\ Len(s) <= r
      /\ at \in Nat /\ at <= w /\ at + Len(s) <= Len(v)
      /\ Buf!Content(x) = SubSeq(v, r + 1, w)
  BY DEF IsBuffer, Buf!PrependableBytes, Buf!Content
<1> HIDE DEF v, r, w
<1>2. y = [buffer |-> u, readerIndex |-> at, writerIndex |-> w]
  <2>1. y = [x EXCEPT !.buffer = u, !.readerIndex = at]
    BY DEF Buf!Prepended, v, r
  <2> HIDE DEF y, u, at
  <2> QED BY <1>0, <2>1, Zenon
<1> HIDE DEF y
<1>3. SubSeq(u, at + 1, w) = s \o SubSeq(v, r + 1, w)
  <2>1. v \in Seq(Byte) /\ r \in Nat /\ w \in Nat /\ r <= w /\ w <= Len(v) /\ Len(s) <= r
    BY <1>1
  <2> QED BY ONLY s \in Seq(Byte), <2>1, CopyBefore, Zenon
<1> HIDE DEF at
<1>4. u \in Seq(Byte) /\ Len(u) = Len(v)
  BY <1>1, CopyProperties
<1> HIDE DEF u
<1>5. IsBuffer(y) /\ Buf!Content(y) = SubSeq(u, at + 1, w)
  BY <1>1, <1>2, <1>4, MakeBuffer, Zenon
<1> QED BY <1>1, <1>3, <1>5, Zenon DEF y

\* retrieve drops bytes of the front; all of them when it resets the indices.
LEMMA RetrievedTakes ==
  ASSUME Buf!Constants, NEW x, IsBuffer(x), NEW n \in Nat, n <= Buf!ReadableBytes(x)
  PROVE  /\ IsBuffer(Buf!Retrieved(x, n))
         /\ Buf!Content(Buf!Retrieved(x, n)) = SubSeq(Buf!Content(x), n + 1, Len(Buf!Content(x)))
<1> DEFINE y == Buf!Retrieved(x, n)
           v == x.buffer
           r == x.readerIndex
           w == x.writerIndex
           t == SubSeq(v, r + 1, w)
           k == kCheapPrepend
<1>1. /\ x = [buffer |-> v, readerIndex |-> r, writerIndex |-> w]
      /\ v \in Seq(Byte) /\ r \in Nat /\ w \in Nat /\ Len(v) \in Nat /\ k \in Nat
      /\ r <= w /\ w <= Len(v) /\ k <= Len(v)
      /\ Buf!ReadableBytes(x) = w - r /\ n <= w - r /\ Buf!Content(x) = t
  BY DEF IsBuffer, Buf!ReadableBytes, Buf!Content, Buf!Constants
<1> HIDE DEF v, r, w
<1>2. t \in Seq(Byte) /\ Len(t) = w - r
  BY <1>1, BetweenProperties
<1>3. CASE n < w - r
  <2> DEFINE p == r + n
  <2>1. y = [buffer |-> v, readerIndex |-> p, writerIndex |-> w]
    BY <1>1, <1>3, Zenon DEF Buf!Retrieved
  <2>2. p \in Nat /\ r <= p /\ p <= w /\ p - r = n
    BY <1>1, <1>3
  <2> HIDE DEF p, y
  <2>3. SubSeq(v, p + 1, w) = SubSeq(t, (p - r) + 1, w - r)
    BY <1>1, <2>2, CutBetween
  <2> HIDE DEF t
  <2>4. IsBuffer(y) /\ Buf!Content(y) = SubSeq(v, p + 1, w)
    BY <1>1, <2>1, <2>2, MakeBuffer, Zenon
  <2> QED BY <1>1, <1>2, <2>2, <2>3, <2>4, Zenon DEF y
<1>4. CASE n = w - r
  <2>1. y = [buffer |-> v, readerIndex |-> k, writerIndex |-> k]
    <3>1. ~(n < Buf!ReadableBytes(x))
      BY <1>1, <1>4
    <3> QED BY <1>1, <3>1, Zenon DEF Buf!Retrieved
  <2> HIDE DEF y, t
  <2>2. IsBuffer(y) /\ Buf!Content(y) = SubSeq(v, k + 1, k)
    BY <1>1, <2>1, MakeBuffer
  <2>3. SubSeq(v, k + 1, k) = <<>>
    BY <1>1, SubSeqEmpty
  <2>4. SubSeq(t, n + 1, Len(t)) = <<>>
    BY <1>2, <1>4, SubSeqEmpty
  <2> QED BY <1>1, <2>2, <2>3, <2>4, Zenon DEF y
<1> QED BY <1>1, <1>3, <1>4

\* unwrite drops bytes of the end.
LEMMA UnwriteTakes ==
  ASSUME Buf!Constants, NEW x, IsBuffer(x), NEW n \in Nat, n <= Buf!ReadableBytes(x)
  PROVE  LET y == [x EXCEPT !.writerIndex = x.writerIndex - n]
         IN  IsBuffer(y) /\ Buf!Content(y) = SubSeq(Buf!Content(x), 1, Len(Buf!Content(x)) - n)
<1> DEFINE y == [x EXCEPT !.writerIndex = x.writerIndex - n]
           v == x.buffer
           r == x.readerIndex
           w == x.writerIndex
           t == SubSeq(v, r + 1, w)
           q == w - n
<1>1. /\ y = [buffer |-> v, readerIndex |-> r, writerIndex |-> q]
      /\ v \in Seq(Byte) /\ r \in Nat /\ w \in Nat /\ Len(v) \in Nat
      /\ r <= w /\ w <= Len(v) /\ kCheapPrepend <= Len(v)
      /\ q \in Nat /\ r <= q /\ q <= w /\ q - r = (w - r) - n /\ q <= Len(v) /\ r - r = 0
      /\ Buf!Content(x) = t
  BY DEF IsBuffer, Buf!ReadableBytes, Buf!Content
<1> HIDE DEF v, r, w, q, y
<1>2. Len(t) = w - r
  BY <1>1, BetweenProperties
<1>3. SubSeq(v, r + 1, q) = SubSeq(t, (r - r) + 1, q - r)
  BY <1>1, CutBetween
<1> HIDE DEF t
<1>4. IsBuffer(y) /\ Buf!Content(y) = SubSeq(v, r + 1, q)
  BY <1>1, MakeBuffer, Zenon
<1>5. (r - r) + 1 = 1
  BY <1>1
<1>6. Buf!Content(y) = SubSeq(Buf!Content(x), 1, Len(Buf!Content(x)) - n)
  BY <1>1, <1>2, <1>3, <1>4, <1>5
<1> QED BY <1>4, <1>6, Zenon DEF y

\* readFd appends what readv has read, in one piece or in two.
LEMMA ReceivedAppends ==
  ASSUME Buf!Constants, NEW x, IsBuffer(x), NEW s \in Seq(Byte)
  PROVE  IsBuffer(Buf!Received(x, s)) /\ Buf!Content(Buf!Received(x, s)) = Buf!Content(x) \o s
<1> DEFINE n == Buf!WritableBytes(x)
<1>1. n \in Nat /\ Len(s) \in Nat /\ Buf!Content(x) \in Seq(Byte)
  <2>1. Buf!Content(x) \in Seq(Byte)
    BY BetweenProperties DEF Buf!Content, IsBuffer
  <2> QED BY <2>1 DEF IsBuffer, Buf!WritableBytes
<1>2. CASE Len(s) <= n
  BY <1>2, WrittenAppends DEF Buf!Received
<1>3. CASE Len(s) > n
  <2> DEFINE s1 == SubSeq(s, 1, n)
             s2 == SubSeq(s, n + 1, Len(s))
             y == Buf!Written(x, s1)
  <2>1. Buf!Received(x, s) = Buf!Appended(y, s2)
    BY <1>1, <1>3 DEF Buf!Received
  <2>2. s1 \in Seq(Byte) /\ s2 \in Seq(Byte) /\ Len(s1) = n /\ s1 \o s2 = s
    <3> HIDE DEF n
    <3>1. s1 \in Seq(Byte) /\ Len(s1) = n
      BY <1>1, <1>3, SubSeqProperties
    <3>2. s2 \in Seq(Byte)
      BY <1>1, <1>3, BetweenProperties
    <3>3. s1 \o s2 = SubSeq(s, 1, Len(s))
      <4>1. 1 \in 1 .. Len(s) + 1 /\ n \in 1 - 1 .. Len(s) /\ Len(s) \in n .. Len(s)
        BY <1>1, <1>3
      <4>2. SubSeq(s, 1, n) \o SubSeq(s, n + 1, Len(s)) = SubSeq(s, 1, Len(s))
        BY ONLY <4>1, ConcatAdjacentSubSeq, s \in Seq(Byte), Zenon
      <4> QED BY <4>2, Zenon
    <3> QED BY <3>1, <3>2, <3>3, SubSeqFull, Zenon
  <2>3. n <= Buf!WritableBytes(x)
    BY <1>1
  <2> HIDE DEF s1, s2, n
  <2>4. IsBuffer(y) /\ Buf!Content(y) = Buf!Content(x) \o s1
    BY <2>2, <2>3, WrittenAppends
  <2> HIDE DEF y
  <2>5. IsBuffer(Buf!Appended(y, s2)) /\ Buf!Content(Buf!Appended(y, s2)) = (Buf!Content(x) \o s1) \o s2
    BY <2>2, <2>4, AppendedAppends, Zenon
  <2>6. (Buf!Content(x) \o s1) \o s2 = Buf!Content(x) \o (s1 \o s2)
    <3>1. \A p, q, t \in Seq(Byte) : (p \o q) \o t = p \o (q \o t)
      BY ONLY ConcatAssociative
    <3>2. Buf!Content(x) \in Seq(Byte) /\ s1 \in Seq(Byte) /\ s2 \in Seq(Byte)
      BY <1>1, <2>2
    <3> QED BY ONLY <3>1, <3>2, ZenonT(60)
  <2> HIDE DEF IsBuffer, Buf!Content
  <2> QED BY ONLY <2>1, <2>2, <2>5, <2>6
<1> QED BY <1>1, <1>2, <1>3

\* shrink builds a new Buffer with the same content.
LEMMA ShrinkKeeps ==
  ASSUME Buf!Constants, NEW n \in Sizes, IsBuffer(b), Buf!Shrink(n)
  PROVE  IsBuffer(b') /\ Buf!Content(b') = Buf!Content(b)
<1> DEFINE c == Buf!Content(b)
           len == Buf!ReadableBytes(b) + n
           x == Buf!NewBuffer(kInitialSize)
           y == Buf!EnsureWritableBytes(x, len)
<1>1. c \in Seq(Byte)
  BY BetweenProperties DEF Buf!Content, IsBuffer
<1>2. len \in Nat
  BY DEF IsBuffer, Buf!ReadableBytes, Buf!Constants
<1>3. IsBuffer(x) /\ Buf!Content(x) = <<>>
  BY NewIsBuffer DEF Buf!Constants
<1>4. b' = Buf!Appended(y, c)
  BY DEF Buf!Shrink
<1> HIDE DEF c, len, x
<1>5. IsBuffer(y) /\ Buf!Content(y) = <<>>
  BY <1>2, <1>3, EnsureWritableBytesKeeps
<1> HIDE DEF y
<1>6. IsBuffer(b') /\ Buf!Content(b') = <<>> \o c
  BY <1>1, <1>4, <1>5, AppendedAppends
<1> QED BY <1>1, <1>6, ConcatEmptySeq DEF c

-----------------------------------------------------------------------------
(* The theorems.                                                           *)

\* Every step keeps the Buffer in order, and is a step of the queue or leaves the
\* content as it is.
LEMMA BufferStep ==
  ASSUME Buf!Constants, IsBuffer(b), [Buf!Next]_b
  PROVE  IsBuffer(b') /\ [Buf!Queue!Next]_(Buf!Content(b))
<1> USE DEF Buf!Queue!Next, Buf!Queue!Put, Buf!Queue!PutFront, Buf!Queue!Take, Buf!Queue!TakeBack
<1>0. \A s \in Chunks : s \in Seq(Byte)
  BY DEF Buf!Constants
<1>1. Len(Buf!Content(b)) = Buf!ReadableBytes(b) /\ Buf!ReadableBytes(b) \in Nat
  BY BetweenProperties, SMTT(20) DEF Buf!Content, IsBuffer, Buf!ReadableBytes
<1>2. ASSUME NEW s \in Chunks, Buf!Append_(s) PROVE IsBuffer(b') /\ [Buf!Queue!Next]_(Buf!Content(b))
  <2>1. IsBuffer(b') /\ Buf!Content(b') = Buf!Content(b) \o s
    BY <1>0, <1>2, AppendedAppends DEF Buf!Append_
  <2> QED BY <2>1, Zenon
<1>3. ASSUME NEW s \in Chunks, Buf!Prepend(s) PROVE IsBuffer(b') /\ [Buf!Queue!Next]_(Buf!Content(b))
  <2>1. IsBuffer(b') /\ Buf!Content(b') = s \o Buf!Content(b)
    BY <1>0, <1>3, PrependedPrepends DEF Buf!Prepend
  <2> QED BY <2>1
<1>4. ASSUME NEW s \in Chunks, Buf!HasWritten(s) PROVE IsBuffer(b') /\ [Buf!Queue!Next]_(Buf!Content(b))
  <2>1. IsBuffer(b') /\ Buf!Content(b') = Buf!Content(b) \o s
    BY <1>0, <1>4, WrittenAppends DEF Buf!HasWritten
  <2> QED BY <2>1, Zenon
<1>5. ASSUME NEW s \in Chunks, Buf!ReadFd(s) PROVE IsBuffer(b') /\ [Buf!Queue!Next]_(Buf!Content(b))
  <2>1. IsBuffer(b') /\ Buf!Content(b') = Buf!Content(b) \o s
    BY <1>0, <1>5, ReceivedAppends DEF Buf!ReadFd
  <2> QED BY <2>1, Zenon
<1>6. ASSUME NEW n \in 0 .. Buf!ReadableBytes(b), Buf!Retrieve(n)
      PROVE  IsBuffer(b') /\ [Buf!Queue!Next]_(Buf!Content(b))
  <2>1. IsBuffer(b') /\ Buf!Content(b') = SubSeq(Buf!Content(b), n + 1, Len(Buf!Content(b)))
    BY <1>1, <1>6, RetrievedTakes DEF Buf!Retrieve
  <2> QED BY <1>1, <2>1, Zenon
<1>7. ASSUME NEW n \in 0 .. Buf!ReadableBytes(b), Buf!Unwrite(n)
      PROVE  IsBuffer(b') /\ [Buf!Queue!Next]_(Buf!Content(b))
  <2>1. IsBuffer(b') /\ Buf!Content(b') = SubSeq(Buf!Content(b), 1, Len(Buf!Content(b)) - n)
    <3>1. n \in Nat /\ n <= Buf!ReadableBytes(b)
      BY <1>1
    <3>2. b' = [b EXCEPT !.writerIndex = b.writerIndex - n]
      BY <1>7 DEF Buf!Unwrite
    <3>3. LET y == [b EXCEPT !.writerIndex = b.writerIndex - n]
          IN  IsBuffer(y) /\ Buf!Content(y) = SubSeq(Buf!Content(b), 1, Len(Buf!Content(b)) - n)
      BY ONLY <3>1, UnwriteTakes, Buf!Constants, IsBuffer(b), Zenon
    <3> QED BY <3>2, <3>3, Zenon
  <2> QED BY <1>1, <2>1
<1>8. ASSUME NEW n \in Sizes, Buf!EnsureWritable(n) PROVE IsBuffer(b') /\ [Buf!Queue!Next]_(Buf!Content(b))
  <2>1. IsBuffer(b') /\ Buf!Content(b') = Buf!Content(b)
    BY <1>8, EnsureWritableBytesKeeps DEF Buf!EnsureWritable, Buf!Constants
  <2> QED BY <2>1
<1>9. ASSUME NEW n \in Sizes, Buf!Shrink(n) PROVE IsBuffer(b') /\ [Buf!Queue!Next]_(Buf!Content(b))
  BY <1>9, ShrinkKeeps
<1>10. CASE UNCHANGED b
  BY <1>10 DEF IsBuffer, Buf!Content
<1> QED BY <1>2, <1>3, <1>4, <1>5, <1>6, <1>7, <1>8, <1>9, <1>10, Zenon DEF Buf!Next

\* The initial Buffer is in order and empty.
LEMMA BufferInit ==
  ASSUME Buf!Constants, Buf!Init
  PROVE  IsBuffer(b) /\ Buf!Queue!Init
  BY NewIsBuffer DEF Buf!Init, Buf!Queue!Init, Buf!Constants

\* 0 <= readerIndex_ <= writerIndex_ <= size, as the picture in Buffer.h has it: for
\* vectors and byte strings of any length, the indices stay in order whatever append,
\* prepend, retrieve, unwrite, makeSpace, shrink and readFd do to them.
THEOREM IndicesStayInOrder == Buf!Constants => (Buf!Spec => []Buf!IndicesInOrder)
<1>1. Buf!Constants /\ Buf!Init => Buf!Constants /\ IsBuffer(b)
  BY BufferInit
<1>2. Buf!Constants /\ IsBuffer(b) /\ [Buf!Next]_b => (Buf!Constants /\ IsBuffer(b))'
  BY BufferStep DEF Buf!Constants, IsBuffer
<1>3. IsBuffer(b) => Buf!IndicesInOrder
  BY DEF IsBuffer, Buf!IndicesInOrder
<1> QED BY <1>1, <1>2, <1>3, PTL DEF Buf!Spec

\* Whatever Buffer does to make room (resize, the move of the content to the front,
\* the second read buffer of readFd, shrink), its user sees a queue of bytes.
THEOREM ImplementsByteQueue == Buf!Constants => (Buf!Spec => Buf!QueueSpec)
<1>1. Buf!Constants /\ Buf!Init => Buf!Constants /\ IsBuffer(b) /\ Buf!Queue!Init
  BY BufferInit
<1>2. Buf!Constants /\ IsBuffer(b) /\ [Buf!Next]_b
        => (Buf!Constants /\ IsBuffer(b))' /\ [Buf!Queue!Next]_(Buf!Content(b))
  BY BufferStep DEF Buf!Constants, IsBuffer
<1> QED BY <1>1, <1>2, PTL DEF Buf!Spec, Buf!QueueSpec, Buf!Queue!Spec
=============================================================================
