-------------------------- MODULE EventLoopThread --------------------------
(***************************************************************************)
(* muduo::net::EventLoopThread composed with the EventLoop it runs: a      *)
(* thread (the owner) creates the object, starts the loop thread, uses the *)
(* loop and destroys the object.  The loop thread is EventLoop's; the      *)
(* owner is one of the threads that call it.                               *)
(***************************************************************************)
EXTENDS EventLoop

CONSTANT Owner

ASSUME OwnerAssumption == Owner \in Threads

VARIABLES
    loopPtr,    \* loop_ is not NULL; guarded by mutex_ except in the destructor
    ownerPc,    \* where the owner is in the life of the object
    threadFunc, \* where the loop thread is in threadFunc
    otherQuit   \* history: somebody other than the destructor called quit

threadVars == <<loopPtr, ownerPc, threadFunc, otherQuit>>
allVars == <<vars, threadVars>>

ThreadInit ==
    /\ Init
    /\ loopPtr = FALSE
    /\ ownerPc = "created"
    /\ threadFunc = "none"
    /\ otherQuit = FALSE

-----------------------------------------------------------------------------
(* The owner.                                                              *)

\* startLoop: thread_.start().  It returns when the new thread is running.
StartThread ==
    /\ ownerPc = "created"
    /\ ownerPc' = "starting"
    /\ threadFunc' = "callback"
    /\ UNCHANGED <<vars, loopPtr, otherQuit>>

\* startLoop: one evaluation of the condition of its wait loop, under mutex_.
StartLoop ==
    /\ ownerPc = "starting"
    /\ ownerPc' = IF loopPtr THEN "running" ELSE "waiting"
    /\ UNCHANGED <<vars, loopPtr, threadFunc, otherQuit>>

\* The destructor up to the test of loop_, which is read without the mutex.
\* When it is NULL the members go away and the thread, if any, is detached.
Destroy ==
    /\ ownerPc \in {"created", "running"}
    /\ threadPc[Owner] = "idle"
    /\ ownerPc' = IF loopPtr THEN "quit" ELSE "destroyed"
    /\ UNCHANGED <<vars, loopPtr, threadFunc, otherQuit>>

\* The destructor: loop_->quit() up to its wakeup.
DestroyQuit ==
    /\ ownerPc = "quit"
    /\ Quit(Owner)
    /\ ownerPc' = "join"
    /\ UNCHANGED <<loopPtr, threadFunc, otherQuit>>

\* Mutant of Join: the destructor does not wait.
NoJoin ==
    /\ ownerPc = "join"
    /\ threadPc[Owner] = "idle"
    /\ ownerPc' = "destroyed"
    /\ UNCHANGED <<vars, loopPtr, threadFunc, otherQuit>>

\* The destructor: thread_.join() after quit() has returned.
Join ==
    /\ ownerPc = "join"
    /\ threadPc[Owner] = "idle"
    /\ threadFunc = "finished"
    /\ ownerPc' = "destroyed"
    /\ UNCHANGED <<vars, loopPtr, threadFunc, otherQuit>>

-----------------------------------------------------------------------------
(* The loop thread.                                                        *)

\* Mutant of Publish: the condition is not notified.
PublishSilently ==
    /\ threadFunc = "callback"
    /\ loopPtr' = TRUE
    /\ threadFunc' = "published"
    /\ UNCHANGED <<vars, ownerPc, otherQuit>>

\* threadFunc: loop_ = &loop and cond_.notify(), under mutex_.
Publish ==
    /\ threadFunc = "callback"
    /\ loopPtr' = TRUE
    /\ ownerPc' = IF ownerPc = "waiting" THEN "starting" ELSE ownerPc
    /\ threadFunc' = "published"
    /\ UNCHANGED <<vars, otherQuit>>

\* threadFunc calls loop().
EnterLoop ==
    /\ threadFunc = "published"
    /\ Loop
    /\ threadFunc' = "looping"
    /\ UNCHANGED <<loopPtr, ownerPc, otherQuit>>

\* threadFunc after loop() has returned: loop_ = NULL, under mutex_.
Unpublish ==
    /\ threadFunc = "looping"
    /\ pc = "outside"
    /\ loopPtr' = FALSE
    /\ threadFunc' = "unlocking"
    /\ UNCHANGED <<vars, ownerPc, otherQuit>>

\* The end of threadFunc: mutex_ is released, then the EventLoop is destroyed.
Finish ==
    /\ threadFunc = "unlocking"
    /\ threadFunc' = "finished"
    /\ UNCHANGED <<vars, loopPtr, ownerPc, otherQuit>>

\* User code in the loop thread: callback_, or a callback or functor of the loop.
SelfCall ==
    /\ \/ threadFunc = "callback"
       \/ threadFunc = "looping" /\ pc # "outside"
    /\ \/ QueueInLoopSelf /\ UNCHANGED otherQuit
       \/ QuitSelf /\ otherQuit' = TRUE
    /\ UNCHANGED <<loopPtr, ownerPc, threadFunc>>

\* The owner and other threads call the loop that startLoop returned, while it
\* and the EventLoopThread exist.
OtherCall(t) ==
    /\ \/ /\ ownerPc = "running"
          /\ threadFunc \in {"published", "looping"}
          /\ \/ QueueInLoop(t) /\ UNCHANGED otherQuit
             \/ Quit(t) /\ otherQuit' = TRUE
       \/ Wakeup(t) /\ UNCHANGED otherQuit
    /\ UNCHANGED <<loopPtr, ownerPc, threadFunc>>

\* Steps of the loop that do not concern the EventLoopThread.
InLoop ==
    /\ threadFunc = "looping"
    /\ LoopStep \/ PollNothing \/ \E c \in Channels : ChannelReady(c)
    /\ UNCHANGED threadVars

OwnerStep == StartThread \/ StartLoop \/ DestroyQuit \/ Join

ThreadFuncStep == Publish \/ EnterLoop \/ Unpublish \/ Finish

ThreadNext ==
    \/ OwnerStep
    \/ Destroy
    \/ ThreadFuncStep
    \/ SelfCall
    \/ \E t \in Threads : OtherCall(t)
    \/ InLoop

\* All threads are scheduled.  The user is not obliged to destroy the object.
ThreadSpec ==
    /\ ThreadInit
    /\ [][ThreadNext]_allVars
    /\ WF_allVars(OwnerStep)
    /\ WF_allVars(ThreadFuncStep)
    /\ WF_allVars(threadFunc = "looping" /\ LoopStep /\ UNCHANGED threadVars)
    /\ \A t \in Threads : WF_allVars(Wakeup(t) /\ UNCHANGED threadVars)

-----------------------------------------------------------------------------
(* Properties.                                                             *)

\* The variables of the composition keep their types.
ThreadTypeOK ==
    /\ TypeOK
    /\ loopPtr \in BOOLEAN
    /\ ownerPc \in {"created", "starting", "waiting", "running", "quit", "join", "destroyed"}
    /\ threadFunc \in {"none", "callback", "published", "looping", "unlocking", "finished"}
    /\ otherQuit \in BOOLEAN

\* No thread outlives the object: when the destructor returns, the loop thread
\* has never been started or has left threadFunc, which uses mutex_ and loop_ to
\* its last line, unless somebody else has quit the loop.
NoThreadOutlivesObject ==
    ownerPc = "destroyed" => (threadFunc \in {"none", "finished"} \/ otherQuit)

\* startLoop returns: the wait for loop_ misses no notification, unless the loop
\* has already been left when the owner looks.
StartLoopReturns ==
    (ownerPc = "starting") ~> (ownerPc = "running" \/ threadFunc = "finished")

\* A destructor that finds the loop running gets to its end.
DestructorEndsRunningLoop ==
    (ownerPc = "join" /\ quit /\ looping) ~> (ownerPc = "destroyed")

\* What the unit test of EventLoopThread says of its destructor, and EventLoop.h
\* of quit(): the destructor calls quit(), which quits the loop, and so it ends.
DestructorEnds == (ownerPc = "join") ~> (ownerPc = "destroyed")
=============================================================================
