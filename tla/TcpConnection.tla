--------------------------- MODULE TcpConnection ---------------------------
(***************************************************************************)
(* The life of one muduo::net::TcpConnection of a TcpServer: the           *)
(* connection, its Channel in the EPollPoller, the socket, and the entry   *)
(* in the server's connections_, across the two event loops that share it  *)
(* (the io loop of the connection and the base loop of the server, which   *)
(* are one with a single reactor).                                         *)
(*                                                                         *)
(* A loop runs a handler or a functor to its end, one at a time, functors  *)
(* in the order they were queued (see EventLoop); other threads see of it  *)
(* only state_ and the queues.  Their calls are split where they read and  *)
(* write state_, which is a plain variable.  Buffers are counted in units. *)
(* A failed assertion ends the program.                                    *)
(***************************************************************************)
EXTENDS Naturals, Sequences, FiniteSets

CONSTANTS
    Users,          \* the threads, other than the loops', that call the connection
    Uses,           \* the ways a program may use the connection (see Use)
    Callbacks,      \* which of "writeComplete" and "highWaterMark" are set
    HighWaterMark,  \* highWaterMark_
    MaxMessage,     \* bound: length of a message
    MaxInput        \* bound: units the peer sends

Ops == {"send", "shutdown", "forceClose", "forceCloseWithDelay", "startRead", "stopRead"}

\* What other threads and user code in the io loop call, and how often; whether the
\* base loop and the io loop are one, whether the TcpServer may be destroyed, and whether
\* startRead and stopRead are called only when connected().
Use == [threadOps : SUBSET Ops, loopOps : SUBSET Ops, calls : Nat,
        single : BOOLEAN, destroy : BOOLEAN, checked : BOOLEAN]

\* The programs the library keeps all of its promises to: other threads only send; user
\* code in the loop closes the connection of a server that stays, or, where one loop is
\* all there is, stops and starts reading.
Careful(u) ==
    /\ u.checked /\ u.threadOps \subseteq {"send"}
    /\ \/ ~u.single /\ ~u.destroy /\ u.loopOps \cap {"startRead", "stopRead"} = {}
       \/ u.single /\ u.loopOps \subseteq {"send", "startRead", "stopRead"}

ASSUME TcpConnectionAssumption ==
    /\ Uses \subseteq Use
    /\ HighWaterMark \in Nat \ {0}
    /\ MaxMessage \in Nat \ {0} /\ MaxInput \in Nat

VARIABLES
    state,        \* state_
    reading,      \* reading_
    output,       \* outputBuffer_.readableBytes()
    events,       \* events_ of the channel
    index,        \* index_ of the channel
    handling,     \* the io loop handles the events of its poll
    revents,      \* revents_ of the channel, what is left to handle
    batch,        \* functors the io loop has still to run before it polls
    inMap,        \* connections_ has the connection
    server,       \* the TcpServer exists
    ioFunctors,   \* functor queue of the io loop
    baseFunctors, \* functor queue of the base loop
    delayTimers,  \* number of timers of forceCloseWithDelay
    use,          \* how this program uses the connection, one of Uses
    userPc,       \* where each thread is in its call
    calls,        \* number of calls of the user
    peer,         \* kernel: "open", "closed" (FIN received) or "reset" (RST received)
    input,        \* kernel: units received and not read
    received,     \* kernel: units the peer has sent
    writeShut,    \* kernel: shutdownWrite was called
    sockErr,      \* kernel: SO_ERROR is pending
    ups, downs,   \* history: calls of connectionCallback_, up and down
    failed        \* the assertion that failed

connVars == <<state, reading, output, events, index>>
serverVars == <<inMap, server, baseFunctors>>
loopVars == <<handling, revents, batch>>
userVars == <<use, userPc, calls>>
sockVars == <<peer, input, received, writeShut, sockErr>>
history == <<ups, downs>>
\* What the functions that close a connection may change.
closeVars == <<connVars, serverVars, ioFunctors, history, failed>>
vars == <<closeVars, delayTimers, loopVars, userVars, sockVars>>

Writing == "write" \in events

Open == state \in {"kConnected", "kDisconnecting"}

Idle == <<"none", "idle">>

\* TcpServer::newConnection has made the connection and handed it to its loop.
Init ==
    /\ state = "kConnecting" /\ reading = TRUE /\ output = 0
    /\ events = {} /\ index = "kNew"
    /\ handling = FALSE /\ revents = {} /\ batch = 0
    /\ inMap = TRUE /\ server = TRUE
    /\ ioFunctors = <<[name |-> "connectEstablished"]>> /\ baseFunctors = <<>>
    /\ delayTimers = 0
    /\ use \in Uses /\ userPc = [u \in Users |-> Idle] /\ calls = 0
    /\ peer = "open" /\ input = 0 /\ received = 0 /\ writeShut = FALSE /\ sockErr = FALSE
    /\ ups = 0 /\ downs = 0
    /\ failed = "none"

Running == failed = "none"

\* An assertion fails, and the program ends.
Fail(assertion) ==
    /\ failed' = assertion
    /\ UNCHANGED <<connVars, serverVars, ioFunctors, history>>

Functor(name) == [name |-> name]

-----------------------------------------------------------------------------
(* Channel, EPollPoller and the iteration of the io loop.                  *)

\* Channel::update and EPollPoller::updateChannel, for new events_.
UpdateChannel(newEvents) ==
    /\ events' = newEvents
    /\ index' = IF index = "kAdded" /\ newEvents = {} THEN "kDeleted" ELSE "kAdded"

\* What epoll_wait reports for the channel; HUP and ERR need no interest.
Reported ==
    IF index # "kAdded" THEN {}
    ELSE (IF "read" \in events /\ (input > 0 \/ peer # "open") THEN {"IN"} ELSE {})
         \cup (IF peer = "reset" \/ (peer = "closed" /\ writeShut) THEN {"HUP"} ELSE {})
         \cup (IF sockErr THEN {"ERR"} ELSE {})

\* The poll of the io loop returns; the socket may have room for output or not.
Poll ==
    /\ Running
    /\ ~handling /\ batch = 0
    /\ handling' = TRUE
    /\ revents' \in {Reported, Reported \cup (IF Writing THEN {"OUT"} ELSE {})}
    /\ UNCHANGED <<closeVars, delayTimers, batch, userVars, sockVars>>

\* doPendingFunctors takes the functors queued up to now.
SwapFunctors ==
    /\ Running
    /\ handling /\ revents = {}
    /\ handling' = FALSE
    /\ batch' = Len(ioFunctors)
    /\ UNCHANGED <<closeVars, delayTimers, revents, userVars, sockVars>>

-----------------------------------------------------------------------------
(* The functions that close a connection.  "queue" is the functor queue of *)
(* the io loop, "rest" that of the base loop, as the call finds them.      *)

\* Mutant of RemoveConnectionInLoop: connectDestroyed is not queued.
RemoveConnectionInLoopOnly(rest, queue) ==
    inMap' = FALSE /\ ioFunctors' = queue /\ baseFunctors' = rest

\* removeConnectionInLoop, when its assertion holds.
RemoveConnectionInLoop(rest, queue) ==
    /\ inMap' = FALSE
    /\ ioFunctors' = Append(queue, Functor("connectDestroyed"))
    /\ baseFunctors' = rest

\* Mutant of RemoveConnection: the base loop is not told.
RemoveConnectionForgotten(queue) ==
    ioFunctors' = queue /\ UNCHANGED <<baseFunctors, inMap>>

\* closeCallback_: TcpServer::removeConnection.
RemoveConnection(queue) ==
    IF use.single
    THEN RemoveConnectionInLoop(baseFunctors, queue)
    ELSE /\ baseFunctors' = Append(baseFunctors, Functor("removeConnectionInLoop"))
         /\ ioFunctors' = queue
         /\ UNCHANGED inMap

\* The assertions of handleClose, and the objects its closeCallback_ uses.
HandleCloseFails ==
    CASE ~Open -> "handleClose"
      [] ~server -> "serverDestroyed"
      [] use.single /\ ~inMap -> "removeConnectionInLoop"
      [] OTHER -> "none"

\* Mutant of HandleClose: the channel keeps its events.
HandleCloseKeepsEvents(queue) ==
    IF HandleCloseFails # "none" THEN Fail(HandleCloseFails)
    ELSE /\ state' = "kDisconnected"
         /\ downs' = downs + 1
         /\ RemoveConnection(queue)
         /\ UNCHANGED <<events, index, reading, output, server, ups, failed>>

\* handleClose.
HandleClose(queue) ==
    IF HandleCloseFails # "none" THEN Fail(HandleCloseFails)
    ELSE /\ state' = "kDisconnected"
         /\ UpdateChannel({})
         /\ downs' = downs + 1
         /\ RemoveConnection(queue)
         /\ UNCHANGED <<reading, output, server, ups, failed>>

\* The assertions of Channel::remove and removeChannel, as connectDestroyed meets them.
ConnectDestroyedFails ==
    CASE state # "kConnected" /\ events # {} -> "remove"
      [] state # "kConnected" /\ index = "kNew" -> "removeChannel"
      [] OTHER -> "none"

\* Mutant of ConnectDestroyed: the callback is called whatever the state.
ConnectDestroyedCallsBack ==
    /\ events' = {}
    /\ index' = "kNew"
    /\ state' = "kDisconnected"
    /\ downs' = downs + 1
    /\ UNCHANGED <<reading, output, ups>>

\* connectDestroyed with Channel::remove and removeChannel, when the assertions hold.
ConnectDestroyed ==
    /\ events' = {}
    /\ index' = "kNew"
    /\ IF state = "kConnected"
       THEN state' = "kDisconnected" /\ downs' = downs + 1
       ELSE UNCHANGED <<state, downs>>
    /\ UNCHANGED <<reading, output, ups>>

-----------------------------------------------------------------------------
(* The functions that send and receive.                                    *)

\* The calls of queueInLoop for a callback the user may have set.
Queued(queue, callback) ==
    IF callback \in Callbacks THEN Append(queue, Functor(callback)) ELSE queue

\* write() fails with EPIPE or ECONNRESET.
WriteFails == sockErr \/ writeShut \/ peer = "reset"

\* The end of sendInLoop: what write() has not taken is kept, and the channel waits.
KeepRemaining(remaining, queue) ==
    /\ output' = output + remaining
    /\ ioFunctors' = IF remaining > 0 /\ output < HighWaterMark /\ output + remaining >= HighWaterMark
                     THEN Queued(queue, "highWaterMark") ELSE queue
    /\ IF remaining > 0 /\ ~Writing THEN UpdateChannel(events \cup {"write"})
                                    ELSE UNCHANGED <<events, index>>

\* sendInLoop: given up when disconnected, written at once when nothing waits.
SendInLoop(len, queue) ==
    /\ CASE state = "kDisconnected" ->
              ioFunctors' = queue /\ UNCHANGED <<output, events, index, sockErr>>
         [] state # "kDisconnected" /\ (Writing \/ output > 0) ->
              KeepRemaining(len, queue) /\ UNCHANGED sockErr
         [] state # "kDisconnected" /\ ~(Writing \/ output > 0) /\ WriteFails ->
              ioFunctors' = queue /\ sockErr' = FALSE /\ UNCHANGED <<output, events, index>>
         [] OTHER ->
              /\ \E nwrote \in 0 .. len :
                   KeepRemaining(len - nwrote,
                                 IF nwrote = len THEN Queued(queue, "writeComplete") ELSE queue)
              /\ UNCHANGED sockErr
    /\ UNCHANGED <<state, reading, serverVars, history, failed, peer, input, received, writeShut>>

\* Mutant of ShutdownInLoop: output that waits is not tested for.
ShutdownInLoopAtOnce == writeShut' = TRUE

\* shutdownInLoop.
ShutdownInLoop == writeShut' = (writeShut \/ ~Writing)

\* startReadInLoop and stopReadInLoop.
StartReadInLoop ==
    IF ~reading \/ "read" \notin events
    THEN UpdateChannel(events \cup {"read"}) /\ reading' = TRUE
    ELSE UNCHANGED <<events, index, reading>>

StopReadInLoop ==
    IF reading \/ "read" \in events
    THEN UpdateChannel(events \ {"read"}) /\ reading' = FALSE
    ELSE UNCHANGED <<events, index, reading>>

\* forceClose, called in the io loop.
ForceClose ==
    /\ IF Open
       THEN state' = "kDisconnecting" /\ ioFunctors' = Append(ioFunctors, Functor("forceCloseInLoop"))
       ELSE UNCHANGED <<state, ioFunctors>>
    /\ UNCHANGED <<reading, output, events, index, serverVars, history, failed>>

-----------------------------------------------------------------------------
(* Events of the channel, handled in the order of handleEventWithGuard.    *)

InHandler(event, before) ==
    /\ Running
    /\ event \in revents /\ revents \cap before = {}
    /\ revents' = revents \ {event}
    /\ UNCHANGED <<handling, batch, delayTimers, userVars>>

\* POLLHUP: closeCallback_ is called unless there is something to read.
CloseEvent ==
    /\ InHandler("HUP", {})
    /\ IF "IN" \in revents THEN UNCHANGED closeVars ELSE HandleClose(ioFunctors)
    /\ UNCHANGED sockVars

\* POLLERR: handleError fetches SO_ERROR.
ErrorEvent ==
    /\ InHandler("ERR", {"HUP"})
    /\ sockErr' = FALSE
    /\ UNCHANGED <<closeVars, peer, input, received, writeShut>>

\* POLLIN: handleRead gets input, an error, or the end of the stream.
ReadEvent ==
    /\ InHandler("IN", {"HUP", "ERR"})
    /\ \/ /\ input > 0 /\ input' \in 0 .. input - 1
          /\ UNCHANGED <<closeVars, sockErr>>
       \/ /\ input = 0 /\ sockErr /\ sockErr' = FALSE
          /\ UNCHANGED <<closeVars, input>>
       \/ /\ input = 0 /\ ~sockErr
          /\ HandleClose(ioFunctors)
          /\ UNCHANGED <<input, sockErr>>
    /\ UNCHANGED <<peer, received, writeShut>>

\* Mutant of HandleWrite: writing is not disabled when all is written.
HandleWriteStaysWriting(n) ==
    /\ output' = output - n
    /\ ioFunctors' = IF n = output THEN Queued(ioFunctors, "writeComplete") ELSE ioFunctors
    /\ UNCHANGED <<events, index, writeShut>>

\* handleWrite, when write() takes n units.
HandleWrite(n) ==
    /\ output' = output - n
    /\ IF n = output
       THEN /\ UpdateChannel(events \ {"write"})
            /\ ioFunctors' = Queued(ioFunctors, "writeComplete")
            /\ writeShut' = (writeShut \/ state = "kDisconnecting")
       ELSE UNCHANGED <<events, index, ioFunctors, writeShut>>

\* POLLOUT: output is written, or write() fails, or the channel is no longer writing.
WriteEvent ==
    /\ InHandler("OUT", {"HUP", "ERR", "IN"})
    /\ \/ /\ Writing /\ ~WriteFails
          /\ \E n \in 1 .. output : HandleWrite(n)
          /\ UNCHANGED sockErr
       \/ /\ Writing => WriteFails
          /\ sockErr' = (sockErr /\ ~Writing)
          /\ UNCHANGED <<output, events, index, ioFunctors, writeShut>>
    /\ UNCHANGED <<state, reading, serverVars, history, failed, peer, input, received>>

-----------------------------------------------------------------------------
(* Functors of the two loops.                                              *)

\* The io loop runs the next functor of its batch, which has this name.
NextFunctor(name) ==
    /\ Running /\ batch > 0
    /\ Head(ioFunctors).name = name
    /\ batch' = batch - 1
    /\ UNCHANGED <<handling, revents, userVars>>

\* connectEstablished.
RunConnectEstablished ==
    /\ NextFunctor("connectEstablished")
    /\ state' = "kConnected"
    /\ UpdateChannel({"read"})
    /\ ups' = ups + 1
    /\ ioFunctors' = Tail(ioFunctors)
    /\ UNCHANGED <<reading, output, serverVars, downs, failed, delayTimers, sockVars>>

RunConnectDestroyed ==
    /\ NextFunctor("connectDestroyed")
    /\ IF ConnectDestroyedFails # "none" THEN Fail(ConnectDestroyedFails)
       ELSE /\ ConnectDestroyed
            /\ ioFunctors' = Tail(ioFunctors)
            /\ UNCHANGED <<serverVars, failed>>
    /\ UNCHANGED <<delayTimers, sockVars>>

RunSendInLoop ==
    /\ NextFunctor("sendInLoop")
    /\ SendInLoop(Head(ioFunctors).len, Tail(ioFunctors))
    /\ UNCHANGED delayTimers

RunShutdownInLoop ==
    /\ NextFunctor("shutdownInLoop")
    /\ ShutdownInLoop
    /\ ioFunctors' = Tail(ioFunctors)
    /\ UNCHANGED <<connVars, serverVars, history, failed, delayTimers, peer, input, received, sockErr>>

RunReadInLoop ==
    /\ \/ NextFunctor("startReadInLoop") /\ StartReadInLoop
       \/ NextFunctor("stopReadInLoop") /\ StopReadInLoop
    /\ ioFunctors' = Tail(ioFunctors)
    /\ UNCHANGED <<state, output, serverVars, history, failed, delayTimers, sockVars>>

\* Mutant of RunForceCloseInLoop: state_ is not tested.
RunForceCloseInLoopUnchecked ==
    /\ NextFunctor("forceCloseInLoop")
    /\ HandleClose(Tail(ioFunctors))
    /\ UNCHANGED <<delayTimers, sockVars>>

\* Mutant of RunForceCloseInLoop: only a connection that is kConnected is closed.
RunForceCloseInLoopConnected ==
    /\ NextFunctor("forceCloseInLoop")
    /\ IF state = "kConnected" THEN HandleClose(Tail(ioFunctors))
       ELSE ioFunctors' = Tail(ioFunctors) /\ UNCHANGED <<connVars, serverVars, history, failed>>
    /\ UNCHANGED <<delayTimers, sockVars>>

\* forceCloseInLoop.
RunForceCloseInLoop ==
    /\ NextFunctor("forceCloseInLoop")
    /\ IF Open THEN HandleClose(Tail(ioFunctors))
       ELSE ioFunctors' = Tail(ioFunctors) /\ UNCHANGED <<connVars, serverVars, history, failed>>
    /\ UNCHANGED <<delayTimers, sockVars>>

\* A functor that calls a callback of the user, or that sets the timer of
\* forceCloseWithDelay for another thread.
RunOther ==
    /\ \/ NextFunctor("writeComplete") /\ UNCHANGED delayTimers
       \/ NextFunctor("highWaterMark") /\ UNCHANGED delayTimers
       \/ NextFunctor("addTimerInLoop") /\ delayTimers' = delayTimers + 1
    /\ ioFunctors' = Tail(ioFunctors)
    /\ UNCHANGED <<connVars, serverVars, history, failed, sockVars>>

\* The base loop runs removeConnectionInLoop.
RunRemoveConnectionInLoop ==
    /\ Running /\ baseFunctors # <<>>
    /\ IF server /\ inMap
       THEN /\ RemoveConnectionInLoop(Tail(baseFunctors), ioFunctors)
            /\ UNCHANGED <<connVars, server, history, failed>>
       ELSE Fail(IF server THEN "removeConnectionInLoop" ELSE "serverDestroyed")
    /\ UNCHANGED <<delayTimers, loopVars, userVars, sockVars>>

\* Mutant of ServerDestroyed: the connections are dropped without connectDestroyed.
ServerDestroyedDrops ==
    /\ Running /\ use.destroy /\ server
    /\ server' = FALSE /\ inMap' = FALSE
    /\ UNCHANGED <<connVars, baseFunctors, ioFunctors, history, failed>>
    /\ UNCHANGED <<delayTimers, loopVars, userVars, sockVars>>

\* TcpServer::~TcpServer, not called from a handler of the connection's loop.  With
\* one loop, newConnection has run connectEstablished before it returned.
ServerDestroyed ==
    /\ Running /\ use.destroy /\ server
    /\ use.single => ~handling /\ state # "kConnecting"
    /\ IF use.single /\ inMap /\ ConnectDestroyedFails # "none"
       THEN Fail(ConnectDestroyedFails)
       ELSE /\ server' = FALSE /\ inMap' = FALSE
            /\ IF inMap /\ use.single THEN ConnectDestroyed ELSE UNCHANGED <<connVars, history>>
            /\ ioFunctors' = IF inMap /\ ~use.single
                             THEN Append(ioFunctors, Functor("connectDestroyed")) ELSE ioFunctors
            /\ UNCHANGED <<baseFunctors, failed>>
    /\ UNCHANGED <<delayTimers, loopVars, userVars, sockVars>>

-----------------------------------------------------------------------------
(* Calls of the user, who has the connection since connectionCallback_.    *)

\* What the test of state_ at the start of each function lets through.
Passes(op) ==
    CASE op \in {"send", "shutdown"} -> state = "kConnected"
      [] op \in {"forceClose", "forceCloseWithDelay"} -> Open
      [] OTHER -> TRUE

Call(ops, op) ==
    /\ Running /\ ups = 1
    /\ op \in ops /\ Passes(op)
    /\ calls < use.calls
    /\ calls' = calls + 1
    /\ UNCHANGED <<loopVars, use>>

\* Calls made in the io loop.
LoopSend ==
    /\ Call(use.loopOps, "send")
    /\ \E len \in 1 .. MaxMessage : SendInLoop(len, ioFunctors)
    /\ UNCHANGED <<delayTimers, userPc>>

LoopShutdown ==
    /\ Call(use.loopOps, "shutdown")
    /\ state' = "kDisconnecting"
    /\ ShutdownInLoop
    /\ UNCHANGED <<reading, output, events, index, serverVars, ioFunctors, history, failed,
                   delayTimers, userPc, peer, input, received, sockErr>>

LoopForceClose ==
    /\ Call(use.loopOps, "forceClose")
    /\ ForceClose
    /\ UNCHANGED <<delayTimers, userPc, sockVars>>

LoopForceCloseWithDelay ==
    /\ Call(use.loopOps, "forceCloseWithDelay")
    /\ state' = "kDisconnecting"
    /\ delayTimers' = delayTimers + 1
    /\ UNCHANGED <<reading, output, events, index, serverVars, ioFunctors, history, failed,
                   userPc, sockVars>>

\* The timer calls forceClose, through a weak pointer: state_ is kDisconnected
\* when the connection no longer exists.
DelayTimer ==
    /\ Running /\ delayTimers > 0
    /\ delayTimers' = delayTimers - 1
    /\ ForceClose
    /\ UNCHANGED <<loopVars, userVars, sockVars>>

LoopRead ==
    /\ use.checked => state = "kConnected"
    /\ \/ Call(use.loopOps, "startRead") /\ StartReadInLoop
       \/ Call(use.loopOps, "stopRead") /\ StopReadInLoop
    /\ UNCHANGED <<state, output, serverVars, ioFunctors, history, failed, delayTimers, userPc, sockVars>>

\* Calls made in another thread: the test of state_, its assignment, and the functor
\* for the loop are three steps.
ThreadCall(u) ==
    /\ userPc[u] = Idle
    /\ \E op \in use.threadOps :
        /\ Call(use.threadOps, op)
        /\ userPc' = [userPc EXCEPT ![u] =
              <<op, IF op \in {"shutdown", "forceClose", "forceCloseWithDelay"} THEN "set" ELSE "queue">>]
    /\ UNCHANGED <<closeVars, delayTimers, sockVars>>

ThreadSetState(u) ==
    /\ Running /\ userPc[u][2] = "set"
    /\ state' = "kDisconnecting"
    /\ userPc' = [userPc EXCEPT ![u][2] = "queue"]
    /\ UNCHANGED <<reading, output, events, index, serverVars, ioFunctors, history, failed,
                   delayTimers, loopVars, use, calls, sockVars>>

\* The functors each function gives to runInLoop or queueInLoop.
FunctorsOf(op) ==
    CASE op = "send" -> {[name |-> "sendInLoop", len |-> n] : n \in 1 .. MaxMessage}
      [] op = "shutdown" -> {Functor("shutdownInLoop")}
      [] op = "forceClose" -> {Functor("forceCloseInLoop")}
      [] op = "forceCloseWithDelay" -> {Functor("addTimerInLoop")}
      [] op = "startRead" -> {Functor("startReadInLoop")}
      [] op = "stopRead" -> {Functor("stopReadInLoop")}

ThreadQueue(u) ==
    /\ Running /\ userPc[u][2] = "queue"
    /\ \E f \in FunctorsOf(userPc[u][1]) : ioFunctors' = Append(ioFunctors, f)
    /\ userPc' = [userPc EXCEPT ![u] = Idle]
    /\ UNCHANGED <<connVars, serverVars, history, failed, delayTimers, loopVars, use, calls, sockVars>>

-----------------------------------------------------------------------------
\* The peer sends a unit, closes or resets the connection.
Peer ==
    /\ Running
    /\ \/ /\ peer = "open" /\ received < MaxInput
          /\ received' = received + 1 /\ input' = input + 1
          /\ UNCHANGED <<peer, sockErr>>
       \/ /\ peer = "open"
          /\ peer' = "closed"
          /\ UNCHANGED <<input, received, sockErr>>
       \/ /\ peer # "reset"
          /\ peer' = "reset" /\ sockErr' = TRUE
          /\ UNCHANGED <<input, received>>
    /\ UNCHANGED <<closeVars, delayTimers, loopVars, userVars, writeShut>>

IoLoop ==
    \/ Poll \/ CloseEvent \/ ErrorEvent \/ ReadEvent \/ WriteEvent \/ SwapFunctors
    \/ RunConnectEstablished \/ RunConnectDestroyed \/ RunSendInLoop \/ RunShutdownInLoop
    \/ RunReadInLoop \/ RunForceCloseInLoop \/ RunOther

Next ==
    \/ IoLoop \/ DelayTimer \/ RunRemoveConnectionInLoop \/ ServerDestroyed
    \/ LoopSend \/ LoopShutdown \/ LoopForceClose \/ LoopForceCloseWithDelay \/ LoopRead
    \/ \E u \in Users : ThreadCall(u) \/ ThreadSetState(u) \/ ThreadQueue(u)
    \/ Peer

Spec == Init /\ [][Next]_vars

\* The loops keep running, a timer that is set expires, and a call that was begun is
\* ended.  Nothing is assumed of the peer: the poll need never report room for output.
FairSpec ==
    /\ Spec
    /\ WF_vars(IoLoop)
    /\ WF_vars(RunRemoveConnectionInLoop)
    /\ WF_vars(DelayTimer)
    /\ \A u \in Users : WF_vars(ThreadSetState(u) \/ ThreadQueue(u))

-----------------------------------------------------------------------------
(* Properties.                                                             *)

\* The values of the variables.
TypeOK ==
    /\ state \in {"kConnecting", "kConnected", "kDisconnecting", "kDisconnected"}
    /\ reading \in BOOLEAN /\ output \in 0 .. use.calls * MaxMessage
    /\ events \subseteq {"read", "write"} /\ index \in {"kNew", "kAdded", "kDeleted"}
    /\ handling \in BOOLEAN /\ batch \in 0 .. Len(ioFunctors)
    /\ revents \subseteq {"IN", "OUT", "HUP", "ERR"}
    /\ inMap \in BOOLEAN /\ server \in BOOLEAN
    /\ delayTimers \in 0 .. use.calls /\ calls \in 0 .. use.calls
    /\ peer \in {"open", "closed", "reset"} /\ input \in 0 .. received
    /\ received \in 0 .. MaxInput
    /\ writeShut \in BOOLEAN /\ sockErr \in BOOLEAN

\* No assertion of TcpConnection, TcpServer, Channel or EPollPoller fails on the life
\* of a connection, and no loop uses a TcpServer that is destroyed.
AssertionsHold == Careful(use) => failed = "none"

\* connectionCallback_ is called once when the connection is up and once when it is
\* down, and it has been called for the end exactly when state_ says so.
UpThenDown ==
    Careful(use) => /\ downs <= ups /\ ups <= 1
                    /\ downs = 1 <=> state = "kDisconnected"

Up == ups = 1 /\ downs = 0

\* The channel of a connection that is up waits for room exactly when there is output
\* waiting: output never sits in the buffer unwatched, and the level-triggered poll
\* never reports room nobody uses (sendInLoop, handleWrite).
WritingIffOutput == Up => (Writing <=> output > 0)

\* While the connection is up, shutdown() sends the FIN only after all output, and
\* nothing is buffered behind it, whichever threads call send and shutdown.
FinAfterOutput == Up /\ writeShut => output = 0

\* Who holds a shared_ptr: the map and the functors bound to one.
Held ==
    \/ inMap
    \/ baseFunctors # <<>>
    \/ \E i \in 1 .. Len(ioFunctors) :
          ioFunctors[i].name \in {"connectEstablished", "connectDestroyed", "forceCloseInLoop",
                                  "writeComplete", "highWaterMark"}

\* When the last pointer of the library is gone, the connection is as ~TcpConnection
\* and ~Channel assert it: disconnected, and its channel removed from the poller.
ReleasedClean == Careful(use) /\ ~Held => state = "kDisconnected" /\ index = "kNew"

Released == ~inMap /\ state = "kDisconnected" /\ index = "kNew"

\* When the peer closes or resets the connection, the connection is taken out of the
\* server and of the poller; one that stopRead() has left unwatched may stay.
PeerGoneReleases == (Careful(use) /\ peer # "open") ~> (Released \/ ~reading)

\* forceClose(), direct or by its timer, ends the connection whatever the peer does.
ForceCloseReleases ==
    (/\ Careful(use)
     /\ delayTimers > 0 \/ \E i \in 1 .. Len(ioFunctors) : ioFunctors[i].name = "forceCloseInLoop")
        ~> Released

\* Stated by the assertion of Channel::remove: a channel is removed when it has no events.
NoneEventAtRemove == failed # "remove"

\* Stated by the assertion of TcpConnection::handleClose: an open connection is closed.
OpenAtHandleClose == failed # "handleClose"

\* Stated by the assertion of TcpServer::removeConnectionInLoop: the connection is there.
PresentAtRemoveConnection == failed # "removeConnectionInLoop"
=============================================================================
