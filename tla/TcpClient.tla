------------------------------ MODULE TcpClient ------------------------------
(***************************************************************************)
(* muduo/net/TcpClient.cc and Connector.cc: a client that connects, tries  *)
(* again when it fails, hands the socket to a TcpConnection, and connects  *)
(* again when that is closed.  Everything runs in one EventLoop, except    *)
(* that connect, disconnect and stop may be called in another thread.      *)
(*                                                                         *)
(* The loop polls, handles events, and runs the functors queued before     *)
(* (EventLoop).  A TcpConnection is reduced to its life (TcpConnection).   *)
(* An iteration takes less than half of kInitRetryDelayMs: a retry timer   *)
(* is not due before the second poll after it was set, the timer of one    *)
(* second that ~TcpClient sets not before the third.                       *)
(***************************************************************************)
EXTENDS Naturals, Sequences, FiniteSets, SequencesExt

CONSTANTS
    ThreadOps,      \* what another thread calls: of connect, disconnect, stop
    MaxConnects,    \* bound: calls of connect; one until the client is stopped for good
    MaxCalls,       \* bound: calls of the user
    DestroyIdle     \* a client with a connection is destroyed when its connector has nothing queued

ASSUME TcpClientAssumption ==
    /\ ThreadOps \subseteq {"connect", "disconnect", "stop"}
    /\ MaxConnects \in Nat /\ MaxCalls \in Nat /\ DestroyIdle \in BOOLEAN

VARIABLES
    state,      \* Connector::state_
    connect,    \* Connector::connect_
    channel,    \* Connector::channel_: "none", "polled", or "removed" from the poller
    retryTimers,\* number of retry timers set in this iteration, in the last, and before
    hackTimer,  \* age of the timer of ~TcpClient that holds the connector, or NoHack
    client,     \* the TcpClient exists
    retry,      \* TcpClient::retry_
    wanted,     \* TcpClient::connect_
    conn,       \* the TcpConnection: "none", "new" (in this iteration) or "up"
    phase,      \* of the loop: "events", "functors", or "restart" inside removeConnection
    functors,   \* functor queue of the loop
    batch,      \* functors it has still to run before it polls
    thread,     \* where the other thread is in its call
    sockets,    \* number of sockets open
    connects,   \* number of calls of connect so far
    calls,      \* number of calls of the user so far
    stopped,    \* history: stop was called after the last connect
    gaveUp,     \* history: connect(2) failed for good
    failed      \* the assertion that failed

connector == <<state, connect, channel, retryTimers>>
loop == <<phase, batch>>
user == <<connects, calls, stopped, thread>>
vars == <<connector, hackTimer, client, retry, wanted, conn, loop, functors, sockets, user, gaveUp, failed>>

NoHack == 4
NoTimers == [age \in 0 .. 2 |-> 0]

Init ==
    /\ state = "kDisconnected" /\ connect = FALSE /\ channel = "none"
    /\ retryTimers = NoTimers /\ hackTimer = NoHack
    /\ client = TRUE /\ retry \in BOOLEAN /\ wanted = TRUE /\ conn = "none"
    /\ phase = "events" /\ functors = <<>> /\ batch = 0
    /\ thread = "idle" /\ sockets = 0 /\ connects = 0 /\ calls = 0
    /\ stopped = FALSE /\ gaveUp = FALSE /\ failed = "none"

Running == failed = "none"

\* Who holds a shared_ptr to the Connector.
ConnectorAlive == client \/ hackTimer # NoHack \/ \E age \in 0 .. 2 : retryTimers[age] > 0

\* The functors that are bound to a bare pointer to it.
Pending(f) == f \in Range(functors)
ConnectorQueued == \E f \in {"startInLoop", "stopInLoop", "resetChannel"} : Pending(f)
-----------------------------------------------------------------------------
(* Connector.  The operators leave `functors' to the actions.              *)

\* Mutant of RetryConnect: the timer is not set.
RetryConnectOnce(c, timers) ==
    /\ sockets' = sockets - 1
    /\ state' = "kDisconnected" /\ channel' = c
    /\ retryTimers' = timers
    /\ UNCHANGED <<gaveUp, failed>>

\* retry(sockfd), for a connector whose channel is c.
RetryConnect(c, timers) ==
    /\ sockets' = sockets - 1
    /\ state' = "kDisconnected" /\ channel' = c
    /\ retryTimers' = IF connect' THEN [timers EXCEPT ![0] = @ + 1] ELSE timers
    /\ UNCHANGED <<gaveUp, failed>>

\* connect(), by what connect(2) returns: under way, to be retried, or hopeless.
Connecting(timers) ==
    \/ /\ state' = "kConnecting" /\ sockets' = sockets + 1
       /\ channel' = "polled"
       /\ failed' = IF channel = "none" THEN failed ELSE "connecting"
       /\ retryTimers' = timers /\ UNCHANGED gaveUp
    \/ /\ state' = "kDisconnected"
       /\ retryTimers' = [timers EXCEPT ![0] = @ + 1]
       /\ UNCHANGED <<sockets, channel, gaveUp, failed>>
    \/ /\ state' = "kDisconnected" /\ gaveUp' = TRUE /\ retryTimers' = timers
       /\ UNCHANGED <<sockets, channel, failed>>

\* startInLoop, when st is the state and the value of connect_ is its next one.
StartInLoop(st, timers) ==
    IF st # "kDisconnected"
    THEN /\ failed' = "startInLoop" /\ state' = st /\ retryTimers' = timers
         /\ UNCHANGED <<channel, sockets, gaveUp>>
    ELSE IF connect' THEN Connecting(timers)
    ELSE /\ state' = st /\ retryTimers' = timers
         /\ UNCHANGED <<channel, sockets, gaveUp, failed>>

\* The channel of the connector reports an error: handleError, and handleWrite finds
\* nothing more to do; or handleWrite finds an error, or that it is its own peer.
ConnectFails ==
    /\ Running /\ phase = "events" /\ channel = "polled" /\ state = "kConnecting"
    /\ UNCHANGED connect
    /\ RetryConnect("removed", retryTimers)
    /\ functors' = Append(functors, "resetChannel")
    /\ UNCHANGED <<hackTimer, client, retry, wanted, conn, loop, user>>

\* Mutant of Connected: connect_ is not tested.
ConnectedUnasked ==
    /\ Running /\ phase = "events" /\ channel = "polled" /\ state = "kConnecting"
    /\ state' = "kConnected" /\ channel' = "removed"
    /\ functors' = Append(functors, "resetChannel")
    /\ conn' = "new" /\ UNCHANGED sockets
    /\ failed' = IF client THEN failed ELSE "newConnection"
    /\ UNCHANGED <<connect, retryTimers, hackTimer, client, retry, wanted, loop, user, gaveUp>>

\* Mutant of Connected: a socket that is no longer wanted is not closed.
ConnectedLeaks ==
    /\ Running /\ phase = "events" /\ channel = "polled" /\ state = "kConnecting"
    /\ state' = "kConnected" /\ channel' = "removed"
    /\ functors' = Append(functors, "resetChannel")
    /\ conn' = IF connect THEN "new" ELSE conn
    /\ failed' = IF connect /\ ~client THEN "newConnection" ELSE failed
    /\ UNCHANGED <<connect, retryTimers, hackTimer, client, retry, wanted, loop, sockets, user, gaveUp>>

\* handleWrite when the connection is there: TcpClient::newConnection takes the
\* socket, unless stop() was called.
Connected ==
    /\ Running /\ phase = "events" /\ channel = "polled" /\ state = "kConnecting"
    /\ state' = "kConnected" /\ channel' = "removed"
    /\ functors' = Append(functors, "resetChannel")
    /\ IF connect
       THEN /\ conn' = "new" /\ UNCHANGED sockets
            /\ failed' = IF client THEN failed ELSE "newConnection"
       ELSE sockets' = sockets - 1 /\ UNCHANGED <<conn, failed>>
    /\ UNCHANGED <<connect, retryTimers, hackTimer, client, retry, wanted, loop, user, gaveUp>>

\* A retry timer: startInLoop.
RetryTimer ==
    /\ Running /\ phase = "events" /\ retryTimers[2] > 0
    /\ UNCHANGED connect
    /\ StartInLoop(state, [retryTimers EXCEPT ![2] = @ - 1])
    /\ UNCHANGED <<hackTimer, client, retry, wanted, conn, loop, functors, user>>

\* The timer of ~TcpClient: the pointer to the connector goes.
HackTimer ==
    /\ Running /\ phase = "events" /\ hackTimer = 3
    /\ hackTimer' = NoHack
    /\ UNCHANGED <<connector, client, retry, wanted, conn, loop, functors, sockets, user, gaveUp, failed>>
-----------------------------------------------------------------------------
(* The connection is closed, by its peer or by its user.                   *)

\* removeConnection; ~TcpClient has replaced it by detail::removeConnection.
RemoveConnection ==
    /\ Running /\ phase = "events" /\ conn = "up"
    /\ conn' = "none"
    /\ functors' = Append(functors, "connectDestroyed")
    /\ phase' = IF client /\ retry /\ wanted THEN "restart" ELSE phase
    /\ UNCHANGED <<connector, hackTimer, client, retry, wanted, batch, sockets, user, gaveUp, failed>>

\* Connector::restart, in the same call.
Restart ==
    /\ Running /\ phase = "restart"
    /\ phase' = "events"
    /\ connect' = TRUE
    /\ StartInLoop("kDisconnected", retryTimers)
    /\ UNCHANGED <<hackTimer, client, retry, wanted, conn, batch, functors, user>>
-----------------------------------------------------------------------------
(* The loop.                                                               *)

SwapFunctors ==
    /\ Running /\ phase = "events"
    /\ phase' = "functors" /\ batch' = Len(functors)
    /\ UNCHANGED <<connector, hackTimer, client, retry, wanted, conn, functors, sockets, user, gaveUp, failed>>

\* The poll returns; the timers get older.
Poll ==
    /\ Running /\ phase = "functors" /\ batch = 0
    /\ phase' = "events"
    /\ retryTimers' = [age \in 0 .. 2 |-> CASE age = 0 -> 0
                                            [] age = 1 -> retryTimers[0]
                                            [] age = 2 -> retryTimers[1] + retryTimers[2]]
    /\ hackTimer' = IF hackTimer < 3 THEN hackTimer + 1 ELSE hackTimer
    /\ conn' = IF conn = "new" THEN "up" ELSE conn
    /\ UNCHANGED <<state, connect, channel, client, retry, wanted, batch, functors, sockets, user, gaveUp, failed>>

NextFunctor(f) ==
    /\ Running /\ phase = "functors" /\ batch > 0 /\ Head(functors) = f
    /\ batch' = batch - 1
    /\ UNCHANGED <<phase, hackTimer, client, retry, wanted, conn, user>>

RunStartInLoop ==
    /\ NextFunctor("startInLoop")
    /\ UNCHANGED connect
    /\ StartInLoop(state, retryTimers)
    /\ functors' = Tail(functors)

\* Mutant of RunStopInLoop: an attempt under way is left to end by itself.
RunStopInLoopLate ==
    /\ NextFunctor("stopInLoop")
    /\ functors' = Tail(functors)
    /\ UNCHANGED <<connector, sockets, gaveUp, failed>>

RunStopInLoop ==
    /\ NextFunctor("stopInLoop")
    /\ UNCHANGED connect
    /\ IF state = "kConnecting"
       THEN /\ RetryConnect("removed", retryTimers)
            /\ functors' = Append(Tail(functors), "resetChannel")
       ELSE /\ UNCHANGED <<state, channel, retryTimers, sockets, gaveUp, failed>>
            /\ functors' = Tail(functors)

RunResetChannel ==
    /\ NextFunctor("resetChannel")
    /\ channel' = "none"
    /\ functors' = Tail(functors)
    /\ UNCHANGED <<state, connect, retryTimers, sockets, gaveUp, failed>>

\* connectDestroyed drops the last pointer to the connection, which closes its socket.
RunConnectDestroyed ==
    /\ NextFunctor("connectDestroyed")
    /\ sockets' = sockets - 1
    /\ functors' = Tail(functors)
    /\ UNCHANGED <<connector, gaveUp, failed>>
-----------------------------------------------------------------------------
(* The user, in the loop ...                                               *)

Call ==
    /\ Running /\ client /\ phase # "restart" /\ calls < MaxCalls
    /\ calls' = calls + 1
    /\ UNCHANGED <<retry, loop>>

Connect ==
    /\ Call /\ thread = "idle" /\ connects < MaxConnects
    /\ connects' = connects + 1 /\ stopped' = FALSE
    /\ wanted' = TRUE /\ connect' = TRUE
    /\ StartInLoop(state, retryTimers)
    /\ UNCHANGED <<hackTimer, client, conn, functors, thread>>

\* disconnect: shutdown() of the connection, if there is one, will end it.
Disconnect ==
    /\ Call
    /\ wanted' = FALSE
    /\ UNCHANGED <<connector, hackTimer, client, conn, functors, sockets, connects, stopped, thread, gaveUp, failed>>

Stop ==
    /\ Call
    /\ wanted' = FALSE /\ connect' = FALSE /\ stopped' = TRUE
    /\ functors' = Append(functors, "stopInLoop")
    /\ UNCHANGED <<state, channel, retryTimers, hackTimer, client, conn, sockets, connects, thread, gaveUp, failed>>

\* Mutant of Destroy: nothing holds the connector until it has stopped.
DestroyAtOnce ==
    /\ Running /\ client /\ phase # "restart" /\ thread = "idle"
    /\ DestroyIdle /\ conn # "none" => ~ConnectorQueued
    /\ client' = FALSE
    /\ IF conn # "none" THEN UNCHANGED <<connect, functors, stopped>>
       ELSE /\ connect' = FALSE /\ stopped' = TRUE
            /\ functors' = Append(functors, "stopInLoop")
    /\ UNCHANGED <<state, channel, retryTimers, hackTimer, retry, wanted, conn, loop, sockets, connects,
                   calls, thread, gaveUp, failed>>

\* ~TcpClient.  The connection goes on without it, or is closed if nobody else has it.
Destroy ==
    /\ Running /\ client /\ phase # "restart" /\ thread = "idle"
    /\ DestroyIdle /\ conn # "none" => ~ConnectorQueued
    /\ client' = FALSE
    /\ IF conn # "none" THEN UNCHANGED <<connect, functors, hackTimer, stopped>>
       ELSE /\ connect' = FALSE /\ stopped' = TRUE
            /\ functors' = Append(functors, "stopInLoop")
            /\ hackTimer' = 0
    /\ UNCHANGED <<state, channel, retryTimers, retry, wanted, conn, loop, sockets, connects, calls,
                   thread, gaveUp, failed>>

\* ... and in another thread, where a call is several steps.
ThreadCall ==
    /\ Running /\ client /\ thread = "idle" /\ calls < MaxCalls
    /\ calls' = calls + 1
    /\ \E op \in ThreadOps :
        /\ op = "connect" => connects < MaxConnects
        /\ connects' = IF op = "connect" THEN connects + 1 ELSE connects
        /\ wanted' = (op = "connect")
        /\ thread' = IF op = "disconnect" THEN "idle" ELSE op
    /\ UNCHANGED <<connector, hackTimer, client, retry, conn, loop, functors, sockets, stopped, gaveUp, failed>>

\* Connector::start and stop: connect_ is set ...
ThreadSet ==
    /\ Running /\ thread \in {"connect", "stop"}
    /\ connect' = (thread = "connect")
    /\ thread' = IF thread = "connect" THEN "startInLoop" ELSE "stopInLoop"
    /\ stopped' = (thread = "stop")
    /\ UNCHANGED <<state, channel, retryTimers, hackTimer, client, retry, wanted, conn, loop, functors,
                   sockets, connects, calls, gaveUp, failed>>

\* ... and the functor queued.
ThreadQueue ==
    /\ Running /\ thread \in {"startInLoop", "stopInLoop"}
    /\ functors' = Append(functors, thread)
    /\ thread' = "idle"
    /\ UNCHANGED <<connector, hackTimer, client, retry, wanted, conn, loop, sockets, connects, calls,
                   stopped, gaveUp, failed>>

LoopStep ==
    \/ RetryTimer \/ HackTimer \/ Restart \/ SwapFunctors \/ Poll
    \/ RunStartInLoop \/ RunStopInLoop \/ RunResetChannel \/ RunConnectDestroyed

Next ==
    \/ ConnectFails \/ Connected \/ RemoveConnection
    \/ RetryTimer \/ HackTimer \/ Restart \/ SwapFunctors \/ Poll
    \/ RunStartInLoop \/ RunStopInLoop \/ RunResetChannel \/ RunConnectDestroyed
    \/ Connect \/ Disconnect \/ Stop \/ Destroy
    \/ ThreadCall \/ ThreadSet \/ ThreadQueue

Spec == Init /\ [][Next]_vars

\* The loop goes round, a timer that is due is not passed over for ever, a call that
\* was begun is ended, and of endlessly many attempts one is not refused.
FairSpec ==
    /\ Spec
    /\ WF_vars(LoopStep) /\ WF_vars(ThreadSet \/ ThreadQueue)
    /\ WF_vars(SwapFunctors \/ Poll) /\ SF_vars(RetryTimer)
    /\ SF_vars(RetryTimer /\ state' = "kConnecting") /\ SF_vars(Connected)
-----------------------------------------------------------------------------
(* Properties.                                                             *)

\* The assertions of Connector hold: startInLoop finds it disconnected and connecting()
\* finds no channel, since there is one attempt, one timer or one connection at a
\* time; and no TcpClient is called after its destruction.
AssertionsHold == failed = "none"

\* The Connector is not destroyed before the functors that hold a bare pointer to it
\* have run, and before its channel is gone (the assertion of ~Connector): what the
\* timer of ~TcpClient is for.
ConnectorOutlivesFunctors ==
    ~ConnectorAlive => /\ channel = "none"
                       /\ ~ConnectorQueued

Count(f) == Cardinality({i \in 1 .. Len(functors) : functors[i] = f})

\* Every socket that is open belongs to the attempt under way or to a connection, and
\* is closed once.
SocketsOwned ==
    sockets = (IF state = "kConnecting" THEN 1 ELSE 0) + (IF conn # "none" THEN 1 ELSE 0)
                 + Count("connectDestroyed")

\* stop() ends the attempt under way, and no new one begins: "void stop();  // can be
\* called in any thread" (Connector.h).
StopHolds ==
    stopped /\ ~Pending("stopInLoop") /\ thread = "idle" => state # "kConnecting"

\* A client that is to be connected gets its connection, however many attempts fail,
\* and with retry_ a new one after each close.
GetsConnected ==
    (connects > 0 /\ client /\ wanted /\ retry)
        ~> (conn # "none" \/ ~wanted \/ ~client \/ gaveUp)
=============================================================================
