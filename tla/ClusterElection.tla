--------------------------- MODULE ClusterElection ---------------------------
(***************************************************************************)
(* Redis Cluster: the election that replaces the failed master of a shard  *)
(* (src/redis/src/cluster.c).                                              *)
(*                                                                         *)
(* Replicas are the replicas of the failed master, Masters the masters of  *)
(* the other shards.  A replica asks them for their votes in a new epoch,  *)
(* and takes the slots of the shard when a majority has voted for it; it   *)
(* claims them with that epoch as its configEpoch.                         *)
(*                                                                         *)
(* Messages may be lost, delayed and reordered, never duplicated: they     *)
(* travel on TCP links.  A message that stays in net is one that is lost.  *)
(* A node may crash at any time and restarts from its nodes.conf.  Failure *)
(* detection is left open (a node may hold the owner of the slots for      *)
(* failed at any time), and so is time (a delay may be over at any step).  *)
(***************************************************************************)
EXTENDS Naturals, FiniteSets

CONSTANTS
    Replicas,       \* the replicas of the failed master
    Masters,        \* the masters of the other shards
    MaxElections,   \* bound: number of elections started
    MaxCrashes,     \* bound: number of crashes
    Timely,         \* every vote arrives before auth_retry_time, or never
    Barrier         \* no vote leaves before the configuration is saved

Nodes == Replicas \union Masters

ASSUME ClusterAssumption ==
    /\ IsFiniteSet(Masters)
    /\ Replicas \cap Masters = {}
    /\ MaxElections \in Nat
    /\ MaxCrashes \in Nat
    /\ Timely \in BOOLEAN
    /\ Barrier \in BOOLEAN

VARIABLES
    vol,        \* what each node knows, in memory
    disk,       \* ... and in nodes.conf
    phase,      \* failover_auth_time and failover_auth_sent of each replica
    count,      \* failover_auth_count
    authEpoch,  \* failover_auth_epoch
    net,        \* requests and votes sent and not yet received
    elections,  \* number of elections started so far
    crashes,    \* number of crashes so far
    votes,      \* history: the votes cast (and not lost in a crash)
    wins        \* history: the elections won

electionVars == <<phase, count, authEpoch, elections>>
historyVars == <<votes, wins>>
vars == <<vol, disk, electionVars, net, crashes, historyVars>>

\* cur is currentEpoch, voted is lastVoteEpoch, conf the configEpoch of the node
\* that owns the slots of the shard.
View == [cur : Nat, voted : Nat, conf : Nat, role : {"master", "slave"}]

Message == [type : {"req", "ack"}, from : Replicas, voter : Masters, epoch : Nat, conf : Nat]

Init ==
    /\ vol = [n \in Nodes |-> [cur |-> 1, voted |-> 0, conf |-> 1,
                               role |-> IF n \in Masters THEN "master" ELSE "slave"]]
    /\ disk = vol
    /\ phase = [s \in Replicas |-> "idle"]
    /\ count = [s \in Replicas |-> 0]
    /\ authEpoch = [s \in Replicas |-> 0]
    /\ net = {}
    /\ elections = 0
    /\ crashes = 0
    /\ votes = {}
    /\ wins = {}

\* server.cluster->size / 2 + 1: the failed master counts.
Quorum == (Cardinality(Masters) + 1) \div 2 + 1

MaxOf(a, b) == IF a < b THEN b ELSE a

-----------------------------------------------------------------------------
(* The replica: clusterHandleSlaveFailover.                                *)

\* Mutant of Schedule: the votes of the last election are kept.
ScheduleKeepCount(s) ==
    /\ vol[s].role = "slave"
    /\ phase' = [phase EXCEPT ![s] = "scheduled"]
    /\ net' = IF Timely THEN {m \in net : m.from # s} ELSE net
    /\ UNCHANGED <<vol, disk, count, authEpoch, elections, crashes, historyVars>>

\* auth_age > auth_retry_time: set up a new election, to start after a delay.
Schedule(s) ==
    /\ vol[s].role = "slave"
    /\ phase' = [phase EXCEPT ![s] = "scheduled"]
    /\ count' = [count EXCEPT ![s] = 0]
    /\ net' = IF Timely THEN {m \in net : m.from # s} ELSE net
    /\ UNCHANGED <<vol, disk, authEpoch, elections, crashes, historyVars>>

\* The delay is over: ask every master for its vote, in a new epoch.
RequestAuth(s) ==
    /\ vol[s].role = "slave"
    /\ phase[s] = "scheduled"
    /\ elections < MaxElections
    /\ elections' = elections + 1
    /\ vol' = [vol EXCEPT ![s].cur = @ + 1]
    /\ authEpoch' = [authEpoch EXCEPT ![s] = vol[s].cur + 1]
    /\ phase' = [phase EXCEPT ![s] = "sent"]
    /\ net' = net \union {[type |-> "req", from |-> s, voter |-> n, epoch |-> vol[s].cur + 1,
                           conf |-> vol[s].conf] : n \in Masters}
    /\ UNCHANGED <<disk, count, crashes, historyVars>>

\* clusterFailoverReplaceYourMaster: claim the slots under the new epoch, save.
Win(s) ==
    /\ vol[s].role = "slave"
    /\ phase[s] = "sent"
    /\ count[s] >= Quorum
    /\ LET v == [vol[s] EXCEPT !.conf = authEpoch[s], !.role = "master"]
       IN  /\ vol' = [vol EXCEPT ![s] = v]
           /\ disk' = [disk EXCEPT ![s] = v]
    /\ wins' = wins \union {[winner |-> s, epoch |-> authEpoch[s]]}
    /\ UNCHANGED <<electionVars, net, crashes, votes>>

-----------------------------------------------------------------------------
(* The packets: clusterProcessPacket.                                      *)

\* Mutant of Grants: lastVoteEpoch is not looked at.
GrantsAgain(m) ==
    /\ m.epoch >= vol[m.voter].cur
    /\ m.conf >= vol[m.voter].conf

\* clusterSendFailoverAuthIfNeeded: the conditions to vote.  currentEpoch has
\* been raised to the epoch of the request.  The delay since an earlier vote is
\* left open.
Grants(m) ==
    /\ m.epoch >= vol[m.voter].cur
    /\ m.epoch # vol[m.voter].voted
    /\ m.conf >= vol[m.voter].conf

\* A request that is denied raises currentEpoch, as every packet does (Gossip).
SendAuthIfNeeded(m) ==
    /\ m.type = "req"
    /\ Grants(m)
    /\ vol' = [vol EXCEPT ![m.voter] = [@ EXCEPT !.cur = m.epoch, !.voted = m.epoch]]
    /\ net' = (net \ {m}) \union {[m EXCEPT !.type = "ack"]}
    /\ votes' = votes \union {[voter |-> m.voter, epoch |-> m.epoch, for |-> m.from]}
    /\ UNCHANGED <<disk, electionVars, crashes, wins>>

\* The handler that writes a vote to its link runs after clusterBeforeSleep has
\* saved it, provided the barrier holds.
OnWire(m) == Barrier /\ m.type = "ack" => m.epoch <= disk[m.voter].voted

\* CLUSTERMSG_TYPE_FAILOVER_AUTH_ACK.
ReceiveAck(m) ==
    /\ m.type = "ack"
    /\ OnWire(m)
    /\ vol' = [vol EXCEPT ![m.from].cur = MaxOf(@, m.epoch)]
    /\ count' = [count EXCEPT ![m.from] = IF m.epoch >= authEpoch[m.from] THEN @ + 1 ELSE @]
    /\ net' = net \ {m}
    /\ UNCHANGED <<disk, phase, authEpoch, elections, crashes, historyVars>>

\* Any packet of n raises the currentEpoch of r.
Gossip(n, r) ==
    /\ vol[r].cur < vol[n].cur
    /\ vol' = [vol EXCEPT ![r].cur = vol[n].cur]
    /\ UNCHANGED <<disk, electionVars, net, crashes, historyVars>>

\* Mutant of Claim: the new owner's configEpoch is taken over, its currentEpoch not.
ClaimKeepCur(n, r) ==
    /\ vol[r].conf < vol[n].conf
    /\ vol' = [vol EXCEPT ![r].conf = vol[n].conf,
                          ![r].role = IF r \in Masters THEN @ ELSE "slave"]
    /\ UNCHANGED <<disk, electionVars, net, crashes, historyVars>>

\* A PING, PONG or UPDATE of n tells r who owns the slots
\* (clusterUpdateSlotsConfigWith): the greater configEpoch wins, and a replica
\* follows the owner.
Claim(n, r) ==
    /\ vol[r].conf < vol[n].conf
    /\ vol' = [vol EXCEPT ![r].cur = MaxOf(@, vol[n].cur), ![r].conf = vol[n].conf,
                          ![r].role = IF r \in Masters THEN @ ELSE "slave"]
    /\ UNCHANGED <<disk, electionVars, net, crashes, historyVars>>

-----------------------------------------------------------------------------
(* The configuration on disk, and crashes.                                 *)

\* CLUSTER_TODO_SAVE_CONFIG: asked for by a vote, by the start of an election and
\* by a change of owner; a packet that only raises currentEpoch does not.
SaveNeeded(n) ==
    \/ vol[n].voted # disk[n].voted
    \/ vol[n].conf # disk[n].conf
    \/ n \in Replicas /\ authEpoch[n] > disk[n].cur

\* clusterBeforeSleep.
SaveConfig(n) ==
    /\ SaveNeeded(n)
    /\ disk' = [disk EXCEPT ![n] = vol[n]]
    /\ UNCHANGED <<vol, electionVars, net, crashes, historyVars>>

\* Mutant of Crash: clusterLoadConfig restores no lastVoteEpoch.
CrashForgetsVote(n) ==
    /\ crashes < MaxCrashes
    /\ crashes' = crashes + 1
    /\ vol' = [vol EXCEPT ![n] = [disk[n] EXCEPT !.voted = 0]]
    /\ phase' = [s \in Replicas |-> IF s = n THEN "idle" ELSE phase[s]]
    /\ count' = [s \in Replicas |-> IF s = n THEN 0 ELSE count[s]]
    /\ authEpoch' = [s \in Replicas |-> IF s = n THEN 0 ELSE authEpoch[s]]
    /\ net' = {m \in net : CASE m.type = "req" -> m.voter # n
                               [] m.type = "ack" -> m.from # n /\ (m.voter = n => OnWire(m))}
    /\ votes' = {b \in votes : Barrier /\ b.voter = n => b.epoch <= disk[n].voted}
    /\ UNCHANGED <<disk, elections, wins>>

\* The process dies and starts again: clusterInit, clusterLoadConfig.  What was
\* sent to it is lost, and so are the votes that have not left it.
Crash(n) ==
    /\ crashes < MaxCrashes
    /\ crashes' = crashes + 1
    /\ vol' = [vol EXCEPT ![n] = disk[n]]
    /\ phase' = [s \in Replicas |-> IF s = n THEN "idle" ELSE phase[s]]
    /\ count' = [s \in Replicas |-> IF s = n THEN 0 ELSE count[s]]
    /\ authEpoch' = [s \in Replicas |-> IF s = n THEN 0 ELSE authEpoch[s]]
    /\ net' = {m \in net : CASE m.type = "req" -> m.voter # n
                               [] m.type = "ack" -> m.from # n /\ (m.voter = n => OnWire(m))}
    /\ votes' = {b \in votes : Barrier /\ b.voter = n => b.epoch <= disk[n].voted}
    /\ UNCHANGED <<disk, elections, wins>>

Next ==
    \/ \E s \in Replicas : Schedule(s)
    \/ \E s \in Replicas : RequestAuth(s)
    \/ \E s \in Replicas : Win(s)
    \/ \E m \in net : SendAuthIfNeeded(m)
    \/ \E m \in net : ReceiveAck(m)
    \/ \E n, r \in Nodes : Gossip(n, r)
    \/ \E n, r \in Nodes : Claim(n, r)
    \/ \E n \in Nodes : SaveConfig(n)
    \/ \E n \in Nodes : Crash(n)

Spec == Init /\ [][Next]_vars

-----------------------------------------------------------------------------
TypeOK ==
    /\ vol \in [Nodes -> View]
    /\ disk \in [Nodes -> View]
    /\ phase \in [Replicas -> {"idle", "scheduled", "sent"}]
    /\ count \in [Replicas -> Nat]
    /\ authEpoch \in [Replicas -> Nat]
    /\ net \subseteq Message
    /\ votes \subseteq [voter : Masters, epoch : Nat, for : Replicas]
    /\ wins \subseteq [winner : Replicas, epoch : Nat]

\* A master votes once in an epoch, across its crashes: lastVoteEpoch is on disk
\* before the vote can be counted (clusterSendFailoverAuthIfNeeded).
OneVotePerEpoch ==
    \A a, b \in votes : a.voter = b.voter /\ a.epoch = b.epoch => a = b

\* "It is not possible that different slaves get the same config epoch during a
\* failover election, because the slaves need to get voted by a majority."
\* (clusterHandleConfigEpochCollision)
OneWinnerPerEpoch ==
    \A a, b \in wins : a.epoch = b.epoch => a.winner = b.winner

\* The masters that have voted for s in epoch e.
Voters(s, e) == {n \in Masters : [voter |-> n, epoch |-> e, for |-> s] \in votes}

\* The votes a replica counts are votes for it in the epoch of its election: "We
\* consider this vote only if the sender is a master serving a non zero number of
\* slots, and its currentEpoch is greater or equal to epoch where this node
\* started the election." (clusterProcessPacket)
CountsOwnVotes ==
    \A s \in Replicas : phase[s] = "sent" => count[s] <= Cardinality(Voters(s, authEpoch[s]))

\* clusterLoadConfig: "Something that should never happen: currentEpoch smaller
\* than the max epoch found in the nodes configuration".
CurrentEpochIsMax ==
    \A n \in Nodes : disk[n].conf <= disk[n].cur /\ disk[n].voted <= disk[n].cur

=============================================================================
