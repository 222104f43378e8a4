------------------------ MODULE ClusterElectionProofs ------------------------
(***************************************************************************)
(* The safety of the failover election, for any number of masters,         *)
(* replicas, elections and crashes.                                        *)
(***************************************************************************)
EXTENDS ClusterElection, FiniteSetTheorems, TLAPS

-----------------------------------------------------------------------------
(* Type correctness.                                                       *)

\* What a vote does to a view.
LEMMA VoteView ==
  ASSUME NEW v \in View, NEW e \in Nat
  PROVE  LET w == [v EXCEPT !.cur = e, !.voted = e]
         IN  w \in View /\ w.cur = e /\ w.voted = e /\ w.conf = v.conf
  BY Zenon DEF View

\* The handlers keep the types of the nodes and of the messages.
LEMMA TypeCorrect == Spec => []TypeOK
<1>1. Init => TypeOK
  BY DEF Init, TypeOK, View
<1>2. TypeOK /\ [Next]_vars => TypeOK'
  <2> SUFFICES ASSUME TypeOK, [Next]_vars PROVE TypeOK'
    OBVIOUS
  <2> USE DEF TypeOK, View, Message, Nodes
  <2>1. ASSUME NEW s \in Replicas, Schedule(s) PROVE TypeOK'
    BY <2>1 DEF Schedule, historyVars
  <2>2. ASSUME NEW s \in Replicas, RequestAuth(s) PROVE TypeOK'
    BY <2>2 DEF RequestAuth, historyVars
  <2>3. ASSUME NEW s \in Replicas, Win(s) PROVE TypeOK'
    <3> DEFINE v == [vol[s] EXCEPT !.conf = authEpoch[s], !.role = "master"]
    <3>1. v \in View
      <4>1. vol[s] \in View /\ authEpoch[s] \in Nat
        OBVIOUS
      <4> QED
        BY <4>1, Zenon
    <3> HIDE DEF v
    <3>2. vol' = [vol EXCEPT ![s] = v] /\ disk' = [disk EXCEPT ![s] = v]
      BY <2>3 DEF Win, v
    <3>3. wins' = wins \union {[winner |-> s, epoch |-> authEpoch[s]]}
          /\ UNCHANGED <<electionVars, net, votes>>
      BY <2>3 DEF Win
    <3> QED
      BY <3>1, <3>2, <3>3 DEF electionVars
  <2>4. ASSUME NEW m \in net, SendAuthIfNeeded(m) PROVE TypeOK'
    <3>1. m \in Message /\ m.voter \in Nodes
      OBVIOUS
    <3>2. [m EXCEPT !.type = "ack"] \in Message
      BY <3>1
    <3>3. net' \subseteq Message
      BY <2>4, <3>2 DEF SendAuthIfNeeded
    <3>4. vol' \in [Nodes -> View]
      <4>1. PICK x \in Nodes, e \in Nat : x = m.voter /\ e = m.epoch
        BY <3>1
      <4>2. vol' = [vol EXCEPT ![x] = [vol[x] EXCEPT !.cur = e, !.voted = e]]
        BY <2>4, <4>1 DEF SendAuthIfNeeded
      <4>3. [vol[x] EXCEPT !.cur = e, !.voted = e] \in View
        <5>1. vol[x] \in View
          OBVIOUS
        <5> HIDE DEF View, TypeOK, Message
        <5> QED
          BY <5>1, VoteView, Zenon
      <4> QED
        BY <4>2, <4>3
    <3>5. votes' \subseteq [voter : Masters, epoch : Nat, for : Replicas]
      BY <2>4, <3>1 DEF SendAuthIfNeeded
    <3> QED
      BY <2>4, <3>3, <3>4, <3>5 DEF SendAuthIfNeeded, electionVars
  <2>5. ASSUME NEW m \in net, ReceiveAck(m) PROVE TypeOK'
    <3>1. m \in Message /\ m.from \in Replicas /\ m.epoch \in Nat
      OBVIOUS
    <3>2. vol' \in [Nodes -> View]
      <4>1. PICK x \in Nodes, e \in Nat : x = m.from /\ e = MaxOf(vol[x].cur, m.epoch)
        BY <3>1 DEF MaxOf
      <4>2. vol' = [vol EXCEPT ![x].cur = e]
        BY <2>5, <4>1 DEF ReceiveAck
      <4>3. vol[x] \in View
        OBVIOUS
      <4>4. [vol[x] EXCEPT !.cur = e] \in View
        BY ONLY <4>3, e \in Nat DEF View
      <4>5. vol' = [vol EXCEPT ![x] = [vol[x] EXCEPT !.cur = e]]
        BY <4>2
      <4> HIDE DEF View, Message
      <4> QED
        BY <4>4, <4>5
    <3>3. count' \in [Replicas -> Nat]
      BY <2>5, <3>1 DEF ReceiveAck
    <3> QED
      BY <2>5, <3>2, <3>3 DEF ReceiveAck, historyVars
  <2>6. ASSUME NEW n \in Nodes, NEW r \in Nodes, Gossip(n, r) PROVE TypeOK'
    BY <2>6, SMTT(30) DEF Gossip, electionVars, historyVars
  <2>7. ASSUME NEW n \in Nodes, NEW r \in Nodes, Claim(n, r) PROVE TypeOK'
    BY <2>7, SMTT(30) DEF Claim, MaxOf, electionVars, historyVars
  <2>8. ASSUME NEW n \in Nodes, SaveConfig(n) PROVE TypeOK'
    BY <2>8 DEF SaveConfig, electionVars, historyVars
  <2>9. ASSUME NEW n \in Nodes, Crash(n) PROVE TypeOK'
    BY <2>9, Zenon DEF Crash
  <2>10. CASE UNCHANGED vars
    BY <2>10 DEF vars, electionVars, historyVars
  <2> QED
    BY <2>1, <2>2, <2>3, <2>4, <2>5, <2>6, <2>7, <2>8, <2>9, <2>10, Zenon DEF Next
<1> QED
  BY <1>1, <1>2, PTL DEF Spec

-----------------------------------------------------------------------------
(* Epochs.  A view on disk is one the node has had in memory, so it is     *)
(* enough to see that currentEpoch stays the greatest in memory.           *)

EpochInv ==
    /\ \A n \in Nodes :
         /\ vol[n].voted <= vol[n].cur /\ vol[n].conf <= vol[n].cur
         /\ disk[n].voted <= disk[n].cur /\ disk[n].conf <= disk[n].cur
         /\ disk[n].voted <= vol[n].voted
    /\ \A s \in Replicas : authEpoch[s] <= vol[s].cur

\* currentEpoch stays the greatest epoch a node knows, in memory and on disk.
LEMMA EpochInductive == Spec => []EpochInv
<1>1. Init => EpochInv
  BY DEF Init, EpochInv, Nodes
<1>2. TypeOK /\ EpochInv /\ [Next]_vars => EpochInv'
  <2> SUFFICES ASSUME TypeOK, EpochInv, [Next]_vars PROVE EpochInv'
    OBVIOUS
  <2>0. /\ vol \in [Nodes -> View] /\ disk \in [Nodes -> View] /\ authEpoch \in [Replicas -> Nat]
        /\ net \subseteq Message
    BY DEF TypeOK
  <2> USE <2>0 DEF View, Message, Nodes
  <2>1. ASSUME NEW s \in Replicas, Schedule(s) PROVE EpochInv'
    BY <2>1 DEF Schedule, EpochInv
  <2>2. ASSUME NEW s \in Replicas, RequestAuth(s) PROVE EpochInv'
    BY <2>2 DEF RequestAuth, EpochInv
  <2>3. ASSUME NEW s \in Replicas, Win(s) PROVE EpochInv'
    BY <2>3 DEF Win, electionVars, EpochInv
  <2>4. ASSUME NEW m \in net, SendAuthIfNeeded(m) PROVE EpochInv'
    <3>1. PICK x \in Masters, e \in Nat : x = m.voter /\ e = m.epoch
      OBVIOUS
    <3>2. /\ vol' = [vol EXCEPT ![x] = [vol[x] EXCEPT !.cur = e, !.voted = e]]
          /\ e >= vol[x].cur
          /\ UNCHANGED <<disk, authEpoch>>
      BY <2>4, <3>1 DEF SendAuthIfNeeded, Grants, electionVars
    <3>3. vol[x] \in View /\ vol[x].cur \in Nat
      OBVIOUS
    <3>4. /\ vol'[x].cur = e /\ vol'[x].voted = e /\ vol'[x].conf = vol[x].conf
          /\ \A n \in Nodes : n # x => vol'[n] = vol[n]
      BY <3>2, <3>3
    <3> QED
      BY <3>2, <3>3, <3>4, ClusterAssumption DEF EpochInv
  <2>5. ASSUME NEW m \in net, ReceiveAck(m) PROVE EpochInv'
    <3>1. PICK x \in Replicas, e \in Nat : x = m.from /\ e = MaxOf(vol[x].cur, m.epoch)
      BY DEF MaxOf
    <3>2. /\ vol' = [vol EXCEPT ![x].cur = e]
          /\ e >= vol[x].cur
          /\ UNCHANGED <<disk, authEpoch>>
      BY <2>5, <3>1 DEF ReceiveAck, MaxOf
    <3> QED
      BY <3>2 DEF EpochInv
  <2>6. ASSUME NEW n \in Nodes, NEW r \in Nodes, Gossip(n, r) PROVE EpochInv'
    BY <2>6, SMTT(30) DEF Gossip, electionVars, EpochInv
  <2>7. ASSUME NEW n \in Nodes, NEW r \in Nodes, Claim(n, r) PROVE EpochInv'
    <3>1. PICK e \in Nat, c \in Nat : e = MaxOf(vol[r].cur, vol[n].cur) /\ c = vol[n].conf
      BY DEF MaxOf
    <3>2. e >= vol[r].cur /\ e >= vol[n].cur
      BY <3>1 DEF MaxOf
    <3>3. /\ vol'[r].cur = e /\ vol'[r].voted = vol[r].voted /\ vol'[r].conf = c
          /\ \A k \in Nodes : k # r => vol'[k] = vol[k]
          /\ UNCHANGED <<disk, authEpoch>>
      BY <2>7, <3>1, SMTT(30) DEF Claim, electionVars
    <3>4. vol[r].cur \in Nat /\ vol[n].cur \in Nat /\ vol[n].conf <= vol[n].cur
      BY DEF EpochInv
    <3>5. c <= e
      BY <3>1, <3>2, <3>4
    <3> HIDE DEF View, Message
    <3>6. \A k \in Nodes : k # r => vol'[k] = vol[k] /\ disk'[k] = disk[k]
      BY <3>3
    <3>7. /\ vol'[r].voted <= vol'[r].cur /\ vol'[r].conf <= vol'[r].cur
          /\ disk'[r] = disk[r] /\ disk[r].voted <= vol'[r].voted
      <4>1. vol[r].voted \in Nat /\ vol[r].voted <= vol[r].cur /\ disk[r].voted <= vol[r].voted
        BY DEF EpochInv, View
      <4> QED BY <3>2, <3>3, <3>4, <3>5, <4>1
    <3>8. \A s \in Replicas : authEpoch'[s] <= vol'[s].cur
      <4> TAKE s \in Replicas
      <4>1. authEpoch[s] \in Nat /\ authEpoch[s] <= vol[s].cur
        BY DEF EpochInv
      <4> QED BY <3>2, <3>3, <3>4, <4>1
    <3> QED BY <3>3, <3>6, <3>7, <3>8 DEF EpochInv
  <2>8. ASSUME NEW n \in Nodes, SaveConfig(n) PROVE EpochInv'
    BY <2>8 DEF SaveConfig, electionVars, EpochInv
  <2>9. ASSUME NEW n \in Nodes, Crash(n) PROVE EpochInv'
    BY <2>9 DEF Crash, EpochInv
  <2>10. CASE UNCHANGED vars
    BY <2>10 DEF vars, electionVars, EpochInv
  <2> QED
    BY <2>1, <2>2, <2>3, <2>4, <2>5, <2>6, <2>7, <2>8, <2>9, <2>10 DEF Next
<1> QED
  BY <1>1, <1>2, TypeCorrect, PTL DEF Spec

\* clusterLoadConfig never has to raise the currentEpoch it reads.
THEOREM EpochOnDiskIsMax == Spec => []CurrentEpochIsMax
<1>1. EpochInv => CurrentEpochIsMax
  BY DEF EpochInv, CurrentEpochIsMax
<1> QED
  BY <1>1, EpochInductive, PTL

-----------------------------------------------------------------------------
(* Votes.  lastVoteEpoch bounds the epochs a master has voted in; when the *)
(* barrier holds, a crash that takes lastVoteEpoch back to what is on disk *)
(* takes the later votes with it.  An ack on its way is a vote.            *)

VoteInv ==
    /\ \A b \in votes : b.epoch <= vol[b.voter].voted
    /\ OneVotePerEpoch
    /\ \A m \in net : m.type = "ack" => [voter |-> m.voter, epoch |-> m.epoch, for |-> m.from] \in votes
    /\ \A m, k \in net : m.type = "ack" /\ k.type = "ack" /\ m.voter = k.voter /\ m.epoch = k.epoch
                         => m = k

\* What a vote does: its epoch is greater than that of every earlier vote.
LEMMA VoteStep ==
  ASSUME TypeOK, EpochInv, VoteInv, NEW m \in net, SendAuthIfNeeded(m)
  PROVE  /\ m \in Message /\ m.voter \in Masters /\ m.epoch \in Nat
         /\ \A n \in Nodes : n # m.voter => vol'[n] = vol[n]
         /\ vol'[m.voter].voted = m.epoch
         /\ vol[m.voter].voted < m.epoch
         /\ \A b \in votes : b.voter = m.voter => b.epoch < m.epoch
<1>1. PICK x \in Masters, e \in Nat : x = m.voter /\ e = m.epoch /\ m \in Message
  BY DEF TypeOK, Message
<1>2. /\ vol' = [vol EXCEPT ![x] = [vol[x] EXCEPT !.cur = e, !.voted = e]]
      /\ e >= vol[x].cur /\ e # vol[x].voted
  BY <1>1 DEF SendAuthIfNeeded, Grants
<1>3. vol[x] \in View /\ vol[x].cur \in Nat /\ vol[x].voted \in Nat /\ vol \in [Nodes -> View]
  BY DEF TypeOK, View, Nodes
<1>4. vol'[x].voted = e /\ \A n \in Nodes : n # x => vol'[n] = vol[n]
  BY <1>2, <1>3 DEF View, Nodes
<1>5. vol[x].voted < e
  BY <1>2, <1>3 DEF EpochInv, Nodes
<1>6. \A b \in votes : b.epoch \in Nat
  BY DEF TypeOK
<1> QED
  BY <1>1, <1>3, <1>4, <1>5, <1>6 DEF VoteInv

\* With the barrier, a vote that counts is one the voter will remember.
LEMMA VoteInductive == Barrier => (Spec => []VoteInv)
<1> SUFFICES ASSUME Barrier PROVE Spec => []VoteInv
  OBVIOUS
<1>1. Init => VoteInv
  BY DEF Init, VoteInv, OneVotePerEpoch
<1>2. TypeOK /\ EpochInv /\ VoteInv /\ [Next]_vars => VoteInv'
  <2> SUFFICES ASSUME TypeOK, EpochInv, VoteInv, [Next]_vars PROVE VoteInv'
    OBVIOUS
  <2>0. /\ vol \in [Nodes -> View] /\ disk \in [Nodes -> View]
        /\ net \subseteq Message
        /\ votes \subseteq [voter : Masters, epoch : Nat, for : Replicas]
    BY DEF TypeOK
  \* Steps that leave the votes and lastVoteEpoch alone, and send no vote.
  <2>a. ASSUME UNCHANGED votes, \A n \in Nodes : vol'[n].voted = vol[n].voted,
               \A m \in net' : m.type = "ack" => m \in net
        PROVE  VoteInv'
    BY <2>0, <2>a DEF VoteInv, OneVotePerEpoch, Nodes
  <2>1. ASSUME NEW s \in Replicas, Schedule(s) PROVE VoteInv'
    BY <2>1, <2>a DEF Schedule, historyVars
  <2>2. ASSUME NEW s \in Replicas, RequestAuth(s) PROVE VoteInv'
    <3>1. \A n \in Nodes : vol'[n].voted = vol[n].voted
      BY <2>2, <2>0 DEF RequestAuth, View, Nodes
    <3> QED
      BY <2>2, <3>1, <2>a DEF RequestAuth, historyVars
  <2>3. ASSUME NEW s \in Replicas, Win(s) PROVE VoteInv'
    <3>1. \A n \in Nodes : vol'[n].voted = vol[n].voted
      BY <2>3, <2>0 DEF Win, View, Nodes
    <3> QED
      BY <2>3, <3>1, <2>a DEF Win
  <2>4. ASSUME NEW m \in net, SendAuthIfNeeded(m) PROVE VoteInv'
    <3> DEFINE b0 == [voter |-> m.voter, epoch |-> m.epoch, for |-> m.from]
               m0 == [m EXCEPT !.type = "ack"]
    <3>1. /\ m \in Message /\ m.voter \in Masters /\ m.epoch \in Nat
          /\ \A n \in Nodes : n # m.voter => vol'[n] = vol[n]
          /\ vol'[m.voter].voted = m.epoch
          /\ vol[m.voter].voted < m.epoch
          /\ \A b \in votes : b.voter = m.voter => b.epoch < m.epoch
      BY <2>4, VoteStep
    <3>2. votes' = votes \union {b0} /\ net' = (net \ {m}) \union {m0}
      BY <2>4 DEF SendAuthIfNeeded
    <3>3. m0.type = "ack" /\ m0.voter = m.voter /\ m0.epoch = m.epoch /\ m0.from = m.from
      BY <3>1 DEF Message
    <3>4. b0.voter = m.voter /\ b0.epoch = m.epoch
      OBVIOUS
    <3> HIDE DEF b0, m0
    <3>5. \A b \in votes' : b.epoch <= vol'[b.voter].voted
      <4>1. ASSUME NEW b \in votes, b.voter = m.voter PROVE b.epoch <= vol'[b.voter].voted
        BY <3>1, <2>0, <4>1
      <4>2. ASSUME NEW b \in votes, b.voter # m.voter PROVE b.epoch <= vol'[b.voter].voted
        BY <3>1, <2>0, <4>2 DEF VoteInv, Nodes
      <4>3. b0.epoch <= vol'[b0.voter].voted
        BY <3>1, <3>4
      <4> QED
        BY <4>1, <4>2, <4>3, <3>2
    <3>6. OneVotePerEpoch'
      BY <3>1, <3>2, <3>4, <2>0 DEF VoteInv, OneVotePerEpoch
    <3>7. \A k \in net' : k.type = "ack" => [voter |-> k.voter, epoch |-> k.epoch, for |-> k.from] \in votes'
      BY <3>2, <3>3 DEF VoteInv, b0
    <3>8. \A k \in net : k.type = "ack" /\ k.voter = m.voter => k.epoch < m.epoch
      BY <3>1, Zenon DEF VoteInv
    <3>9. \A j, k \in net' : j.type = "ack" /\ k.type = "ack" /\ j.voter = k.voter /\ j.epoch = k.epoch
                             => j = k
      BY <3>1, <3>2, <3>3, <3>8, <2>0 DEF VoteInv, Message
    <3> QED
      BY <3>5, <3>6, <3>7, <3>9 DEF VoteInv
  <2>5. ASSUME NEW m \in net, ReceiveAck(m) PROVE VoteInv'
    <3>1. \A n \in Nodes : vol'[n].voted = vol[n].voted
      BY <2>5, <2>0 DEF ReceiveAck, View, Nodes
    <3> QED
      BY <2>5, <3>1, <2>a DEF ReceiveAck, historyVars
  <2>6. ASSUME NEW n \in Nodes, NEW r \in Nodes, Gossip(n, r) PROVE VoteInv'
    <3>1. \A x \in Nodes : vol'[x].voted = vol[x].voted
      BY <2>6, <2>0 DEF Gossip, View
    <3> QED
      BY <2>6, <3>1, <2>a DEF Gossip, historyVars
  <2>7. ASSUME NEW n \in Nodes, NEW r \in Nodes, Claim(n, r) PROVE VoteInv'
    <3>1. \A x \in Nodes : vol'[x].voted = vol[x].voted
      BY <2>7, <2>0 DEF Claim, View
    <3> QED
      BY <2>7, <3>1, <2>a, Zenon DEF Claim, historyVars
  <2>8. ASSUME NEW n \in Nodes, SaveConfig(n) PROVE VoteInv'
    BY <2>8, <2>a DEF SaveConfig, historyVars
  <2>9. ASSUME NEW n \in Nodes, Crash(n) PROVE VoteInv'
    <3>1. /\ vol' = [vol EXCEPT ![n] = disk[n]]
          /\ votes' = {b \in votes : Barrier /\ b.voter = n => b.epoch <= disk[n].voted}
          /\ net' \subseteq net
          /\ \A m \in net' : m.type = "ack" /\ m.voter = n => m.epoch <= disk[n].voted
      BY <2>9, Zenon DEF Crash, OnWire
    <3>2. \A b \in votes' : b.epoch <= vol'[b.voter].voted
      BY <3>1, <2>0 DEF VoteInv, Nodes
    <3>3. OneVotePerEpoch'
      BY <3>1 DEF VoteInv, OneVotePerEpoch
    <3>4. \A m \in net' : m.type = "ack" => [voter |-> m.voter, epoch |-> m.epoch, for |-> m.from] \in votes'
      BY <3>1 DEF VoteInv
    <3> QED
      BY <3>1, <3>2, <3>3, <3>4 DEF VoteInv
  <2>10. CASE UNCHANGED vars
    BY <2>10, <2>a DEF vars, historyVars
  <2> QED
    BY <2>1, <2>2, <2>3, <2>4, <2>5, <2>6, <2>7, <2>8, <2>9, <2>10 DEF Next
<1> QED
  BY <1>1, <1>2, TypeCorrect, EpochInductive, PTL DEF Spec

\* A master votes once in an epoch, however often it crashes, if its votes leave
\* after they are saved.
THEOREM VotesOnce == Barrier => (Spec => []OneVotePerEpoch)
<1>1. VoteInv => OneVotePerEpoch
  BY DEF VoteInv
<1> QED
  BY <1>1, VoteInductive, PTL

-----------------------------------------------------------------------------
(* Winners.  A vote that has been counted is on the disk of the master     *)
(* that cast it: it is never taken back.  A replica that starts an         *)
(* election has no message on its way, so that the acks it counts are      *)
(* votes of this election, and each of them is counted once.               *)

\* The masters that have voted for s in epoch e, and have saved it.
Saved(s, e) ==
    {n \in Masters : [voter |-> n, epoch |-> e, for |-> s] \in votes /\ e <= disk[n].voted}

\* The masters whose vote for the election of s has not arrived.
Pending(s) ==
    {n \in Masters : \E m \in net : /\ m.type = "ack" /\ m.from = s
                                    /\ m.voter = n /\ m.epoch = authEpoch[s]}

Got(s) == Saved(s, authEpoch[s]) \ Pending(s)

ElectionInv ==
    /\ \A s \in Replicas : phase[s] = "scheduled" => count[s] = 0 /\ \A m \in net : m.from # s
    /\ \A s \in Replicas : phase[s] = "sent" => \A m \in net : m.from = s => m.epoch = authEpoch[s]
    /\ \A s \in Replicas : phase[s] = "sent" => count[s] <= Cardinality(Got(s))
    /\ \A w \in wins : Cardinality(Saved(w.winner, w.epoch)) >= Quorum

\* Sets of masters are finite, and a subset is no larger.
LEMMA SmallerSet ==
  ASSUME NEW S \in SUBSET Masters, NEW T \in SUBSET Masters, S \subseteq T
  PROVE  /\ Cardinality(S) \in Nat /\ Cardinality(T) \in Nat /\ IsFiniteSet(S) /\ IsFiniteSet(T)
         /\ Cardinality(S) <= Cardinality(T)
<1>1. IsFiniteSet(S) /\ IsFiniteSet(T)
  BY FS_Subset, ClusterAssumption
<1> QED
  BY <1>1, FS_Subset, FS_CardinalityType

\* Two disjoint sets of masters are not both a majority.
LEMMA MajoritiesMeet ==
  ASSUME NEW S \in SUBSET Masters, NEW T \in SUBSET Masters,
         Cardinality(S) >= Quorum, Cardinality(T) >= Quorum
  PROVE  S \cap T # {}
<1> SUFFICES ASSUME S \cap T = {} PROVE FALSE
  OBVIOUS
<1>1. /\ IsFiniteSet(S) /\ IsFiniteSet(T) /\ IsFiniteSet(Masters)
      /\ Cardinality(S) \in Nat /\ Cardinality(T) \in Nat /\ Cardinality(Masters) \in Nat
  BY SmallerSet, ClusterAssumption
<1>2. Cardinality(S \union T) = Cardinality(S) + Cardinality(T)
  <2>1. Cardinality(S \union T) = Cardinality(S) + Cardinality(T) - Cardinality(S \cap T)
    BY <1>1, FS_Union
  <2>2. Cardinality(S \cap T) = 0
    BY FS_EmptySet
  <2> QED
    BY <1>1, <2>1, <2>2
<1>3. Cardinality(S \union T) <= Cardinality(Masters)
  BY SmallerSet
<1>4. \A k \in Nat : (k + 1) \div 2 \in Nat /\ k < 2 * ((k + 1) \div 2 + 1)
  BY SMT
<1>5. Quorum \in Nat /\ Cardinality(Masters) < 2 * Quorum
  BY <1>1, <1>4 DEF Quorum
<1> QED
  BY <1>1, <1>2, <1>3, <1>5

\* Votes that are saved stay so.
LEMMA SavedGrows ==
  ASSUME Barrier, TypeOK, EpochInv, [Next]_vars
  PROVE  \A s, e : e \in Nat => Saved(s, e) \subseteq Saved(s, e)'
<1>0. /\ vol \in [Nodes -> View] /\ disk \in [Nodes -> View] /\ ClusterAssumption
  BY ClusterAssumption DEF TypeOK
<1>1. ASSUME \A n \in Masters : disk'[n].voted \in Nat /\ disk[n].voted <= disk'[n].voted,
             \A b \in votes : b.voter \in Masters /\ b.epoch <= disk[b.voter].voted => b \in votes'
      PROVE  \A s, e : e \in Nat => Saved(s, e) \subseteq Saved(s, e)'
  <2> SUFFICES ASSUME NEW s, NEW e \in Nat, NEW n \in Saved(s, e) PROVE n \in Saved(s, e)'
    OBVIOUS
  <2> DEFINE b == [voter |-> n, epoch |-> e, for |-> s]
  <2>1. n \in Masters /\ b \in votes /\ e <= disk[n].voted
    BY DEF Saved
  <2>2. b \in votes'
    BY <1>1, <2>1
  <2>3. e <= disk'[n].voted
    BY <1>0, <1>1, <2>1 DEF View, Nodes
  <2> QED
    BY <2>1, <2>2, <2>3 DEF Saved
<1>2. \A n \in Masters : disk'[n].voted \in Nat /\ disk[n].voted <= disk'[n].voted
  <2>1. CASE UNCHANGED disk
    BY <1>0, <2>1 DEF View, Nodes
  <2>2. ASSUME NEW s \in Replicas, Win(s) PROVE \A n \in Masters : disk'[n] = disk[n]
    BY <1>0, <2>2 DEF Win, Nodes
  <2>3. ASSUME NEW n \in Nodes, SaveConfig(n)
        PROVE  \A x \in Masters : disk'[x].voted \in Nat /\ disk[x].voted <= disk'[x].voted
    BY <1>0, <2>3 DEF SaveConfig, EpochInv, View, Nodes
  <2>4. \/ UNCHANGED disk
        \/ \E s \in Replicas : Win(s)
        \/ \E n \in Nodes : SaveConfig(n)
    BY Zenon DEF Next, Schedule, RequestAuth, SendAuthIfNeeded, ReceiveAck, Gossip, Claim, Crash, vars
  <2> QED
    BY <1>0, <2>1, <2>2, <2>3, <2>4 DEF View, Nodes
<1>3. \A b \in votes : b.voter \in Masters /\ b.epoch <= disk[b.voter].voted => b \in votes'
  BY Zenon DEF Next, Schedule, RequestAuth, Win, SendAuthIfNeeded, ReceiveAck, Gossip, Claim, SaveConfig,
         Crash, vars, historyVars
<1> QED
  BY <1>1, <1>2, <1>3

\* The count of a replica never exceeds the votes it got in its present election.
LEMMA ElectionInductive == Timely /\ Barrier => (Spec => []ElectionInv)
<1> SUFFICES ASSUME Timely, Barrier PROVE Spec => []ElectionInv
  OBVIOUS
<1>1. Init => ElectionInv
  BY DEF Init, ElectionInv
<1>2. TypeOK /\ EpochInv /\ VoteInv /\ ElectionInv /\ [Next]_vars => ElectionInv'
  <2> SUFFICES ASSUME TypeOK, EpochInv, VoteInv, ElectionInv, [Next]_vars PROVE ElectionInv'
    OBVIOUS
  <2>0. /\ vol \in [Nodes -> View] /\ disk \in [Nodes -> View]
        /\ phase \in [Replicas -> {"idle", "scheduled", "sent"}]
        /\ count \in [Replicas -> Nat] /\ authEpoch \in [Replicas -> Nat]
        /\ net \subseteq Message
        /\ wins \subseteq [winner : Replicas, epoch : Nat]
    BY DEF TypeOK
  <2>g. \A s, e : e \in Nat => Saved(s, e) \subseteq Saved(s, e)'
    BY SavedGrows
  <2>w. \A w \in wins : Cardinality(Saved(w.winner, w.epoch)') >= Quorum
    <3> SUFFICES ASSUME NEW w \in wins PROVE Cardinality(Saved(w.winner, w.epoch)') >= Quorum
      OBVIOUS
    <3>1. Saved(w.winner, w.epoch) \subseteq Saved(w.winner, w.epoch)'
      BY <2>0, <2>g
    <3>2. Saved(w.winner, w.epoch) \in SUBSET Masters /\ Saved(w.winner, w.epoch)' \in SUBSET Masters
      BY DEF Saved
    <3>3. Cardinality(Saved(w.winner, w.epoch)) >= Quorum
      BY DEF ElectionInv
    <3>4. Quorum \in Nat
      BY FS_CardinalityType, ClusterAssumption DEF Quorum
    <3> HIDE DEF Saved, Quorum
    <3> QED
      BY <3>1, <3>2, <3>3, <3>4, SmallerSet
  \* A replica whose election does not change, and to which no new vote is sent,
  \* keeps the votes that it has.
  <2>c. ASSUME NEW s \in Replicas, phase[s] = "sent", authEpoch'[s] = authEpoch[s], count'[s] = count[s],
               \A m \in net' : m.type = "ack" /\ m.from = s => m \in net
        PROVE  count'[s] <= Cardinality(Got(s)')
    <3>1. PICK e \in Nat : e = authEpoch[s] /\ e = authEpoch'[s]
      BY <2>0, <2>c
    <3>2. Saved(s, e) \subseteq Saved(s, e)'
      BY <2>g
    <3>3. Pending(s)' \subseteq Pending(s)
      BY <2>c DEF Pending
    <3>4. Got(s) \subseteq Got(s)'
      BY <3>1, <3>2, <3>3 DEF Got
    <3>5. Got(s) \in SUBSET Masters /\ Got(s)' \in SUBSET Masters
      BY DEF Got, Saved
    <3>6. Cardinality(Got(s)) <= Cardinality(Got(s)') /\ Cardinality(Got(s)) \in Nat /\ Cardinality(Got(s)') \in Nat
      <4> HIDE DEF Got
      <4> QED
        BY <3>4, <3>5, SmallerSet
    <3> QED
      BY <2>c, <2>0, <3>6 DEF ElectionInv
  \* Steps that neither start an election nor count or send a vote.
  <2>a. ASSUME UNCHANGED <<phase, authEpoch, count, wins>>, net' \subseteq net
        PROVE  ElectionInv'
    <3>1. \A s \in Replicas : phase'[s] = "sent" => count'[s] <= Cardinality(Got(s)')
      BY <2>a, <2>c
    <3> QED
      BY <2>a, <2>w, <3>1 DEF ElectionInv, Quorum
  <2>1. ASSUME NEW s \in Replicas, Schedule(s) PROVE ElectionInv'
    <3>1. \A r \in Replicas : phase'[r] = "sent" => count'[r] <= Cardinality(Got(r)')
      BY <2>1, <2>0, <2>c DEF Schedule
    <3> QED
      BY <2>1, <2>0, <2>w, <3>1 DEF Schedule, historyVars, ElectionInv, Quorum
  <2>2. ASSUME NEW s \in Replicas, RequestAuth(s) PROVE ElectionInv'
    <3> DEFINE new == {[type |-> "req", from |-> s, voter |-> n, epoch |-> vol[s].cur + 1,
                        conf |-> vol[s].conf] : n \in Masters}
    <3>1. /\ net' = net \union new
          /\ UNCHANGED <<count, wins>>
          /\ phase[s] = "scheduled" /\ phase' = [phase EXCEPT ![s] = "sent"]
          /\ authEpoch' = [authEpoch EXCEPT ![s] = vol[s].cur + 1]
      BY <2>2 DEF RequestAuth, historyVars
    <3>2. \A m \in new : m.type = "req" /\ m.from = s /\ m.epoch = authEpoch'[s]
      <4>1. authEpoch'[s] = vol[s].cur + 1
        BY <3>1, <2>0
      <4>2. \A m \in new : m.type = "req" /\ m.from = s /\ m.epoch = vol[s].cur + 1
        OBVIOUS
      <4> QED BY <4>1, <4>2
    <3> HIDE DEF new
    <3>3. \A r \in Replicas : phase'[r] = "scheduled" => count'[r] = 0 /\ \A m \in net' : m.from # r
      BY <3>1, <3>2, <2>0 DEF ElectionInv
    <3>4. \A r \in Replicas : phase'[r] = "sent" => \A m \in net' : m.from = r => m.epoch = authEpoch'[r]
      BY <3>1, <3>2, <2>0 DEF ElectionInv
    <3>5. ASSUME NEW r \in Replicas, phase'[r] = "sent" PROVE count'[r] <= Cardinality(Got(r)')
      <4>1. CASE r = s
        <5>1. count'[r] = 0
          BY <4>1, <3>1 DEF ElectionInv
        <5>2. Got(r)' \in SUBSET Masters
          BY DEF Got, Saved
        <5>3. Cardinality(Got(r)') \in Nat
          <6> HIDE DEF Got
          <6> QED
            BY <5>2, SmallerSet
        <5> QED
          BY <5>1, <5>3
      <4>2. CASE r # s
        BY <4>2, <3>1, <3>2, <3>5, <2>0, <2>c
      <4> QED
        BY <4>1, <4>2
    <3> QED
      BY <3>1, <3>3, <3>4, <3>5, <2>w DEF ElectionInv, Quorum
  <2>3. ASSUME NEW s \in Replicas, Win(s) PROVE ElectionInv'
    <3>1. /\ UNCHANGED <<phase, authEpoch, count, net>>
          /\ wins' = wins \union {[winner |-> s, epoch |-> authEpoch[s]]}
          /\ phase[s] = "sent" /\ count[s] >= Quorum
      BY <2>3 DEF Win, electionVars
    <3>2. \A r \in Replicas : phase'[r] = "sent" => count'[r] <= Cardinality(Got(r)')
      BY <3>1, <2>c
    <3>3. Cardinality(Saved(s, authEpoch[s])') >= Quorum
      <4>1. Got(s)' \subseteq Saved(s, authEpoch[s])'
        BY <3>1 DEF Got
      <4>2. Got(s)' \in SUBSET Masters /\ Saved(s, authEpoch[s])' \in SUBSET Masters
        BY DEF Got, Saved
      <4>3. /\ Cardinality(Got(s)') <= Cardinality(Saved(s, authEpoch[s])')
            /\ Cardinality(Got(s)') \in Nat /\ Cardinality(Saved(s, authEpoch[s])') \in Nat
        <5> HIDE DEF Got, Saved
        <5> QED
          BY <4>1, <4>2, SmallerSet
      <4>4. Quorum \in Nat
        BY FS_CardinalityType, ClusterAssumption DEF Quorum
      <4> HIDE DEF Quorum
      <4> QED
        BY <3>1, <3>2, <4>3, <4>4, <2>0
    <3> QED
      BY <3>1, <3>2, <3>3, <2>w DEF ElectionInv, Quorum
  <2>4. ASSUME NEW m \in net, SendAuthIfNeeded(m) PROVE ElectionInv'
    <3> DEFINE b0 == [voter |-> m.voter, epoch |-> m.epoch, for |-> m.from]
               m0 == [m EXCEPT !.type = "ack"]
    <3>1. /\ UNCHANGED <<phase, authEpoch, count, wins, disk>>
          /\ votes' = votes \union {b0} /\ net' = (net \ {m}) \union {m0}
      BY <2>4 DEF SendAuthIfNeeded, electionVars
    <3>2. /\ m \in Message /\ m.voter \in Masters /\ m.epoch \in Nat
          /\ \A b \in votes : b.voter = m.voter => b.epoch < m.epoch
      BY <2>4, VoteStep
    <3>3. m0.type = "ack" /\ m0.voter = m.voter /\ m0.epoch = m.epoch /\ m0.from = m.from
      BY <3>2 DEF Message
    <3> HIDE DEF m0
    <3>4. ASSUME NEW r \in Replicas, phase'[r] = "sent" PROVE count'[r] <= Cardinality(Got(r)')
      <4>1. PICK e \in Nat : e = authEpoch[r] /\ e = authEpoch'[r]
        BY <2>0, <3>1
      <4>2. Saved(r, e) \subseteq Saved(r, e)'
        BY <2>g
      \* m.voter has not voted in m.epoch before: it is not in Got(r).
      <4>3. \A n \in Got(r) : n \notin Pending(r)'
        <5> SUFFICES ASSUME NEW n \in Got(r), n \in Pending(r)' PROVE FALSE
          OBVIOUS
        <5>1. PICK k \in net' : k.type = "ack" /\ k.from = r /\ k.voter = n /\ k.epoch = authEpoch[r]
          BY <3>1 DEF Pending
        <5>2. k = m0
          BY <5>1, <3>1 DEF Got, Pending, Saved
        <5>3. [voter |-> n, epoch |-> authEpoch[r], for |-> r] \in votes
          BY DEF Got, Saved
        <5> QED
          BY <5>1, <5>2, <5>3, <3>2, <3>3
      <4>4. Got(r) \subseteq Got(r)'
        BY <4>1, <4>2, <4>3 DEF Got
      <4>5. Got(r) \in SUBSET Masters /\ Got(r)' \in SUBSET Masters
        BY DEF Got, Saved
      <4>6. Cardinality(Got(r)) <= Cardinality(Got(r)') /\ Cardinality(Got(r)) \in Nat /\ Cardinality(Got(r)') \in Nat
        <5> HIDE DEF Got
        <5> QED
          BY <4>4, <4>5, SmallerSet
      <4> QED
        BY <3>1, <3>4, <2>0, <4>6 DEF ElectionInv
    <3>5. \A r \in Replicas : phase'[r] = "scheduled" => count'[r] = 0 /\ \A k \in net' : k.from # r
      BY <3>1, <3>3 DEF ElectionInv
    <3>6. \A r \in Replicas : phase'[r] = "sent" => \A k \in net' : k.from = r => k.epoch = authEpoch'[r]
      BY <3>1, <3>3 DEF ElectionInv
    <3> QED
      BY <3>1, <3>4, <3>5, <3>6, <2>w DEF ElectionInv, Quorum
  <2>5. ASSUME NEW m \in net, ReceiveAck(m) PROVE ElectionInv'
    <3>1. /\ UNCHANGED <<phase, authEpoch, wins, disk, votes>>
          /\ m.type = "ack" /\ m.epoch <= disk[m.voter].voted
          /\ net' = net \ {m}
          /\ count' = [count EXCEPT ![m.from] = IF m.epoch >= authEpoch[m.from] THEN @ + 1 ELSE @]
      BY <2>5 DEF ReceiveAck, OnWire, historyVars
    <3>2. m \in Message /\ m.from \in Replicas /\ m.voter \in Masters /\ m.epoch \in Nat
      BY <2>0 DEF Message
    <3>3. \A r \in Replicas : phase'[r] = "scheduled" => count'[r] = 0 /\ \A k \in net' : k.from # r
      BY <3>1, <3>2, <2>0 DEF ElectionInv
    <3>4. ASSUME NEW r \in Replicas, phase'[r] = "sent" PROVE count'[r] <= Cardinality(Got(r)')
      <4>1. CASE r # m.from
        BY <4>1, <3>1, <3>4, <2>0, <2>c
      <4>2. CASE r = m.from
        <5>1. m.epoch = authEpoch[r] /\ count'[r] = count[r] + 1
          BY <3>1, <3>2, <3>4, <4>2, <2>0 DEF ElectionInv
        <5>2. m.voter \in Saved(r, authEpoch[r]) /\ m.voter \in Pending(r)
          BY <3>1, <3>2, <4>2, <5>1 DEF Saved, Pending, VoteInv
        <5>3. m.voter \notin Pending(r)' /\ Pending(r)' \subseteq Pending(r)
          BY <3>1, <4>2, <5>1 DEF Pending, VoteInv
        <5>4. Saved(r, authEpoch[r])' = Saved(r, authEpoch[r])
          BY <3>1 DEF Saved
        <5>5. Got(r) \union {m.voter} \subseteq Got(r)' /\ m.voter \notin Got(r)
          BY <3>1, <5>2, <5>3, <5>4 DEF Got
        <5>6. Got(r) \in SUBSET Masters /\ Got(r)' \in SUBSET Masters
          BY DEF Got, Saved
        <5>7. /\ Cardinality(Got(r) \union {m.voter}) = Cardinality(Got(r)) + 1
              /\ Cardinality(Got(r) \union {m.voter}) <= Cardinality(Got(r)')
              /\ Cardinality(Got(r)) \in Nat /\ Cardinality(Got(r)') \in Nat
          <6> HIDE DEF Got
          <6>1. IsFiniteSet(Got(r)) /\ Cardinality(Got(r)) \in Nat /\ Cardinality(Got(r)') \in Nat
            BY <5>6, SmallerSet
          <6>2. Cardinality(Got(r) \union {m.voter}) = Cardinality(Got(r)) + 1
            BY <6>1, <5>5, FS_AddElement, Zenon
          <6>3. Got(r) \union {m.voter} \in SUBSET Masters
            BY <5>6, <3>2
          <6>4. Cardinality(Got(r) \union {m.voter}) <= Cardinality(Got(r)')
            BY <6>3, <5>5, <5>6, SmallerSet
          <6> QED
            BY <6>1, <6>2, <6>4
        <5> QED
          BY <3>1, <3>4, <2>0, <5>1, <5>7 DEF ElectionInv
      <4> QED
        BY <4>1, <4>2
    <3> QED
      BY <3>1, <3>3, <3>4, <2>w DEF ElectionInv, Quorum
  <2>6. ASSUME NEW n \in Nodes, NEW r \in Nodes, Gossip(n, r) PROVE ElectionInv'
    BY <2>6, <2>a DEF Gossip, electionVars, historyVars
  <2>7. ASSUME NEW n \in Nodes, NEW r \in Nodes, Claim(n, r) PROVE ElectionInv'
    BY <2>7, <2>a DEF Claim, electionVars, historyVars
  <2>8. ASSUME NEW n \in Nodes, SaveConfig(n) PROVE ElectionInv'
    BY <2>8, <2>a DEF SaveConfig, electionVars, historyVars
  <2>9. ASSUME NEW n \in Nodes, Crash(n) PROVE ElectionInv'
    <3>1. /\ phase' = [s \in Replicas |-> IF s = n THEN "idle" ELSE phase[s]]
          /\ count' = [s \in Replicas |-> IF s = n THEN 0 ELSE count[s]]
          /\ authEpoch' = [s \in Replicas |-> IF s = n THEN 0 ELSE authEpoch[s]]
          /\ net' \subseteq net /\ UNCHANGED wins
      BY <2>9, Zenon DEF Crash
    <3>2. \A s \in Replicas : phase'[s] = "sent" => count'[s] <= Cardinality(Got(s)')
      BY <3>1, <2>c
    <3> QED
      BY <3>1, <3>2, <2>w DEF ElectionInv, Quorum
  <2>10. CASE UNCHANGED vars
    BY <2>10, <2>a DEF vars, electionVars, historyVars
  <2> QED
    BY <2>1, <2>2, <2>3, <2>4, <2>5, <2>6, <2>7, <2>8, <2>9, <2>10 DEF Next
<1> QED
  BY <1>1, <1>2, TypeCorrect, EpochInductive, VoteInductive, PTL DEF Spec

\* No two replicas are elected in the same epoch, if votes arrive in time and
\* leave after they are saved.
THEOREM OneWinner == Timely /\ Barrier => (Spec => []OneWinnerPerEpoch)
<1> SUFFICES ASSUME Timely, Barrier PROVE Spec => []OneWinnerPerEpoch
  OBVIOUS
<1>1. TypeOK /\ VoteInv /\ ElectionInv => OneWinnerPerEpoch
  <2> SUFFICES ASSUME TypeOK, VoteInv, ElectionInv,
                      NEW a \in wins, NEW b \in wins, a.epoch = b.epoch
               PROVE  a.winner = b.winner
    BY DEF OneWinnerPerEpoch
  <2>1. /\ Saved(a.winner, a.epoch) \in SUBSET Masters /\ Saved(b.winner, b.epoch) \in SUBSET Masters
        /\ Cardinality(Saved(a.winner, a.epoch)) >= Quorum
        /\ Cardinality(Saved(b.winner, b.epoch)) >= Quorum
    BY DEF ElectionInv, Saved
  <2>2. PICK n : n \in Saved(a.winner, a.epoch) /\ n \in Saved(b.winner, b.epoch)
    <3> HIDE DEF Saved, Quorum
    <3> QED
      BY <2>1, MajoritiesMeet
  <2>3. /\ [voter |-> n, epoch |-> a.epoch, for |-> a.winner] \in votes
        /\ [voter |-> n, epoch |-> a.epoch, for |-> b.winner] \in votes
    BY <2>2 DEF Saved
  <2> QED
    BY <2>3 DEF VoteInv, OneVotePerEpoch
<1> QED
  BY <1>1, TypeCorrect, VoteInductive, ElectionInductive, PTL

\* A replica counts no vote but those for it in the epoch of its election.
THEOREM CountsVotes == Timely /\ Barrier => (Spec => []CountsOwnVotes)
<1> SUFFICES ASSUME Timely, Barrier PROVE Spec => []CountsOwnVotes
  OBVIOUS
<1>1. TypeOK /\ ElectionInv => CountsOwnVotes
  <2> SUFFICES ASSUME TypeOK, ElectionInv, NEW s \in Replicas, phase[s] = "sent"
               PROVE  count[s] <= Cardinality(Voters(s, authEpoch[s]))
    BY DEF CountsOwnVotes
  <2>1. /\ Got(s) \in SUBSET Masters /\ Voters(s, authEpoch[s]) \in SUBSET Masters
        /\ Got(s) \subseteq Voters(s, authEpoch[s])
    BY DEF Got, Saved, Voters
  <2>2. /\ Cardinality(Got(s)) <= Cardinality(Voters(s, authEpoch[s]))
        /\ Cardinality(Got(s)) \in Nat /\ Cardinality(Voters(s, authEpoch[s])) \in Nat
    <3> HIDE DEF Got, Voters
    <3> QED
      BY <2>1, SmallerSet
  <2>3. count[s] <= Cardinality(Got(s)) /\ count[s] \in Nat
    BY DEF ElectionInv, TypeOK
  <2> QED
    BY <2>2, <2>3
<1> QED
  BY <1>1, TypeCorrect, ElectionInductive, PTL

=============================================================================
