-------------------------- MODULE ReadIndexProofs --------------------------
(***************************************************************************)
(* Reads are linearizable, their positions are those that were given out,  *)
(* and none is forgotten: the safety of module ReadIndex for clusters of   *)
(* any size, any joint configuration and any bounds.                       *)
(***************************************************************************)
EXTENDS ReadIndex, QuorumProofs, SequenceTheorems

-----------------------------------------------------------------------------
(* Types.                                                                  *)

\* An entry is its term.
Terms == Nat

Req   == [from : Server \cup {None}, ctx : Nat]
Read  == [req : Req, index : Nat]
State ==
    [Term : Nat, state : {"StateLeader", "StateFollower"}, lead : Server \cup {None},
     log : Seq(Terms), committed : Nat, Match : [Server -> Nat], acks : [Server -> Nat],
     unconfirmedReads : Seq(Read), confirmedReads : Nat,
     pendingReadIndexMessages : Seq(Req)]

Heartbeats == {"MsgHeartbeat", "MsgHeartbeatResp"}
Message ==
    [type : {"MsgReadIndex"}, to : Server, from : Server, ctx : Nat]
    \cup [type : Heartbeats, from : Server, to : Server, Term : Nat, ctx : Nat]
    \cup [type : {"MsgReadIndexResp"}, from : Server, to : Server, Term : Nat,
          index : Nat, ctx : Nat]

Typed(sv, nt, hi) == sv \in [Server -> State] /\ nt \subseteq Message /\ hi \in Nat

-----------------------------------------------------------------------------
(* Quorums of the configuration.                                           *)

LEMMA VotersFinite ==
    /\ IsFiniteSet(Voters[1]) /\ IsFiniteSet(Voters[2]) /\ JointIDs(Voters) # {}
    /\ Voters[1] \subseteq Server /\ Voters[2] \subseteq Server
<1>1. Voters[1] \in SUBSET Server /\ Voters[2] \in SUBSET Server
  BY ReadIndexAssumption DEF JointIDs
<1>. QED
  BY <1>1, FS_Subset, ReadIndexAssumption DEF JointIDs

\* A set of servers that holds a quorum is one.
LEMMA ServersGrow ==
    ASSUME NEW Q, NEW R, \A j \in Q \cap Server : j \in R, IsJointQuorum(Voters, Q)
    PROVE  IsJointQuorum(Voters, R)
<1>1. ASSUME NEW c, IsFiniteSet(c), c \subseteq Server, IsMajority(c, Q)
      PROVE  IsMajority(c, R)
  <2>1. c \cap Q \in SUBSET (c \cap R) /\ c \cap R \in SUBSET c
    BY <1>1
  <2>2. /\ IsFiniteSet(c \cap R) /\ Cardinality(c \cap R) \in Nat
        /\ Cardinality(c \cap Q) \in Nat /\ Cardinality(c) \in Nat
        /\ Cardinality(c \cap Q) <= Cardinality(c \cap R)
    BY <1>1, <2>1, FS_Subset, FS_CardinalityType
  <2>. QED
    BY <1>1, <2>2 DEF IsMajority
<1>. QED
  BY <1>1, VotersFinite DEF IsJointQuorum

\* Two quorums share a server, so that nobody can be left out of both.
LEMMA ServersMeet ==
    ASSUME NEW Q, NEW R, IsJointQuorum(Voters, Q), IsJointQuorum(Voters, R)
    PROVE  \E j \in Server : j \in Q /\ j \in R
<1>1. \E j \in Voters[1] : j \in Q /\ j \in R
  BY VotersFinite, MajoritiesMeet, ReadIndexAssumption DEF IsJointQuorum
<1>. QED
  BY <1>1, VotersFinite

\* All servers are a quorum.
LEMMA AllServers == IsJointQuorum(Voters, Server)
<1>1. ASSUME NEW c, IsFiniteSet(c), c \subseteq Server PROVE IsMajority(c, Server)
  <2>1. c \cap Server = c
    BY <1>1
  <2>2. Cardinality(c) \in Nat /\ (c # {} => Cardinality(c) # 0)
    BY <1>1, FS_CardinalityType, FS_EmptySet
  <2>. QED
    <3>1. Cardinality(c) # 0 => 2 * Cardinality(c) > Cardinality(c)
      BY <2>2
    <3>. QED
      BY <2>1, <2>2, <3>1, Zenon DEF IsMajority
<1>. QED
  BY <1>1, VotersFinite DEF IsJointQuorum

\* JointCommittedIndex is an index that a quorum has acknowledged, whatever
\* they have acknowledged.
LEMMA QuorumAcked ==
    ASSUME NEW acked \in [Server -> Nat]
    PROVE  LET v == JointCommittedIndex(Voters, acked)
           IN  /\ v \in Nat /\ \E j \in Server : acked[j] >= v
               /\ IsJointQuorum(Voters, {j \in Server : acked[j] >= v})
<1>. DEFINE idx(k) == MajorityCommittedIndex(Voters[k], acked)
            v == JointCommittedIndex(Voters, acked)
            A == {j \in Server : acked[j] >= v}
<1>. HIDE DEF idx, v, A
<1>1. ASSUME NEW k \in {1, 2}, Voters[k] # {}
      PROVE  /\ idx(k) \in {acked[j] : j \in Voters[k]}
             /\ IsMajority(Voters[k], {j \in Voters[k] : acked[j] >= idx(k)})
  <2>1. IsFiniteSet(Voters[k]) /\ \A j \in Voters[k] : acked[j] \in Nat
    BY VotersFinite
  <2>. QED
    BY <1>1, <2>1, MajorityCommitted, Zenon DEF idx
<1>2. \A k \in {1, 2} : Voters[k] = {} => idx(k) = MaxUint64
  BY DEF idx, MajorityCommittedIndex
<1>3. \A k \in {1, 2} : idx(k) \in Nat
  BY <1>1, <1>2, VotersFinite, MaxUint64Assumption
<1>4. v \in Nat /\ v <= idx(1) /\ v <= idx(2)
  BY <1>3 DEF v, JointCommittedIndex, idx
<1>5. \E j \in Server : acked[j] >= v
  BY <1>1, <1>3, <1>4, VotersFinite, ReadIndexAssumption
<1>6. ASSUME NEW k \in {1, 2} PROVE IsMajority(Voters[k], A)
  <2>1. CASE Voters[k] = {}
    BY <2>1 DEF IsMajority
  <2>2. CASE Voters[k] # {}
    <3>. DEFINE H == {j \in Voters[k] : acked[j] >= idx(k)}
    <3>1. Voters[k] \cap H \in SUBSET (Voters[k] \cap A) /\ Voters[k] \cap A \in SUBSET Voters[k]
      BY <1>3, <1>4, VotersFinite DEF A
    <3>2. /\ Cardinality(Voters[k] \cap A) \in Nat /\ Cardinality(Voters[k] \cap H) \in Nat
          /\ Cardinality(Voters[k]) \in Nat
          /\ Cardinality(Voters[k] \cap H) <= Cardinality(Voters[k] \cap A)
      BY <3>1, VotersFinite, FS_Subset, FS_CardinalityType
    <3>3. 2 * Cardinality(Voters[k] \cap H) > Cardinality(Voters[k])
      BY <1>1, <2>2 DEF IsMajority
    <3>. HIDE DEF H
    <3>. QED
      BY <3>2, <3>3 DEF IsMajority
  <2>. QED
    BY <2>1, <2>2
<1>. QED
  BY <1>4, <1>5, <1>6 DEF IsJointQuorum, v, A

-----------------------------------------------------------------------------
(***************************************************************************)
(* The cluster around the reads. LL[t] is the last log of the leader of    *)
(* term t (the bootstrap is that of term 1), AK[j][t] how much of it       *)
(* server j has taken. No variable keeps them: the invariant says that     *)
(* there are such histories.                                               *)
(***************************************************************************)
LeaderLogs == [Nat -> Seq(Terms)]
Taken      == [Server -> [Nat -> Nat]]

\* s and t are the same up to index k.
Agree(s, t, k) == k <= Len(s) /\ k <= Len(t) /\ \A n \in 1..k : s[n] = t[n]

last(log) == log[Len(log)]

LEMMA LogTypes ==
    ASSUME NEW LL \in LeaderLogs
    PROVE  \A t \in Nat : LL[t] \in Seq(Terms) /\ Len(LL[t]) \in Nat
BY DEF LeaderLogs

LEMMA LenNat ==
    ASSUME NEW LL \in LeaderLogs
    PROVE  \A t \in Nat : Len(LL[t]) \in Nat
BY LogTypes

\* A term has a leader only after a quorum has reached it.
Elected(sv, LL) ==
    \A t \in Nat : LL[t] # <<>> => IsJointQuorum(Voters, {j \in Server : sv[j].Term >= t})

\* The terms in a log do not decrease.
Sorted(LL) ==
    \A t \in Nat : \A k \in 1..Len(LL[t]) :
        LL[t][k] \in Nat /\ LL[t][k] <= t /\ \A n \in 1..k : LL[t][n] <= LL[t][k]

\* Logs are copied whole, so a log is what the leader of its last term had.
LogOf(LL, s) ==
    /\ s.log # <<>> /\ last(s.log) \in Nat /\ last(s.log) <= s.Term
    /\ Agree(s.log, LL[last(s.log)], Len(s.log))

LeaderOf(LL, AK, s) ==
    Leading(s) => /\ s.log = LL[s.Term] /\ last(s.log) = s.Term
                  /\ \A j \in Server : s.Match[j] <= AK[j][s.Term]

OneLeader(sv) ==
    \A x, y \in Server :
        Leading(sv[x]) /\ Leading(sv[y]) /\ sv[x].Term = sv[y].Term => x = y

\* What a server has taken in a term it keeps, until it takes a later log.
Holds(AK, j, s) ==
    \A t \in Nat : AK[j][t] > 0 =>
        last(s.log) > t \/ (last(s.log) = t /\ Len(s.log) >= AK[j][t])

\* Index k is committed by an entry that the leader of term t made, and c is
\* committed by a leader of `term` or before.
Certified(LL, AK, t, k) ==
    /\ k \in 1..Len(LL[t]) /\ LL[t][k] = t
    /\ IsJointQuorum(Voters, {j \in Server : AK[j][t] >= k})
Backed(LL, AK, term, c) ==
    \E t \in 0..term : \E k \in Nat : Certified(LL, AK, t, k) /\ c <= k

\* The leader that committed the highest index knows it as long as it leads.
Known(sv, hi, LL, AK) ==
    \E t \in Nat : \E k \in Nat :
        /\ Certified(LL, AK, t, k) /\ hi <= k
        /\ \A x \in Server : Leading(sv[x]) /\ sv[x].Term = t => hi <= sv[x].committed

\* Who has taken index k in term t or still may, and: a later leader has
\* what a quorum has taken or still may.
Open(sv, AK, t, k) == {j \in Server : AK[j][t] >= k \/ sv[j].Term <= t}
Complete(sv, LL, AK) ==
    \A t, u \in Nat : t < u /\ LL[u] # <<>> =>
        \A k \in 1..Len(LL[t]) : LL[t][k] = t =>
            Agree(LL[u], LL[t], k) \/ ~IsJointQuorum(Voters, Open(sv, AK, t, k))

Cluster(sv, hi, LL, AK) ==
    /\ Elected(sv, LL) /\ Sorted(LL) /\ OneLeader(sv)
    /\ \A i \in Server : LogOf(LL, sv[i]) /\ LeaderOf(LL, AK, sv[i]) /\ Holds(AK, i, sv[i])
    /\ \A i \in Server : Backed(LL, AK, sv[i].Term, sv[i].committed) /\ sv[i].committed <= hi
    /\ \A j \in Server : \A t \in Nat : AK[j][t] <= Len(LL[t])
    /\ Known(sv, hi, LL, AK)
    /\ Complete(sv, LL, AK)

-----------------------------------------------------------------------------
(* Steps of the cluster.                                                   *)

\* A server that only learns of a later term, or restarts with its log.
Quiet(s, t) ==
    /\ t.Term >= s.Term /\ t.log = s.log /\ t.committed <= s.committed
    /\ Leading(t) => /\ Leading(s) /\ t.Term = s.Term
                     /\ t.committed = s.committed /\ t.Match = s.Match

\* Servers that move to later terms leave every quorum they were in.
LEMMA TermsOnly ==
    ASSUME NEW sv \in [Server -> State], NEW sv2 \in [Server -> State],
           \A i \in Server : sv2[i].Term >= sv[i].Term,
           NEW LL \in LeaderLogs, NEW AK \in Taken
    PROVE  /\ Elected(sv, LL) => Elected(sv2, LL)
           /\ Complete(sv, LL, AK) => Complete(sv2, LL, AK)
<1>1. \A i \in Server : sv[i].Term \in Nat /\ sv2[i].Term \in Nat
  BY DEF State
<1>2. ASSUME Elected(sv, LL), NEW t \in Nat, LL[t] # <<>>
      PROVE  IsJointQuorum(Voters, {j \in Server : sv2[j].Term >= t})
  <2>1. IsJointQuorum(Voters, {j \in Server : sv[j].Term >= t})
    BY <1>2 DEF Elected
  <2>2. \A j \in Server : sv[j].Term >= t => sv2[j].Term >= t
    BY <1>1
  <2>. QED
    BY <2>1, <2>2, ServersGrow
<1>3. ASSUME NEW t \in Nat, NEW k \in Nat, IsJointQuorum(Voters, Open(sv2, AK, t, k))
      PROVE  IsJointQuorum(Voters, Open(sv, AK, t, k))
  <2>1. \A j \in Server : j \in Open(sv2, AK, t, k) => j \in Open(sv, AK, t, k)
    BY <1>1 DEF Open
  <2>. QED
    BY <1>3, <2>1, ServersGrow
<1>4. \A t \in Nat : \A k \in 1..Len(LL[t]) : k \in Nat
  BY DEF LeaderLogs
<1>. QED
  BY <1>2, <1>3, <1>4 DEF Elected, Complete

LEMMA QuietCluster ==
    ASSUME NEW sv \in [Server -> State], NEW sv2 \in [Server -> State], NEW hi \in Nat,
           NEW LL \in LeaderLogs, NEW AK \in Taken, Cluster(sv, hi, LL, AK),
           \A i \in Server : Quiet(sv[i], sv2[i])
    PROVE  Cluster(sv2, hi, LL, AK)
<1>1. \A i \in Server : /\ sv2[i].Term \in Nat /\ sv[i].Term \in Nat /\ sv2[i].committed \in Nat
                        /\ sv[i].committed \in Nat
                        /\ sv2[i].Term >= sv[i].Term /\ sv2[i].log = sv[i].log
                        /\ sv2[i].committed <= sv[i].committed /\ sv[i].log \in Seq(Terms)
  BY DEF Quiet, State
<1>2. Elected(sv2, LL) /\ Complete(sv2, LL, AK)
  BY <1>1, TermsOnly DEF Cluster
<1>3. OneLeader(sv2)
  BY DEF OneLeader, Quiet, Cluster
<1>4. ASSUME NEW i \in Server
      PROVE  /\ LogOf(LL, sv2[i]) /\ LeaderOf(LL, AK, sv2[i]) /\ Holds(AK, i, sv2[i])
             /\ Backed(LL, AK, sv2[i].Term, sv2[i].committed) /\ sv2[i].committed <= hi
  <2>1. /\ LogOf(LL, sv[i]) /\ LeaderOf(LL, AK, sv[i]) /\ Holds(AK, i, sv[i])
        /\ Backed(LL, AK, sv[i].Term, sv[i].committed) /\ sv[i].committed <= hi
    BY DEF Cluster
  <2>3. LogOf(LL, sv2[i])
    BY <1>1, <2>1 DEF LogOf
  <2>4. LeaderOf(LL, AK, sv2[i])
    BY <1>1, <2>1 DEF LeaderOf, Quiet
  <2>5. Holds(AK, i, sv2[i])
    BY <1>1, <2>1 DEF Holds
  <2>6. Backed(LL, AK, sv2[i].Term, sv2[i].committed)
    <3>1. PICK t \in 0..sv[i].Term, k \in Nat : Certified(LL, AK, t, k) /\ sv[i].committed <= k
      BY <2>1 DEF Backed
    <3>2. t \in 0..sv2[i].Term /\ sv2[i].committed <= k
      BY <1>1, <3>1
    <3>. QED
      BY <3>1, <3>2 DEF Backed
  <2>. QED
    BY <1>1, <2>1, <2>3, <2>4, <2>5, <2>6
<1>5. Known(sv2, hi, LL, AK)
  BY DEF Known, Quiet, Cluster
<1>. QED
  BY <1>2, <1>3, <1>4, <1>5 DEF Cluster

\* A leader that has committed an entry of its term knows every commit,
\* unless a quorum has moved on to later terms.
LEMMA LeaderKnows ==
    ASSUME NEW sv \in [Server -> State], NEW hi \in Nat,
           NEW LL \in LeaderLogs, NEW AK \in Taken, Cluster(sv, hi, LL, AK),
           NEW i \in Server, Leading(sv[i]), committedEntryInCurrentTerm(sv[i]),
           sv[i].committed <= Len(sv[i].log),
           IsJointQuorum(Voters, {j \in Server : sv[j].Term <= sv[i].Term})
    PROVE  hi <= sv[i].committed
<1>. DEFINE T == sv[i].Term
            c == sv[i].committed
<1>1. T \in Nat /\ c \in Nat /\ \A j \in Server : sv[j].Term \in Nat
  BY DEF State
<1>2. PICK t \in Nat, k \in Nat :
        /\ Certified(LL, AK, t, k) /\ hi <= k
        /\ \A x \in Server : Leading(sv[x]) /\ sv[x].Term = t => hi <= sv[x].committed
  BY DEF Cluster, Known
<1>3. k \in 1..Len(LL[t]) /\ LL[t][k] = t /\ LL[t] # <<>>
  BY <1>2 DEF Certified, LeaderLogs
<1>4. CASE t > T
  <2>1. IsJointQuorum(Voters, {j \in Server : sv[j].Term >= t})
    BY <1>3 DEF Cluster, Elected
  <2>2. \E j \in Server : sv[j].Term >= t /\ sv[j].Term <= T
    BY <2>1, ServersMeet
  <2>. QED
    BY <1>1, <1>4, <2>2
<1>5. CASE t = T
  BY <1>2, <1>5
<1>6. CASE t < T
  <2>1. sv[i].log = LL[T] /\ sv[i].log # <<>>
    BY DEF Cluster, LeaderOf, LogOf
  <2>2. IsJointQuorum(Voters, Open(sv, AK, t, k))
    <3>1. \A j \in Server : AK[j][t] >= k => j \in Open(sv, AK, t, k)
      BY DEF Open
    <3>. QED
      BY <1>2, <3>1, ServersGrow DEF Certified
  <2>3. Agree(LL[T], LL[t], k)
    BY <1>1, <1>3, <1>6, <2>1, <2>2 DEF Cluster, Complete
  <2>4. LL[T][k] = t /\ k \in 1..Len(LL[T])
    BY <1>1, <1>3, <2>3, LenNat DEF Agree
  <2>5. LL[T][c] = T /\ c \in 1..Len(LL[T])
    BY <1>1, <2>1 DEF committedEntryInCurrentTerm
  <2>6. k >= c => LL[T][c] <= LL[T][k]
    <3>1. \A n \in 1..k : LL[T][n] <= LL[T][k]
      BY <1>1, <2>4, Zenon DEF Cluster, Sorted
    <3>2. k >= c => c \in 1..k
      BY <1>1, <2>5
    <3>. QED
      BY <3>1, <3>2
  <2>. QED
    BY <1>1, <1>2, <1>6, <2>4, <2>5, <2>6
<1>. QED
  BY <1>1, <1>4, <1>5, <1>6

\* Of two sets of which nobody is in both, one is no quorum.
LEMMA LeftBehind ==
    ASSUME NEW sv \in [Server -> State], NEW LL \in LeaderLogs, Elected(sv, LL),
           NEW t \in Nat, NEW u \in Nat, t < u, LL[u] # <<>>
    PROVE  ~IsJointQuorum(Voters, {j \in Server : sv[j].Term <= t})
<1>1. IsJointQuorum(Voters, {j \in Server : sv[j].Term >= u})
  BY DEF Elected
<1>2. \A j \in Server : sv[j].Term \in Nat
  BY DEF State
<1>. SUFFICES ASSUME IsJointQuorum(Voters, {j \in Server : sv[j].Term <= t}) PROVE FALSE
  OBVIOUS
<1>3. \E j \in Server : sv[j].Term >= u /\ sv[j].Term <= t
  BY <1>1, ServersMeet
<1>. QED
  BY <1>2, <1>3

\* Histories of a later time: logs have grown, and more has been taken.
Grown(LL, MM) == \A t \in Nat : Agree(LL[t], MM[t], Len(LL[t]))
Later(AK, BK) == \A j \in Server : \A t \in Nat : AK[j][t] <= BK[j][t]

\* What is certified stays so.
LEMMA StaysCertified ==
    ASSUME NEW LL \in LeaderLogs, NEW AK \in Taken, NEW MM \in LeaderLogs, NEW BK \in Taken,
           Grown(LL, MM), Later(AK, BK)
    PROVE  /\ \A t, k \in Nat : Certified(LL, AK, t, k) => Certified(MM, BK, t, k)
           /\ \A term, c \in Nat : Backed(LL, AK, term, c) => Backed(MM, BK, term, c)
<1>1. ASSUME NEW t \in Nat, NEW k \in Nat, Certified(LL, AK, t, k)
      PROVE  Certified(MM, BK, t, k)
  <2>1. \A j \in Server : AK[j][t] \in Nat /\ BK[j][t] \in Nat
    BY DEF Taken
  <2>2. \A j \in Server : AK[j][t] >= k => BK[j][t] >= k
    BY <2>1 DEF Later
  <2>3. IsJointQuorum(Voters, {j \in Server : BK[j][t] >= k})
    BY <1>1, <2>2, ServersGrow DEF Certified
  <2>4. Len(LL[t]) \in Nat /\ Len(MM[t]) \in Nat /\ Agree(LL[t], MM[t], Len(LL[t]))
    BY LenNat DEF Grown
  <2>5. k \in 1..Len(MM[t]) /\ MM[t][k] = t
    BY <1>1, <2>4 DEF Certified, Agree
  <2>. QED
    BY <2>3, <2>5 DEF Certified
<1>. QED
  BY <1>1 DEF Backed

\* t is s with a new entry of its term.
Extended(s, t) == t = [s EXCEPT !.log = Append(s.log, s.Term)]

LEMMA ExtendedFields ==
    ASSUME NEW s \in State, NEW t, Extended(s, t)
    PROVE  /\ t.Term = s.Term /\ t.committed = s.committed /\ t.state = s.state
           /\ t.Match = s.Match /\ t.log = Append(s.log, s.Term)
<1>1. t = [s EXCEPT !.log = Append(s.log, s.Term)]
  BY DEF Extended
<1>. DEFINE e == Append(s.log, s.Term)
<1>. HIDE DEF e
<1>2. t = [s EXCEPT !.log = e]
  BY <1>1 DEF e
<1>3. /\ t.Term = s.Term /\ t.committed = s.committed /\ t.state = s.state
      /\ t.Match = s.Match /\ t.log = e
  BY <1>2 DEF State
<1>. QED
  BY <1>3 DEF e

(***************************************************************************)
(* The leader appends an entry. A later leader does not have it, and then  *)
(* a quorum has left the term.                                             *)
(***************************************************************************)
LEMMA ProposeCluster ==
    ASSUME NEW sv \in [Server -> State], NEW sv2 \in [Server -> State], NEW hi \in Nat,
           NEW LL \in LeaderLogs, NEW AK \in Taken, Cluster(sv, hi, LL, AK),
           NEW i \in Server, Leading(sv[i]),
           Extended(sv[i], sv2[i]), \A x \in Server \ {i} : sv2[x] = sv[x]
    PROVE  \E MM \in LeaderLogs :
             Cluster(sv2, hi, MM, AK) /\ \A t \in Nat : LL[t] # <<>> => MM[t] # <<>>
<1>. DEFINE T == sv[i].Term
            log == sv[i].log
            MM == [LL EXCEPT ![T] = Append(log, T)]
<1>1. /\ T \in Nat /\ log \in Seq(Terms) /\ log = LL[T] /\ log # <<>> /\ last(log) = T
      /\ \A t \in Nat : LL[t] \in Seq(Terms) /\ Len(LL[t]) \in Nat
  <2>1. T \in Nat /\ log \in Seq(Terms)
    BY DEF State
  <2>2. log = LL[T] /\ log # <<>> /\ last(log) = T
    BY DEF Cluster, LeaderOf, LogOf
  <2>. QED
    BY <2>1, <2>2, LogTypes
<1>. T \in Terms
  BY <1>1 DEF Terms
<1>2. /\ Append(log, T) \in Seq(Terms) /\ Len(Append(log, T)) = Len(log) + 1 /\ Len(log) \in Nat
      /\ Append(log, T)[Len(log) + 1] = T /\ Append(log, T) # <<>>
      /\ \A n \in 1..Len(log) : Append(log, T)[n] = log[n]
      /\ last(Append(log, T)) = T
  <2>. HIDE DEF T, log
  <2>1. log \in Seq(Terms) /\ T \in Terms
    BY <1>1
  <2>. DEFINE e == Append(log, T)
  <2>2. /\ e \in Seq(Terms) /\ Len(e) = Len(log) + 1 /\ Len(log) \in Nat
        /\ e[Len(log) + 1] = T /\ \A n \in 1..Len(log) : e[n] = log[n]
    BY <2>1
  <2>. HIDE DEF e
  <2>3. last(e) = T
    BY <2>2 DEF last
  <2>4. e # <<>>
    BY <2>2
  <2>. QED
    BY <2>2, <2>3, <2>4 DEF e
<1>3. MM \in LeaderLogs /\ MM[T] = Append(log, T) /\ \A t \in Nat : t # T => MM[t] = LL[t]
  BY <1>1, <1>2 DEF LeaderLogs
<1>4. \A x \in Server : /\ sv2[x].Term = sv[x].Term /\ sv2[x].committed = sv[x].committed
                        /\ sv2[x].state = sv[x].state /\ sv2[x].Match = sv[x].Match
                        /\ x # i => sv2[x] = sv[x]
                        /\ sv[x].Term \in Nat /\ sv[x].committed \in Nat
  BY ExtendedFields DEF State
<1>5. sv2[i].log = Append(log, T) /\ sv2[i].Term = T
  BY ExtendedFields
<1>. HIDE DEF MM, T, log
<1>6. Grown(LL, MM)
  <2>. SUFFICES ASSUME NEW t \in Nat PROVE Agree(LL[t], MM[t], Len(LL[t]))
    BY DEF Grown
  <2>1. CASE t = T
    <3>1. Len(log) <= Len(MM[T]) /\ \A n \in 1..Len(log) : MM[T][n] = log[n]
      BY <1>2, <1>3
    <3>. QED
      BY <1>1, <1>2, <2>1, <3>1 DEF Agree
  <2>2. CASE t # T
    BY <1>1, <1>3, <2>2 DEF Agree
  <2>. QED
    BY <2>1, <2>2
<1>7. /\ \A t, k \in Nat : Certified(LL, AK, t, k) => Certified(MM, AK, t, k)
      /\ \A term, c \in Nat : Backed(LL, AK, term, c) => Backed(MM, AK, term, c)
  <2>1. Later(AK, AK)
    BY DEF Taken, Later
  <2>. QED
    BY <1>3, <1>6, <2>1, StaysCertified
<1>8. \A t \in Nat : LL[t] # <<>> <=> MM[t] # <<>>
  BY <1>1, <1>2, <1>3
<1>9. Elected(sv, MM) /\ Elected(sv2, MM)
  <2>1. Elected(sv, MM)
    BY <1>8 DEF Cluster, Elected
  <2>. QED
    BY <1>3, <1>4, <2>1, TermsOnly
<1>10. Sorted(MM)
  <2>1. ASSUME NEW t \in Nat, NEW k \in 1..Len(MM[t])
        PROVE  MM[t][k] \in Nat /\ MM[t][k] <= t /\ \A n \in 1..k : MM[t][n] <= MM[t][k]
    <3>1. \A n \in 1..Len(LL[t]) : LL[t][n] \in Nat /\ LL[t][n] <= t /\ MM[t][n] = LL[t][n]
      BY <1>6 DEF Cluster, Sorted, Agree, Grown
    <3>2. CASE k \in 1..Len(LL[t])
      <4>1. \A n \in 1..k : LL[t][n] <= LL[t][k]
        BY <3>2 DEF Cluster, Sorted
      <4>2. \A n \in 1..k : n \in 1..Len(LL[t])
        BY <1>1, <3>2
      <4>. QED
        BY <3>1, <3>2, <4>1, <4>2
    <3>3. CASE k \notin 1..Len(LL[t])
      <4>1. t = T /\ k = Len(log) + 1
        BY <1>1, <1>2, <1>3, <2>1, <3>3
      <4>2. MM[t][k] = t /\ t \in Nat
        BY <1>2, <1>3, <4>1
      <4>3. \A n \in 1..k : n \in 1..Len(LL[t]) \/ n = k
        BY <1>1, <1>2, <4>1
      <4>. QED
        BY <3>1, <4>2, <4>3
    <3>. QED
      BY <3>2, <3>3
  <2>. QED
    BY <2>1 DEF Sorted
<1>11. OneLeader(sv2)
  BY <1>4 DEF OneLeader, Leading, Cluster
<1>12. ASSUME NEW x \in Server
       PROVE  LogOf(MM, sv2[x]) /\ LeaderOf(MM, AK, sv2[x]) /\ Holds(AK, x, sv2[x])
  <2>1. LogOf(LL, sv[x]) /\ LeaderOf(LL, AK, sv[x]) /\ Holds(AK, x, sv[x])
    BY DEF Cluster
  <2>2. CASE x = i
    <3>1. LogOf(MM, sv2[x])
      <4>1. Agree(Append(log, T), MM[T], Len(Append(log, T)))
        BY <1>2, <1>3 DEF Agree
      <4>2. T <= T /\ T \in Nat
        BY <1>1
      <4>. DEFINE e == Append(log, T)
      <4>3. e # <<>> /\ last(e) = T /\ Agree(e, MM[T], Len(e))
        BY <1>2, <4>1
      <4>4. sv2[x].log = e /\ sv2[x].Term = T
        BY <1>5, <2>2
      <4>. HIDE DEF e
      <4>. QED
        BY <4>2, <4>3, <4>4, Zenon DEF LogOf
    <3>2. LeaderOf(MM, AK, sv2[x])
      BY <1>2, <1>3, <1>4, <1>5, <2>1, <2>2 DEF LeaderOf, Leading
    <3>3. Holds(AK, x, sv2[x])
      <4>. SUFFICES ASSUME NEW t \in Nat, AK[x][t] > 0
                    PROVE  T > t \/ (T = t /\ Len(log) + 1 >= AK[x][t])
        BY <1>2, <1>5, <2>2 DEF Holds
      <4>1. T > t \/ (T = t /\ Len(log) >= AK[x][t])
        BY <1>1, <2>1, <2>2 DEF Holds, log
      <4>2. AK[x][t] \in Nat
        BY DEF Taken
      <4>. QED
        BY <1>2, <4>1, <4>2
    <3>. QED
      BY <3>1, <3>2, <3>3
  <2>3. CASE x # i
    <3>1. sv2[x] = sv[x] /\ sv[x].log \in Seq(Terms)
      BY <1>4, <2>3 DEF State
    <3>2. LogOf(MM, sv[x])
      <4>. DEFINE u == last(sv[x].log)
      <4>1. u \in Nat /\ Len(sv[x].log) \in Nat
        BY <2>1, <3>1 DEF LogOf
      <4>2. Agree(sv[x].log, LL[u], Len(sv[x].log)) /\ Agree(LL[u], MM[u], Len(LL[u]))
        BY <1>6, <2>1, <4>1 DEF LogOf, Grown
      <4>3. Agree(sv[x].log, MM[u], Len(sv[x].log))
        <5>1. Len(LL[u]) \in Nat /\ Len(MM[u]) \in Nat
          BY <1>3, <4>1, LenNat
        <5>. HIDE DEF u
        <5>. QED
          BY <4>1, <4>2, <5>1 DEF Agree
      <4>. QED
        BY <2>1, <4>3 DEF LogOf
    <3>3. LeaderOf(MM, AK, sv[x])
      <4>1. Leading(sv[x]) => sv[x].Term # T
        BY <2>3 DEF Cluster, OneLeader, T
      <4>. QED
        BY <1>3, <1>4, <2>1, <4>1 DEF LeaderOf
    <3>. QED
      BY <2>1, <3>1, <3>2, <3>3
  <2>. QED
    BY <2>2, <2>3
<1>13. \A x \in Server : Backed(MM, AK, sv2[x].Term, sv2[x].committed) /\ sv2[x].committed <= hi
  BY <1>4, <1>7 DEF Cluster
<1>14. \A j \in Server : \A t \in Nat : AK[j][t] <= Len(LL[t]) /\ AK[j][t] <= Len(MM[t])
  <2>. TAKE j \in Server
  <2>. TAKE t \in Nat
  <2>1. AK[j][t] \in Nat /\ AK[j][t] <= Len(LL[t]) /\ Len(MM[t]) \in Nat
    BY <1>3, LenNat DEF Cluster, Taken
  <2>. QED
    BY <1>1, <1>6, <2>1 DEF Agree, Grown
<1>15. Known(sv2, hi, MM, AK)
  BY <1>4, <1>7 DEF Cluster, Known, Leading
<1>16. Complete(sv2, MM, AK)
  <2>. SUFFICES ASSUME NEW t \in Nat, NEW u \in Nat, t < u, MM[u] # <<>>,
                       NEW k \in 1..Len(MM[t]), MM[t][k] = t,
                       IsJointQuorum(Voters, Open(sv2, AK, t, k))
                PROVE  Agree(MM[u], MM[t], k)
    BY DEF Complete
  <2>1. Open(sv2, AK, t, k) = Open(sv, AK, t, k)
    BY <1>4 DEF Open
  <2>2. CASE k \in 1..Len(LL[t])
    <3>1. LL[t][k] = t /\ Agree(LL[t], MM[t], Len(LL[t])) /\ Agree(LL[u], MM[u], Len(LL[u]))
      BY <1>6, <2>2 DEF Agree, Grown
    <3>2. Agree(LL[u], LL[t], k)
      BY <1>8, <2>1, <2>2, <3>1 DEF Cluster, Complete
    <3>3. Len(LL[u]) \in Nat /\ Len(MM[u]) \in Nat /\ Len(LL[t]) \in Nat /\ Len(MM[t]) \in Nat
      BY <1>3, LenNat
    <3>4. k \in Nat /\ k <= Len(LL[u]) /\ k <= Len(MM[u]) /\ k <= Len(LL[t]) /\ k <= Len(MM[t])
      BY <2>2, <3>1, <3>2, <3>3 DEF Agree
    <3>5. ASSUME NEW n \in 1..k PROVE MM[u][n] = MM[t][n]
      <4>1. n \in 1..Len(LL[u]) /\ n \in 1..Len(LL[t])
        BY <3>3, <3>4
      <4>. QED
        BY <3>1, <3>2, <4>1, Zenon DEF Agree
    <3>. QED
      BY <3>4, <3>5 DEF Agree
  <2>3. CASE k \notin 1..Len(LL[t])
    <3>1. k \in Nat /\ k > Len(LL[t])
      BY <1>1, <1>3, <2>3, LenNat
    <3>2. \A j \in Server : AK[j][t] \in Nat /\ AK[j][t] < k
      <4>1. \A j \in Server : AK[j][t] \in Nat
        BY DEF Taken
      <4>2. \A n \in Nat : n <= Len(LL[t]) => n < k
        BY <1>1, <3>1
      <4>. QED
        BY <1>14, <4>1, <4>2
    <3>3. Open(sv, AK, t, k) = {j \in Server : sv[j].Term <= t}
      BY <3>1, <3>2 DEF Open
    <3>. QED
      BY <1>3, <1>9, <2>1, <3>3, LeftBehind
  <2>. QED
    BY <2>2, <2>3
<1>. QED
  BY <1>3, <1>8, <1>9, <1>10, <1>11, <1>12, <1>13, <1>14, <1>15, <1>16 DEF Cluster

\* A log that is left alone, and what is committed, in later histories.
LEMMA LogOfGrown ==
    ASSUME NEW LL \in LeaderLogs, NEW MM \in LeaderLogs, Grown(LL, MM),
           NEW s \in State, NEW t \in State, LogOf(LL, s), t.log = s.log, t.Term >= s.Term
    PROVE  LogOf(MM, t)
<1>. DEFINE u == last(s.log)
            n == Len(s.log)
<1>1. u \in Nat /\ n \in Nat /\ s.Term \in Nat /\ t.Term \in Nat /\ u <= s.Term /\ s.log # <<>>
  BY DEF LogOf, State
<1>2. Agree(s.log, LL[u], n) /\ Agree(LL[u], MM[u], Len(LL[u]))
  BY <1>1 DEF LogOf, Grown
<1>3. Len(LL[u]) \in Nat /\ Len(MM[u]) \in Nat
  BY <1>1, LenNat
<1>4. Agree(s.log, MM[u], n)
  <2>. HIDE DEF u, n
  <2>. QED
    BY <1>1, <1>2, <1>3 DEF Agree
<1>5. u <= t.Term
  BY <1>1
<1>. QED
  BY <1>1, <1>4, <1>5 DEF LogOf

LEMMA BackedLater ==
    ASSUME NEW LL \in LeaderLogs, NEW AK \in Taken, NEW MM \in LeaderLogs, NEW BK \in Taken,
           Grown(LL, MM), Later(AK, BK),
           NEW term \in Nat, NEW c \in Nat, Backed(LL, AK, term, c),
           NEW term2 \in Nat, term <= term2, NEW d \in Nat, d <= c
    PROVE  Backed(MM, BK, term2, d)
<1>1. PICK t \in 0..term, k \in Nat : Certified(LL, AK, t, k) /\ c <= k
  BY DEF Backed
<1>2. t \in 0..term2 /\ d <= k /\ t \in Nat
  BY <1>1
<1>3. Certified(MM, BK, t, k)
  BY <1>1, <1>2, StaysCertified
<1>. QED
  BY <1>2, <1>3 DEF Backed

\* What a quorum has taken a quorum may take.
LEMMA CertifiedOpen ==
    ASSUME NEW sv, NEW LL, NEW AK, NEW t, NEW k, Certified(LL, AK, t, k)
    PROVE  IsJointQuorum(Voters, Open(sv, AK, t, k))
<1>1. \A j \in Server : AK[j][t] >= k => j \in Open(sv, AK, t, k)
  BY DEF Open
<1>. QED
  BY <1>1, ServersGrow DEF Certified

\* The log of a leader has every index that is backed in its term.
LEMMA LeaderHas ==
    ASSUME NEW sv \in [Server -> State], NEW hi \in Nat,
           NEW LL \in LeaderLogs, NEW AK \in Taken, Cluster(sv, hi, LL, AK),
           NEW i \in Server, Leading(sv[i]), NEW c \in Nat, Backed(LL, AK, sv[i].Term, c)
    PROVE  c <= Len(sv[i].log)
<1>. DEFINE T == sv[i].Term
<1>1. T \in Nat /\ sv[i].log = LL[T] /\ sv[i].log # <<>> /\ Len(LL[T]) \in Nat
  <2>1. T \in Nat
    BY DEF State
  <2>2. sv[i].log = LL[T] /\ sv[i].log # <<>>
    BY DEF Cluster, LeaderOf, LogOf
  <2>. QED
    BY <2>1, <2>2, LenNat
<1>2. PICK t \in 0..T, k \in Nat : Certified(LL, AK, t, k) /\ c <= k
  BY DEF Backed
<1>3. t \in Nat /\ t <= T /\ k \in 1..Len(LL[t]) /\ LL[t][k] = t /\ Len(LL[t]) \in Nat
  BY <1>1, <1>2, LenNat DEF Certified
<1>4. CASE t = T
  BY <1>1, <1>2, <1>3, <1>4
<1>5. CASE t # T
  <2>1. t < T
    BY <1>1, <1>3, <1>5
  <2>2. IsJointQuorum(Voters, Open(sv, AK, t, k))
    BY <1>2, CertifiedOpen
  <2>3. Agree(LL[T], LL[t], k)
    BY <1>1, <1>3, <2>1, <2>2 DEF Cluster, Complete
  <2>. QED
    BY <1>1, <1>2, <1>3, <2>3 DEF Agree
<1>. QED
  BY <1>4, <1>5

-----------------------------------------------------------------------------
(***************************************************************************)
(* An election: server i takes the next term with the votes of Q. Its log  *)
(* is at least as good as theirs, and one of them is in every quorum that  *)
(* has taken an entry of an earlier leader.                                *)
(***************************************************************************)
Promoted(sv, sv2, i, Q, T) ==
    /\ Leading(sv2[i]) /\ sv2[i].Term = T /\ sv2[i].log = Append(sv[i].log, T)
    /\ sv2[i].committed = sv[i].committed
    /\ sv2[i].Match = [j \in Server |-> IF j = i THEN Len(sv[i].log) ELSE 0]
    /\ \A j \in Q \ {i} : /\ ~Leading(sv2[j]) /\ sv2[j].Term = T /\ sv2[j].log = sv[j].log
                          /\ sv2[j].committed = sv[j].committed
    /\ \A j \in Server \ Q : sv2[j] = sv[j]

Electable(sv, i, Q, T) ==
    /\ i \in Q /\ Q \subseteq Server /\ IsJointQuorum(Voters, Q)
    /\ \A j \in Q : sv[j].Term < T /\ UpToDate(sv[i].log, sv[j].log)

LEMMA UpToDateLast ==
    ASSUME NEW a, NEW b, a # <<>>, b # <<>>, UpToDate(a, b)
    PROVE  last(a) > last(b) \/ (last(a) = last(b) /\ Len(a) >= Len(b))
BY DEF UpToDate, last

\* The new leader has what a quorum has taken or still may.
LEMMA ElectComplete ==
    ASSUME NEW sv \in [Server -> State], NEW hi \in Nat,
           NEW LL \in LeaderLogs, NEW AK \in Taken, Cluster(sv, hi, LL, AK),
           NEW i \in Server, NEW Q, NEW T \in Nat, Electable(sv, i, Q, T),
           NEW t \in Nat, t < T, NEW k \in 1..Len(LL[t]), LL[t][k] = t,
           NEW R, IsJointQuorum(Voters, R), \A j \in R \cap Server : j \in Open(sv, AK, t, k),
           \A j \in Q : j \in R => AK[j][t] >= k
    PROVE  Agree(sv[i].log, LL[t], k)
<1>1. PICK j \in Server : j \in Q /\ AK[j][t] >= k
  <2>1. \E j \in Server : j \in Q /\ j \in R
    BY ServersMeet DEF Electable
  <2>. QED
    BY <2>1
<1>. DEFINE a == sv[i].log
            b == sv[j].log
            u == last(a)
            v == last(b)
<1>2. /\ AK[j][t] \in Nat /\ k \in Nat /\ k > 0 /\ Len(LL[t]) \in Nat /\ k <= Len(LL[t])
      /\ Len(a) \in Nat /\ Len(b) \in Nat
  <2>1. Len(LL[t]) \in Nat
    BY LenNat
  <2>2. a \in Seq(Terms) /\ b \in Seq(Terms)
    BY <1>1 DEF State
  <2>3. Len(a) \in Nat /\ Len(b) \in Nat
    BY <2>2
  <2>. QED
    BY <1>1, <2>1, <2>3 DEF Taken
<1>3. a # <<>> /\ b # <<>> /\ u \in Nat /\ v \in Nat /\ Agree(a, LL[u], Len(a)) /\ Agree(b, LL[v], Len(b))
  BY <1>1 DEF Cluster, LogOf
<1>4. v > t \/ (v = t /\ Len(b) >= AK[j][t])
  <2>1. AK[j][t] > 0
    BY <1>1, <1>2
  <2>. QED
    BY <1>1, <2>1 DEF Cluster, Holds
<1>5. u > v \/ (u = v /\ Len(a) >= Len(b))
  BY <1>1, <1>3, UpToDateLast DEF Electable
<1>. Len(LL[u]) \in Nat
  BY <1>3, LenNat
<1>. HIDE DEF a, b, u, v
<1>6. CASE u = t
  <2>1. Len(a) >= k
    BY <1>1, <1>2, <1>3, <1>4, <1>5, <1>6
  <2>2. Agree(a, LL[t], k)
    BY <1>2, <1>3, <1>6, <2>1 DEF Agree
  <2>. QED
    BY <2>2 DEF a
<1>7. CASE u # t
  <2>1. u > t
    BY <1>3, <1>4, <1>5, <1>7
  <2>2. Len(a) > 0 /\ a[Len(a)] = u /\ LL[u] # <<>>
    <3>1. Len(a) > 0
      <4>1. a \in Seq(Terms)
        BY DEF a, State
      <4>. QED
        BY <1>3, <4>1
    <3>2. a[Len(a)] = u
      BY DEF u, last
    <3>. QED
      BY <1>2, <1>3, <3>1, <3>2 DEF Agree
  <2>3. IsJointQuorum(Voters, Open(sv, AK, t, k))
    BY ServersGrow
  <2>4. Agree(LL[u], LL[t], k)
    BY <1>3, <2>1, <2>2, <2>3 DEF Cluster, Complete
  <2>5. Len(a) > k
    <3>1. Len(a) <= k => LL[u][Len(a)] = LL[t][Len(a)] /\ Len(a) \in 1..Len(LL[t])
      BY <1>2, <2>2, <2>4 DEF Agree
    <3>2. \A n \in 1..Len(LL[t]) : LL[t][n] \in Nat /\ LL[t][n] <= t
      BY DEF Cluster, Sorted
    <3>3. LL[u][Len(a)] = u
      BY <1>2, <1>3, <2>2 DEF Agree
    <3>. QED
      BY <1>2, <1>3, <2>1, <3>1, <3>2, <3>3
  <2>6. Agree(a, LL[t], k)
    BY <1>2, <1>3, <2>4, <2>5 DEF Agree
  <2>. QED
    BY <2>6 DEF a
<1>. QED
  BY <1>6, <1>7

LEMMA ElectCluster ==
    ASSUME NEW sv \in [Server -> State], NEW sv2 \in [Server -> State], NEW hi \in Nat,
           NEW LL \in LeaderLogs, NEW AK \in Taken, Cluster(sv, hi, LL, AK),
           NEW i \in Server, NEW Q, NEW T \in Nat,
           Electable(sv, i, Q, T), Promoted(sv, sv2, i, Q, T)
    PROVE  /\ LL[T] = <<>> /\ ~committedEntryInCurrentTerm(sv2[i])
           /\ \E MM \in LeaderLogs, BK \in Taken :
                Cluster(sv2, hi, MM, BK) /\ \A t \in Nat : LL[t] # <<>> => MM[t] # <<>>
<1>. DEFINE log == sv[i].log
            n  == Len(log)
            new == Append(log, T)
            MM == [LL EXCEPT ![T] = new]
            BK == [AK EXCEPT ![i] = [AK[i] EXCEPT ![T] = n + 1]]
<1>1. \A x \in Server : /\ sv[x].Term \in Nat /\ sv2[x].Term \in Nat
                        /\ sv[x].committed \in Nat /\ sv2[x].committed \in Nat
  BY DEF State
<1>2. \A x \in Server : /\ LogOf(LL, sv[x]) /\ LeaderOf(LL, AK, sv[x]) /\ Holds(AK, x, sv[x])
                        /\ Backed(LL, AK, sv[x].Term, sv[x].committed) /\ sv[x].committed <= hi
  BY DEF Cluster
<1>3. /\ new \in Seq(Terms) /\ Len(new) = n + 1 /\ n \in Nat /\ new[n + 1] = T /\ new # <<>>
      /\ (\A k \in 1..n : new[k] = log[k]) /\ last(new) = T
  <2>1. log \in Seq(Terms) /\ T \in Terms
    BY DEF State, Terms
  <2>. QED
    BY <2>1 DEF last
<1>. HIDE DEF log, n, new
<1>4. LL[T] = <<>>
  <2>. SUFFICES ASSUME LL[T] # <<>> PROVE FALSE
    OBVIOUS
  <2>1. IsJointQuorum(Voters, {j \in Server : sv[j].Term >= T}) /\ IsJointQuorum(Voters, Q)
    BY DEF Cluster, Elected, Electable
  <2>2. \E j \in Server : j \in Q /\ sv[j].Term >= T
    BY <2>1, ServersMeet
  <2>. QED
    BY <1>1, <2>2 DEF Electable
<1>5. /\ MM \in LeaderLogs /\ MM[T] = new /\ \A t \in Nat : t # T => MM[t] = LL[t]
      /\ \A t \in Nat : MM[t] \in Seq(Terms) /\ Len(MM[t]) \in Nat /\ Len(LL[t]) \in Nat
  <2>1. MM \in LeaderLogs /\ MM[T] = new /\ \A t \in Nat : t # T => MM[t] = LL[t]
    BY <1>3 DEF LeaderLogs
  <2>. QED
    BY <2>1, LogTypes
<1>6. \A j \in Server : \A t \in Nat : AK[j][t] \in Nat /\ AK[j][t] <= Len(LL[t])
  BY DEF Taken, Cluster
<1>7. AK[i] \in [Nat -> Nat] /\ Len(LL[T]) = 0
  BY <1>4 DEF Taken
<1>8. /\ BK \in Taken /\ BK[i][T] = n + 1
      /\ \A j \in Server : \A t \in Nat : j # i \/ t # T => BK[j][t] = AK[j][t]
  <2>1. n + 1 \in Nat
    BY <1>3
  <2>. HIDE DEF n
  <2>. QED
    BY <1>7, <2>1 DEF Taken
<1>. HIDE DEF MM, BK
<1>9. \A j \in Server : AK[j][T] = 0
  BY <1>6, <1>7
<1>10. Grown(LL, MM) /\ \A t \in Nat : LL[t] # <<>> => MM[t] # <<>> /\ t # T /\ MM[t] = LL[t]
  <2>1. \A t \in Nat : t # T => Agree(LL[t], MM[t], Len(LL[t]))
    BY <1>5 DEF Agree
  <2>2. Agree(LL[T], MM[T], Len(LL[T]))
    BY <1>5, <1>7 DEF Agree
  <2>. QED
    BY <1>4, <1>5, <2>1, <2>2 DEF Grown
<1>11. Later(AK, BK)
  BY <1>3, <1>6, <1>8, <1>9 DEF Later
<1>12. /\ \A x \in Server : sv2[x].Term >= sv[x].Term /\ sv2[x].committed = sv[x].committed
       /\ \A x \in Server \ {i} : sv2[x].log = sv[x].log /\ (Leading(sv2[x]) => sv2[x] = sv[x])
       /\ \A x \in Q : sv2[x].Term = T /\ sv[x].Term < T
       /\ \A x \in Server \ Q : sv2[x] = sv[x]
  BY <1>1 DEF Promoted, Electable
<1>13. \A x \in Server : Leading(sv[x]) => sv[x].Term # T /\ LL[sv[x].Term] # <<>>
  BY <1>1, <1>2, <1>4 DEF LeaderOf, LogOf
<1>14. Elected(sv2, MM)
  <2>. SUFFICES ASSUME NEW t \in Nat, MM[t] # <<>>
                PROVE  IsJointQuorum(Voters, {j \in Server : sv2[j].Term >= t})
    BY DEF Elected
  <2>1. CASE t = T
    <3>1. \A j \in Q \cap Server : sv2[j].Term >= T
      BY <1>12
    <3>2. IsJointQuorum(Voters, Q)
      BY DEF Electable
    <3>. QED
      BY <2>1, <3>1, <3>2, ServersGrow
  <2>2. CASE t # T
    <3>1. Elected(sv2, LL)
      BY <1>12, TermsOnly DEF Cluster
    <3>. QED
      BY <1>5, <2>2, <3>1 DEF Elected
  <2>. QED
    BY <2>1, <2>2
<1>15. Sorted(MM)
  <2>. SUFFICES ASSUME NEW t \in Nat, NEW k \in 1..Len(MM[t])
                PROVE  MM[t][k] \in Nat /\ MM[t][k] <= t /\ \A m \in 1..k : MM[t][m] <= MM[t][k]
    BY DEF Sorted
  <2>1. CASE t # T
    BY <1>5, <2>1 DEF Cluster, Sorted
  <2>2. CASE t = T
    <3>. DEFINE u == last(log)
    <3>1. u \in Nat /\ u <= sv[i].Term /\ sv[i].Term < T /\ Agree(log, LL[u], n)
      BY <1>2, <1>12 DEF LogOf, Electable, log, n
    <3>2. \A m \in 1..Len(LL[u]) :
            LL[u][m] \in Nat /\ LL[u][m] <= u /\ \A l \in 1..m : LL[u][l] <= LL[u][m]
      BY <3>1 DEF Cluster, Sorted
    <3>3. n <= Len(LL[u]) /\ \A m \in 1..n : new[m] = LL[u][m]
      BY <1>3, <3>1 DEF Agree
    <3>4. Len(LL[u]) \in Nat /\ u < T
      BY <1>1, <1>5, <3>1
    <3>. HIDE DEF u
    <3>5. \A m \in 1..n : m \in 1..Len(LL[u])
      BY <1>3, <3>3, <3>4
    <3>6. \A m \in 1..n : new[m] \in Nat /\ new[m] < T
      BY <3>1, <3>2, <3>3, <3>4, <3>5
    <3>7. k \in 1..(n + 1) /\ MM[t] = new
      BY <1>3, <1>5, <2>2
    <3>8. CASE k = n + 1
      <4>1. \A m \in 1..k : m \in 1..n \/ m = k
        BY <1>3, <3>8
      <4>. QED
        <5>1. MM[t][k] = T
          BY <1>3, <3>7, <3>8
        <5>2. \A m \in 1..k : MM[t][m] <= T
          BY <3>6, <3>7, <4>1, <5>1
        <5>. QED
          BY <2>2, <5>1, <5>2
    <3>9. CASE k # n + 1
      <4>1. k \in 1..n /\ \A m \in 1..k : m \in 1..n
        BY <1>3, <3>7, <3>9
      <4>. QED
        <5>1. \A m \in 1..k : MM[t][m] = LL[u][m] /\ MM[t][k] = LL[u][k]
          BY <3>3, <3>7, <4>1, Zenon
        <5>2. \A m \in 1..k : LL[u][m] <= LL[u][k]
          BY <3>2, <3>5, <4>1, Zenon
        <5>3. MM[t][k] \in Nat /\ MM[t][k] < T
          BY <3>6, <3>7, <4>1, Zenon
        <5>4. MM[t][k] <= t
          BY <2>2, <5>3
        <5>. QED
          BY <5>1, <5>2, <5>3, <5>4
    <3>. QED
      BY <3>8, <3>9
  <2>. QED
    BY <2>1, <2>2
<1>16. OneLeader(sv2)
  <2>. SUFFICES ASSUME NEW x \in Server, NEW y \in Server, Leading(sv2[x]), Leading(sv2[y]),
                       sv2[x].Term = sv2[y].Term, x # y
                PROVE  FALSE
    BY DEF OneLeader
  <2>1. CASE x = i \/ y = i
    BY <1>12, <1>13, <2>1 DEF Promoted
  <2>2. CASE x # i /\ y # i
    BY <1>12, <2>2 DEF Cluster, OneLeader
  <2>. QED
    BY <2>1, <2>2
<1>17. ASSUME NEW x \in Server
       PROVE  /\ LogOf(MM, sv2[x]) /\ LeaderOf(MM, BK, sv2[x]) /\ Holds(BK, x, sv2[x])
              /\ Backed(MM, BK, sv2[x].Term, sv2[x].committed) /\ sv2[x].committed <= hi
  <2>1. Backed(MM, BK, sv2[x].Term, sv2[x].committed) /\ sv2[x].committed <= hi
    <3>1. sv[x].Term <= sv2[x].Term /\ sv2[x].committed <= sv[x].committed
      BY <1>1, <1>12
    <3>. QED
      BY <1>1, <1>2, <1>5, <1>8, <1>10, <1>11, <1>12, <3>1, BackedLater
  <2>2. CASE x = i
    <3>1. sv2[i].log = new /\ sv2[i].Term = T
      BY DEF Promoted, new, log
    <3>2. LogOf(MM, sv2[i])
      <4>1. Agree(new, MM[T], Len(new)) /\ T <= T
        BY <1>3, <1>5 DEF Agree
      <4>. QED
        BY <1>3, <3>1, <4>1, Zenon DEF LogOf
    <3>3. LeaderOf(MM, BK, sv2[i])
      <4>1. \A j \in Server : sv2[i].Match[j] <= BK[j][T]
        <5>1. \A j \in Server : sv2[i].Match[j] = IF j = i THEN n ELSE 0
          BY DEF Promoted, n, log
        <5>. QED
          BY <1>3, <1>8, <1>9, <5>1
      <4>. QED
        BY <1>3, <1>5, <3>1, <4>1 DEF LeaderOf
    <3>4. Holds(BK, i, sv2[i])
      <4>. SUFFICES ASSUME NEW t \in Nat, BK[i][t] > 0
                    PROVE  T > t \/ (T = t /\ n + 1 >= BK[i][t])
        BY <1>3, <3>1 DEF Holds
      <4>1. CASE t = T
        BY <1>3, <1>8, <4>1
      <4>2. CASE t # T
        <5>1. AK[i][t] > 0
          BY <1>8, <4>2
        <5>2. last(sv[i].log) >= t /\ last(sv[i].log) \in Nat /\ last(sv[i].log) <= sv[i].Term
          BY <1>2, <5>1 DEF Holds, LogOf
        <5>3. sv[i].Term < T
          BY DEF Electable
        <5>. QED
          BY <1>1, <5>2, <5>3
      <4>. QED
        BY <4>1, <4>2
    <3>. QED
      BY <2>1, <2>2, <3>2, <3>3, <3>4
  <2>3. CASE x # i
    <3>1. sv2[x].log = sv[x].log /\ sv2[x].Term >= sv[x].Term
      BY <1>12, <2>3
    <3>2. LogOf(MM, sv2[x])
      BY <1>2, <1>5, <1>10, <3>1, LogOfGrown
    <3>3. LeaderOf(MM, BK, sv2[x])
      <4>. SUFFICES ASSUME Leading(sv2[x]) PROVE LeaderOf(MM, BK, sv2[x])
        BY DEF LeaderOf
      <4>1. sv2[x] = sv[x]
        BY <1>12, <2>3
      <4>2. sv[x].Term # T
        BY <1>13, <4>1
      <4>3. MM[sv[x].Term] = LL[sv[x].Term] /\ \A j \in Server : BK[j][sv[x].Term] = AK[j][sv[x].Term]
        BY <1>1, <1>5, <1>8, <4>2, Zenon
      <4>. QED
        BY <1>2, <4>1, <4>3 DEF LeaderOf
    <3>4. Holds(BK, x, sv2[x])
      BY <1>2, <1>8, <2>3, <3>1 DEF Holds
    <3>. QED
      BY <2>1, <3>2, <3>3, <3>4
  <2>. QED
    BY <2>2, <2>3
<1>18. \A j \in Server : \A t \in Nat : BK[j][t] <= Len(MM[t])
  <2>1. \A j \in Server : \A t \in Nat : t # T => BK[j][t] <= Len(MM[t])
    BY <1>5, <1>6, <1>8
  <2>2. \A j \in Server : BK[j][T] <= Len(MM[T])
    BY <1>3, <1>5, <1>8, <1>9
  <2>. QED
    BY <2>1, <2>2
<1>19. Known(sv2, hi, MM, BK)
  <2>1. PICK t \in Nat, k \in Nat :
          /\ Certified(LL, AK, t, k) /\ hi <= k
          /\ \A x \in Server : Leading(sv[x]) /\ sv[x].Term = t => hi <= sv[x].committed
    BY DEF Cluster, Known
  <2>2. Certified(MM, BK, t, k)
    BY <1>5, <1>8, <1>10, <1>11, <2>1, StaysCertified
  <2>3. t # T
    BY <1>7, <2>1 DEF Certified
  <2>4. \A x \in Server : Leading(sv2[x]) /\ sv2[x].Term = t => sv2[x] = sv[x]
    BY <1>12, <2>3 DEF Promoted
  <2>. QED
    BY <2>1, <2>2, <2>4 DEF Known
<1>20. Complete(sv2, MM, BK)
  <2>. SUFFICES ASSUME NEW t \in Nat, NEW u \in Nat, t < u, MM[u] # <<>>,
                       NEW k \in 1..Len(MM[t]), MM[t][k] = t,
                       IsJointQuorum(Voters, Open(sv2, BK, t, k))
                PROVE  Agree(MM[u], MM[t], k)
    BY DEF Complete
  <2>1. CASE t = T
    <3>1. u # T /\ LL[u] # <<>>
      <4>1. u # T
        BY <2>1
      <4>2. MM[u] = LL[u]
        BY <1>5, <4>1, Zenon
      <4>. QED
        BY <4>1, <4>2
    <3>2. ~IsJointQuorum(Voters, {j \in Server : sv[j].Term <= T})
      BY <2>1, <3>1, LeftBehind DEF Cluster
    <3>3. \A j \in Q \cap Server : sv[j].Term <= T
      BY <1>1, <1>12
    <3>4. IsJointQuorum(Voters, Q)
      BY DEF Electable
    <3>. QED
      BY <3>2, <3>3, <3>4, ServersGrow
  <2>2. CASE t # T
    <3>1. MM[t] = LL[t] /\ k \in Nat
      BY <1>5, <2>2
    <3>2. \A j \in Open(sv2, BK, t, k) \cap Server : j \in Open(sv, AK, t, k)
      BY <1>1, <1>8, <1>12, <2>2 DEF Open
    <3>3. CASE u # T
      <4>1. IsJointQuorum(Voters, Open(sv, AK, t, k))
        BY <3>2, ServersGrow
      <4>. QED
        BY <1>5, <3>1, <3>3, <4>1 DEF Cluster, Complete
    <3>4. CASE u = T
      <4>1. \A j \in Q : j \in Open(sv2, BK, t, k) => AK[j][t] >= k
        BY <1>8, <1>12, <2>2, <3>4 DEF Open, Electable
      <4>2. Agree(log, LL[t], k)
        BY <3>1, <3>2, <3>4, <4>1, ElectComplete DEF log
      <4>3. k <= n /\ k <= Len(LL[t]) /\ \A m \in 1..k : log[m] = LL[t][m]
        BY <4>2 DEF Agree, n
      <4>4. k <= Len(new) /\ \A m \in 1..k : new[m] = LL[t][m]
        BY <1>3, <3>1, <4>3
      <4>. QED
        BY <1>5, <3>1, <3>4, <4>3, <4>4, Zenon DEF Agree
    <3>. QED
      BY <3>3, <3>4
  <2>. QED
    BY <2>1, <2>2
<1>21. ~committedEntryInCurrentTerm(sv2[i])
  <2>. DEFINE c == sv[i].committed
  <2>. SUFFICES ASSUME c > 0, new[c] = T PROVE FALSE
    BY DEF committedEntryInCurrentTerm, Promoted, new, log
  <2>1. PICK t \in 0..sv[i].Term, k \in Nat : Certified(LL, AK, t, k) /\ c <= k
    BY <1>2 DEF Backed
  <2>. DEFINE R == {j \in Server : AK[j][t] >= k}
  <2>2. /\ t \in Nat /\ t < T /\ k \in 1..Len(LL[t]) /\ LL[t][k] = t /\ IsJointQuorum(Voters, R)
    BY <1>1, <2>1 DEF Certified, Electable
  <2>3. (\A j \in R \cap Server : j \in Open(sv, AK, t, k)) /\ (\A j \in Q : j \in R => AK[j][t] >= k)
    BY DEF Open
  <2>. HIDE DEF R
  <2>4. Agree(log, LL[t], k)
    BY <2>2, <2>3, ElectComplete DEF log
  <2>5. c \in 1..n /\ c \in 1..Len(LL[t]) /\ log[c] = LL[t][c]
    BY <1>1, <1>3, <1>5, <2>1, <2>2, <2>4 DEF Agree, n
  <2>6. LL[t][c] \in Nat /\ LL[t][c] <= t
    BY <2>2, <2>5 DEF Cluster, Sorted
  <2>7. new[c] = LL[t][c]
    BY <1>3, <2>5
  <2>. QED
    BY <2>2, <2>6, <2>7
<1>22. Cluster(sv2, hi, MM, BK)
  BY <1>14, <1>15, <1>16, <1>17, <1>18, <1>19, <1>20 DEF Cluster
<1>. QED
  BY <1>4, <1>5, <1>8, <1>10, <1>21, <1>22

-----------------------------------------------------------------------------
(***************************************************************************)
(* Server j takes the log of leader i, which may commit by it. Before, j   *)
(* was among those who may take it; so no quorum is opened.                *)
(***************************************************************************)
Copied(sv, sv2, hi, hi2, i, j) ==
    /\ Leading(sv2[i]) /\ sv2[i].Term = sv[i].Term /\ sv2[i].log = sv[i].log
    /\ sv2[i].Match = [sv[i].Match EXCEPT ![j] = Len(sv[i].log)]
    /\ j # i => /\ Leading(sv2[j]) => Leading(sv[j]) /\ sv[j].Term = sv[i].Term
                /\ sv2[j].Term = sv[i].Term /\ sv2[j].log = sv[i].log
                /\ \/ sv2[j].committed <= sv[j].committed
                   \/ sv2[j].committed <= sv[i].committed
    /\ \A x \in Server \ {i, j} : sv2[x] = sv[x]
    /\ \/ sv2[i].committed = sv[i].committed
       \/ LET c == JointCommittedIndex(Voters, sv2[i].Match)
          IN  /\ c > sv[i].committed /\ sv[i].log[c] = sv[i].Term
              /\ sv2[i].committed =
                    larger(sv[i].committed, smaller(c, Len(sv[i].log)))
    /\ hi2 = larger(hi, sv2[i].committed)

LEMMA ReplicateCluster ==
    ASSUME NEW sv \in [Server -> State], NEW sv2 \in [Server -> State],
           NEW hi \in Nat, NEW hi2 \in Nat,
           NEW LL \in LeaderLogs, NEW AK \in Taken, Cluster(sv, hi, LL, AK),
           NEW i \in Server, NEW j \in Server, Leading(sv[i]), sv[j].Term <= sv[i].Term,
           Copied(sv, sv2, hi, hi2, i, j)
    PROVE  \E BK \in Taken : Cluster(sv2, hi2, LL, BK)
<1>. DEFINE T  == sv[i].Term
            n  == Len(sv[i].log)
            BK == [AK EXCEPT ![j] = [AK[j] EXCEPT ![T] = n]]
<1>1. \A x \in Server : /\ sv[x].Term \in Nat /\ sv2[x].Term \in Nat
                        /\ sv[x].committed \in Nat /\ sv2[x].committed \in Nat
  BY DEF State
<1>2. \A x \in Server : /\ LogOf(LL, sv[x]) /\ LeaderOf(LL, AK, sv[x]) /\ Holds(AK, x, sv[x])
                        /\ Backed(LL, AK, sv[x].Term, sv[x].committed) /\ sv[x].committed <= hi
  BY DEF Cluster
<1>3. sv[i].log = LL[T] /\ last(LL[T]) = T /\ LL[T] # <<>> /\ T \in Nat
  BY <1>1, <1>2 DEF LeaderOf, LogOf
<1>4. n = Len(LL[T]) /\ n \in Nat
  BY <1>3, LenNat
<1>5. \A x \in Server : \A t \in Nat : AK[x][t] \in Nat /\ AK[x][t] <= Len(LL[t])
  BY DEF Taken, Cluster
<1>6. /\ BK \in Taken /\ BK[j][T] = n
      /\ \A x \in Server : \A t \in Nat : x # j \/ t # T => BK[x][t] = AK[x][t]
  <2>1. AK[j] \in [Nat -> Nat]
    BY DEF Taken
  <2>. HIDE DEF n, T
  <2>. QED
    BY <1>3, <1>4, <2>1 DEF Taken
<1>. HIDE DEF BK, n
<1>7. Grown(LL, LL) /\ Later(AK, BK)
  <2>1. Grown(LL, LL)
    BY LenNat DEF Grown, Agree
  <2>2. AK[j][T] <= BK[j][T]
    BY <1>3, <1>4, <1>5, <1>6
  <2>3. \A x \in Server : \A t \in Nat : AK[x][t] <= BK[x][t]
    BY <1>5, <1>6, <2>2
  <2>. QED
    BY <2>1, <2>3 DEF Later
<1>8. /\ \A x \in Server : sv2[x].Term >= sv[x].Term
      /\ \A x \in Server : Leading(sv2[x]) => Leading(sv[x]) /\ sv2[x].Term = sv[x].Term
      /\ \A x \in Server \ {j} : sv2[x].log = sv[x].log
      /\ sv2[j].log = LL[T] /\ sv2[j].Term = T
      /\ \A x \in Server \ {i, j} : sv2[x] = sv[x]
  <2>1. /\ sv2[i].Term = T /\ sv2[i].log = LL[T] /\ sv[i].log = LL[T]
        /\ \A x \in Server \ {i, j} : sv2[x] = sv[x]
    BY <1>3 DEF Copied
  <2>2. j # i => /\ sv2[j].Term = T /\ sv2[j].log = LL[T]
                 /\ Leading(sv2[j]) => Leading(sv[j]) /\ sv[j].Term = T
    BY <1>3 DEF Copied
  <2>3. \A x \in Server : sv2[x].Term >= sv[x].Term
    <3>1. sv[j].Term <= T /\ sv[j].Term \in Nat /\ T \in Nat /\ sv[i].Term = T
      BY <1>1
    <3>2. \A x \in Server : x \notin {i, j} => sv2[x] = sv[x]
      BY <2>1
    <3>. HIDE DEF T
    <3>3. sv2[i].Term >= sv[i].Term /\ sv2[j].Term >= sv[j].Term
      BY <2>1, <2>2, <3>1
    <3>. QED
      BY <1>1, <3>2, <3>3
  <2>4. \A x \in Server : Leading(sv2[x]) => Leading(sv[x]) /\ sv2[x].Term = sv[x].Term
    BY <2>1, <2>2
  <2>5. \A x \in Server \ {j} : sv2[x].log = sv[x].log
    BY <2>1
  <2>. QED
    BY <2>1, <2>2, <2>3, <2>4, <2>5
<1>9. OneLeader(sv2)
  BY <1>8 DEF OneLeader, Cluster
<1>10. \A x \in Server : Leading(sv2[x]) /\ sv2[x].Term = T => x = i
  BY <1>8 DEF OneLeader, Cluster
<1>11. Elected(sv2, LL)
  BY <1>8, TermsOnly DEF Cluster
<1>12. \A x \in Server : sv2[i].Match[x] \in Nat /\ sv2[i].Match[x] <= BK[x][T]
  <2>1. sv[i].Match \in [Server -> Nat] /\ sv2[i].Match \in [Server -> Nat]
    BY DEF State
  <2>2. sv2[i].Match = [sv[i].Match EXCEPT ![j] = n]
    BY DEF Copied, n
  <2>3. \A x \in Server : sv[i].Match[x] <= AK[x][T]
    BY <1>2 DEF LeaderOf
  <2>4. sv2[i].Match[j] = n /\ \A x \in Server \ {j} : sv2[i].Match[x] = sv[i].Match[x]
    BY <2>1, <2>2
  <2>5. BK[j][T] = n /\ n \in Nat /\ n <= n
    BY <1>4, <1>6
  <2>6. \A x \in Server \ {j} : BK[x][T] = AK[x][T]
    BY <1>3, <1>6, Zenon
  <2>. HIDE DEF BK, n, T
  <2>7. \A x \in Server \ {j} : sv2[i].Match[x] <= BK[x][T]
    BY <2>3, <2>4, <2>6
  <2>. QED
    BY <2>1, <2>4, <2>5, <2>7
<1>13. \A x \in Server : \A t \in Nat : BK[x][t] \in Nat /\ BK[x][t] <= Len(LL[t])
  <2>1. BK[j][T] \in Nat /\ BK[j][T] <= Len(LL[T])
    BY <1>4, <1>6
  <2>2. \A x \in Server : \A t \in Nat : x # j \/ t # T => BK[x][t] \in Nat /\ BK[x][t] <= Len(LL[t])
    BY <1>5, <1>6, Zenon
  <2>. QED
    BY <2>1, <2>2, Zenon
<1>14. \A x \in Server : LogOf(LL, sv2[x])
  <2>1. \A x \in Server \ {j} : LogOf(LL, sv2[x])
    BY <1>2, <1>7, <1>8, LogOfGrown
  <2>2. LogOf(LL, sv2[j])
    <3>1. Agree(LL[T], LL[T], Len(LL[T])) /\ T <= T
      BY <1>3, <1>4 DEF Agree
    <3>. QED
      BY <1>3, <1>8, <3>1, Zenon DEF LogOf
  <2>. QED
    BY <2>1, <2>2
<1>15. \A x \in Server : LeaderOf(LL, BK, sv2[x])
  <2>1. LeaderOf(LL, BK, sv2[i])
    BY <1>3, <1>12 DEF LeaderOf, Copied
  <2>2. ASSUME NEW x \in Server, x # i, Leading(sv2[x]) PROVE LeaderOf(LL, BK, sv2[x])
    <3>1. sv2[x].Term # T
      BY <1>10, <2>2
    <3>2. x # j /\ sv2[x] = sv[x]
      BY <1>8, <2>2, <3>1
    <3>3. \A y \in Server : BK[y][sv[x].Term] = AK[y][sv[x].Term]
      <4>1. sv[x].Term \in Nat /\ sv[x].Term # T
        BY <1>1, <3>1, <3>2
      <4>. HIDE DEF BK, T
      <4>. QED
        BY <1>6, <4>1, Zenon
    <3>. QED
      BY <1>2, <3>2, <3>3 DEF LeaderOf
  <2>. QED
    BY <2>1, <2>2 DEF LeaderOf
<1>16. \A x \in Server : Holds(BK, x, sv2[x])
  <2>1. \A x \in Server \ {j} : Holds(BK, x, sv2[x])
    BY <1>2, <1>6, <1>8 DEF Holds
  <2>2. Holds(BK, j, sv2[j])
    <3>. SUFFICES ASSUME NEW t \in Nat, BK[j][t] > 0
                  PROVE  T > t \/ (T = t /\ Len(LL[T]) >= BK[j][t])
      BY <1>3, <1>8 DEF Holds
    <3>1. CASE t = T
      BY <1>4, <1>6, <3>1
    <3>2. CASE t # T
      <4>1. AK[j][t] > 0
        BY <1>6, <3>2
      <4>2. last(sv[j].log) >= t /\ last(sv[j].log) \in Nat /\ last(sv[j].log) <= sv[j].Term
        BY <1>2, <4>1 DEF Holds, LogOf
      <4>. QED
        BY <1>1, <3>2, <4>2
    <3>. QED
      BY <3>1, <3>2
  <2>. QED
    BY <2>1, <2>2
<1>17. \/ sv2[i].committed = sv[i].committed /\ hi2 = hi
       \/ /\ sv2[i].committed > sv[i].committed
          /\ Certified(LL, BK, T, sv2[i].committed)
          /\ hi2 = larger(hi, sv2[i].committed)
  <2>1. CASE sv2[i].committed = sv[i].committed
    BY <1>1, <1>2, <2>1 DEF Copied, larger
  <2>2. CASE sv2[i].committed # sv[i].committed
    <3>. DEFINE c == JointCommittedIndex(Voters, sv2[i].Match)
    <3>1. c > sv[i].committed /\ sv[i].log[c] = T /\ hi2 = larger(hi, sv2[i].committed)
          /\ sv2[i].committed = larger(sv[i].committed, smaller(c, n))
      BY <2>2 DEF Copied, n
    <3>2. sv2[i].Match \in [Server -> Nat]
      BY DEF State
    <3>3. /\ c \in Nat /\ \E x \in Server : sv2[i].Match[x] >= c
          /\ IsJointQuorum(Voters, {x \in Server : sv2[i].Match[x] >= c})
      BY <3>2, QuorumAcked
    <3>. HIDE DEF c
    <3>4. c <= n
      <4>1. PICK x \in Server : sv2[i].Match[x] >= c
        BY <3>3
      <4>2. sv2[i].Match[x] \in Nat /\ sv2[i].Match[x] <= BK[x][T] /\ BK[x][T] \in Nat
            /\ BK[x][T] <= n
        BY <1>3, <1>4, <1>12, <1>13
      <4>. QED
        BY <1>4, <3>3, <4>1, <4>2
    <3>5. sv2[i].committed = c /\ c \in 1..n
      BY <1>1, <1>4, <3>1, <3>3, <3>4 DEF larger, smaller
    <3>6. \A x \in Server : sv2[i].Match[x] >= c => BK[x][T] >= c
      BY <1>3, <1>12, <1>13, <3>3
    <3>7. IsJointQuorum(Voters, {x \in Server : BK[x][T] >= c})
      BY <3>3, <3>6, ServersGrow
    <3>. QED
      BY <1>3, <1>4, <3>1, <3>5, <3>7 DEF Certified
  <2>. QED
    BY <2>1, <2>2
<1>18. hi <= hi2 /\ sv[i].committed <= sv2[i].committed /\ sv2[i].committed <= hi2
  BY <1>1, <1>2, <1>17 DEF larger
<1>19. \A x \in Server : Backed(LL, BK, sv2[x].Term, sv2[x].committed) /\ sv2[x].committed <= hi2
  <2>1. ASSUME NEW x \in Server, NEW y \in Server, sv[y].Term <= sv2[x].Term,
               sv2[x].committed <= sv[y].committed
        PROVE  Backed(LL, BK, sv2[x].Term, sv2[x].committed) /\ sv2[x].committed <= hi2
    <3>1. Backed(LL, BK, sv2[x].Term, sv2[x].committed)
      BY <1>1, <1>2, <1>6, <1>7, <2>1, BackedLater
    <3>. QED
      BY <1>1, <1>2, <1>18, <2>1, <3>1
  <2>2. \A x \in Server : x # i =>
          \E y \in Server : sv[y].Term <= sv2[x].Term /\ sv2[x].committed <= sv[y].committed
    BY <1>1, <1>8 DEF Copied
  <2>3. sv2[i].Term = T
    BY DEF Copied
  <2>4. Backed(LL, BK, sv2[i].Term, sv2[i].committed)
    <3>1. CASE sv2[i].committed = sv[i].committed
      BY <1>1, <1>3, <2>1, <2>3, <3>1
    <3>2. CASE Certified(LL, BK, T, sv2[i].committed)
      BY <1>1, <1>3, <2>3, <3>2 DEF Backed
    <3>. QED
      BY <1>17, <3>1, <3>2
  <2>. QED
    BY <1>18, <2>1, <2>2, <2>4
<1>20. Known(sv2, hi2, LL, BK)
  <2>1. CASE hi2 = hi
    <3>1. PICK t \in Nat, k \in Nat :
            /\ Certified(LL, AK, t, k) /\ hi <= k
            /\ \A x \in Server : Leading(sv[x]) /\ sv[x].Term = t => hi <= sv[x].committed
      BY DEF Cluster, Known
    <3>2. Certified(LL, BK, t, k)
      BY <1>6, <1>7, <3>1, StaysCertified
    <3>3. \A x \in Server : Leading(sv2[x]) /\ sv2[x].Term = t => hi <= sv2[x].committed
      <4>1. ASSUME NEW x \in Server, Leading(sv2[x]), sv2[x].Term = t PROVE hi <= sv2[x].committed
        <5>1. hi <= sv[x].committed
          BY <1>8, <3>1, <4>1
        <5>2. x = i \/ sv2[x] = sv[x]
          BY <1>8, <1>10, <4>1
        <5>. QED
          BY <1>1, <1>18, <5>1, <5>2
      <4>. QED
        BY <4>1
    <3>. QED
      BY <2>1, <3>1, <3>2, <3>3 DEF Known
  <2>2. CASE hi2 # hi
    <3>1. Certified(LL, BK, T, sv2[i].committed) /\ hi2 = sv2[i].committed
      BY <1>17, <2>2 DEF larger
    <3>2. \A x \in Server : Leading(sv2[x]) /\ sv2[x].Term = T => hi2 <= sv2[x].committed
      BY <1>1, <1>10, <3>1
    <3>3. hi2 <= sv2[i].committed
      BY <3>1
    <3>. QED
      BY <1>1, <1>3, <3>1, <3>2, <3>3 DEF Known
  <2>. QED
    BY <2>1, <2>2
<1>21. Complete(sv2, LL, BK)
  <2>. SUFFICES ASSUME NEW t \in Nat, NEW u \in Nat, t < u, LL[u] # <<>>,
                       NEW k \in 1..Len(LL[t]), LL[t][k] = t,
                       IsJointQuorum(Voters, Open(sv2, BK, t, k))
                PROVE  Agree(LL[u], LL[t], k)
    BY DEF Complete
  <2>1. \A x \in Server : x \in Open(sv2, BK, t, k) => x \in Open(sv, AK, t, k)
    BY <1>1, <1>6, <1>8 DEF Open
  <2>2. IsJointQuorum(Voters, Open(sv, AK, t, k))
    BY <2>1, ServersGrow
  <2>. QED
    BY <2>2 DEF Cluster, Complete
<1>22. Sorted(LL)
  BY DEF Cluster
<1>23. Cluster(sv2, hi2, LL, BK)
  BY <1>9, <1>11, <1>13, <1>14, <1>15, <1>16, <1>19, <1>20, <1>21, <1>22 DEF Cluster
<1>. QED
  BY <1>6, <1>23

-----------------------------------------------------------------------------
(***************************************************************************)
(* The reads. A leader may answer one that is not fresh only if a quorum   *)
(* can still confirm it, and those who have left the term cannot.          *)
(***************************************************************************)
Total(s) == s.confirmedReads + Len(s.unconfirmedReads)

\* Who has confirmed position p to the leader of `term`, or still may.
MayConfirm(sv, nt, acks, term, p) ==
    {j \in Server :
        \/ acks[j] >= p \/ sv[j].Term <= term
        \/ \E m \in nt : /\ m.type = "MsgHeartbeatResp" /\ m.from = j
                         /\ m.Term = term /\ m.ctx >= p}

FreshRead(sv, nt, s, k) ==
    \/ s.unconfirmedReads[k].req.ctx <= s.unconfirmedReads[k].index
    \/ ~IsJointQuorum(Voters, MayConfirm(sv, nt, s.acks, s.Term, s.confirmedReads + k))

Asked(s)         == \A j \in Server : s.acks[j] <= Total(s)
Fresh(sv, nt, s) == \A k \in 1..Len(s.unconfirmedReads) : FreshRead(sv, nt, s, k)
Released(s)      == committedEntryInCurrentTerm(s) => s.pendingReadIndexMessages = <<>>
Serves(sv, nt, s) == Leading(s) => Asked(s) /\ Fresh(sv, nt, s) /\ Released(s)

\* A postponed read was asked before now.
Postponed(hi, s) ==
    \A k \in 1..Len(s.pendingReadIndexMessages) : s.pendingReadIndexMessages[k].ctx <= hi

\* A message on its way: a read was asked before now, an answer is fresh, and
\* the position in a heartbeat was given out by the leader of its term.
InTime(sv, m) == m.type # "MsgReadIndex" => m.Term >= sv[m.to].Term
GivenOut(sv, LL, m) ==
    m.type \in Heartbeats =>
        /\ LL[m.Term] # <<>>
        /\ \A x \in Server : Leading(sv[x]) /\ sv[x].Term = m.Term => m.ctx <= Total(sv[x])
MsgTrue(sv, hi, LL, m) ==
    /\ m.type = "MsgReadIndex" => m.ctx <= hi
    /\ m.type = "MsgReadIndexResp" => m.ctx <= m.index
    /\ GivenOut(sv, LL, m)

Reads(sv, nt, hi, LL) ==
    /\ \A i \in Server : Serves(sv, nt, sv[i]) /\ Postponed(hi, sv[i])
    /\ \A m \in nt : InTime(sv, m) /\ MsgTrue(sv, hi, LL, m)

ReadInv ==
    /\ Typed(srv, net, highest) /\ ReadIsFresh
    /\ \E LL \in LeaderLogs, AK \in Taken :
         Cluster(srv, highest, LL, AK) /\ Reads(srv, net, highest, LL)

-----------------------------------------------------------------------------
(* What a step leaves alone.                                               *)

\* Terms do not decrease, and a heartbeat is answered only by a server that
\* has not left its term.
Moves(sv, nt, sv2, nt2) ==
    /\ \A x \in Server : sv2[x].Term >= sv[x].Term
    /\ \A m \in nt2 : m \in nt \/ (m.type = "MsgHeartbeatResp" => sv[m.from].Term <= m.Term)

LEMMA FewerConfirm ==
    ASSUME NEW sv \in [Server -> State], NEW sv2 \in [Server -> State], NEW nt, NEW nt2,
           Moves(sv, nt, sv2, nt2), NEW acks, NEW acks2, NEW term \in Nat, NEW p,
           \A j \in Server : acks2[j] >= p => j \in MayConfirm(sv, nt, acks, term, p),
           IsJointQuorum(Voters, MayConfirm(sv2, nt2, acks2, term, p))
    PROVE  IsJointQuorum(Voters, MayConfirm(sv, nt, acks, term, p))
<1>1. ASSUME NEW j \in Server, j \in MayConfirm(sv2, nt2, acks2, term, p)
      PROVE  j \in MayConfirm(sv, nt, acks, term, p)
  <2>0. sv[j].Term \in Nat /\ sv2[j].Term \in Nat /\ sv2[j].Term >= sv[j].Term
    BY DEF State, Moves
  <2>1. CASE acks2[j] >= p
    BY <2>1
  <2>2. CASE sv2[j].Term <= term
    <3>1. sv[j].Term <= term
      BY <2>0, <2>2
    <3>. QED
      BY <3>1 DEF MayConfirm
  <2>3. CASE \E m \in nt2 : /\ m.type = "MsgHeartbeatResp" /\ m.from = j
                            /\ m.Term = term /\ m.ctx >= p
    BY <2>3 DEF MayConfirm, Moves
  <2>. QED
    BY <1>1, <2>1, <2>2, <2>3 DEF MayConfirm
<1>. QED
  BY <1>1, ServersGrow

\* A server that a step does not touch.
LEMMA ServesOn ==
    ASSUME NEW sv \in [Server -> State], NEW sv2 \in [Server -> State], NEW nt, NEW nt2,
           Moves(sv, nt, sv2, nt2), NEW s \in State
    PROVE  /\ Fresh(sv, nt, s) => Fresh(sv2, nt2, s)
           /\ Serves(sv, nt, s) => Serves(sv2, nt2, s)
<1>1. ASSUME NEW k, FreshRead(sv, nt, s, k) PROVE FreshRead(sv2, nt2, s, k)
  <2>. DEFINE p == s.confirmedReads + k
  <2>. SUFFICES ASSUME IsJointQuorum(Voters, MayConfirm(sv2, nt2, s.acks, s.Term, p))
                PROVE  IsJointQuorum(Voters, MayConfirm(sv, nt, s.acks, s.Term, p))
    BY <1>1 DEF FreshRead
  <2>1. \A j \in Server : s.acks[j] >= p => j \in MayConfirm(sv, nt, s.acks, s.Term, p)
    BY DEF MayConfirm
  <2>2. s.Term \in Nat
    BY DEF State
  <2>. HIDE DEF p
  <2>. QED
    BY <2>1, <2>2, FewerConfirm
<1>. QED
  BY <1>1 DEF Serves, Fresh

\* Leaders: those who go on have accepted no fewer reads, new ones are the
\* first of their term.
Leads(sv, sv2, LL) ==
    \A x \in Server : Leading(sv2[x]) =>
        \/ Leading(sv[x]) /\ sv2[x].Term = sv[x].Term /\ Total(sv2[x]) >= Total(sv[x])
        \/ LL[sv2[x].Term] = <<>>

LEMMA MsgsOn ==
    ASSUME NEW sv \in [Server -> State], NEW sv2 \in [Server -> State],
           NEW hi \in Nat, NEW hi2 \in Nat, hi <= hi2,
           NEW LL \in LeaderLogs, NEW MM \in LeaderLogs,
           \A t \in Nat : LL[t] # <<>> => MM[t] # <<>>,
           Leads(sv, sv2, LL), NEW m \in Message, MsgTrue(sv, hi, LL, m)
    PROVE  MsgTrue(sv2, hi2, MM, m)
<1>1. m.ctx \in Nat /\ (m.type # "MsgReadIndex" => m.Term \in Nat)
  BY DEF Message, Heartbeats
<1>2. m.type = "MsgReadIndex" => m.ctx <= hi2
  BY <1>1 DEF MsgTrue
<1>3. ASSUME m.type \in Heartbeats
      PROVE  /\ MM[m.Term] # <<>>
             /\ \A x \in Server : Leading(sv2[x]) /\ sv2[x].Term = m.Term => m.ctx <= Total(sv2[x])
  <2>1. /\ m.Term \in Nat /\ LL[m.Term] # <<>>
        /\ \A x \in Server : Leading(sv[x]) /\ sv[x].Term = m.Term => m.ctx <= Total(sv[x])
    BY <1>1, <1>3 DEF MsgTrue, GivenOut, Heartbeats
  <2>2. ASSUME NEW x \in Server, Leading(sv2[x]), sv2[x].Term = m.Term
        PROVE  m.ctx <= Total(sv2[x])
    <3>1. Leading(sv[x]) /\ sv2[x].Term = sv[x].Term /\ Total(sv2[x]) >= Total(sv[x])
      BY <2>1, <2>2 DEF Leads
    <3>2. m.ctx <= Total(sv[x])
      BY <2>1, <2>2, <3>1
    <3>3. Total(sv[x]) \in Nat /\ Total(sv2[x]) \in Nat
      <4>1. \A s \in State : s.confirmedReads \in Nat /\ s.unconfirmedReads \in Seq(Read)
        BY DEF State
      <4>2. \A s \in State : Len(s.unconfirmedReads) \in Nat
        BY <4>1
      <4>. QED
        BY <4>1, <4>2 DEF Total
    <3>. QED
      BY <1>1, <3>1, <3>2, <3>3
  <2>. QED
    BY <2>1, <2>2
<1>. QED
  BY <1>2, <1>3 DEF MsgTrue, GivenOut

-----------------------------------------------------------------------------
(* What the operators do to a server.                                      *)

LEMMA StateTypes ==
    ASSUME NEW s \in State
    PROVE  /\ s.Term \in Nat /\ s.committed \in Nat /\ s.confirmedReads \in Nat
           /\ s.log \in Seq(Terms) /\ Len(s.log) \in Nat
           /\ s.Match \in [Server -> Nat] /\ s.acks \in [Server -> Nat]
           /\ s.unconfirmedReads \in Seq(Read) /\ Len(s.unconfirmedReads) \in Nat
           /\ s.pendingReadIndexMessages \in Seq(Req)
           /\ Len(s.pendingReadIndexMessages) \in Nat /\ Total(s) \in Nat
<1>1. /\ s.Term \in Nat /\ s.committed \in Nat /\ s.confirmedReads \in Nat
      /\ s.log \in Seq(Terms) /\ s.Match \in [Server -> Nat] /\ s.acks \in [Server -> Nat]
      /\ s.unconfirmedReads \in Seq(Read) /\ s.pendingReadIndexMessages \in Seq(Req)
  BY DEF State
<1>2. /\ Len(s.log) \in Nat /\ Len(s.unconfirmedReads) \in Nat
      /\ Len(s.pendingReadIndexMessages) \in Nat
  BY <1>1
<1>3. Total(s) \in Nat
  BY <1>1, <1>2 DEF Total
<1>. QED
  BY <1>1, <1>2, <1>3

LEMMA FollowerFields ==
    ASSUME NEW s \in State, NEW term \in Nat, NEW lead \in Server \cup {None}
    PROVE  LET t == becomeFollower(s, term, lead)
           IN  /\ t \in State /\ ~Leading(t) /\ t.Term = term /\ t.log = s.log
               /\ t.committed = s.committed
               /\ t.pendingReadIndexMessages = s.pendingReadIndexMessages
<1>1. <<>> \in Seq(Read) /\ 0 \in Nat /\ None \in Server \cup {None}
  OBVIOUS
<1>2. [j \in Server |-> 0] \in [Server -> Nat]
  OBVIOUS
<1>3. reset(s, term) \in State
  BY <1>1, <1>2 DEF State, reset
<1>4. /\ reset(s, term).Term = term /\ reset(s, term).log = s.log
      /\ reset(s, term).committed = s.committed
      /\ reset(s, term).pendingReadIndexMessages = s.pendingReadIndexMessages
  BY DEF State, reset
<1>. HIDE DEF reset
<1>. QED
  BY <1>3, <1>4 DEF State, becomeFollower, Leading

LEMMA LeaderFields ==
    ASSUME NEW s \in State, NEW term \in Nat, NEW i \in Server
    PROVE  LET t == becomeLeader(i, s, term)
           IN  /\ t \in State /\ Leading(t) /\ t.Term = term /\ t.log = Append(s.log, term)
               /\ t.committed = s.committed
               /\ t.Match = [j \in Server |-> IF j = i THEN Len(s.log) ELSE 0]
               /\ t.acks = [j \in Server |-> 0]
               /\ t.unconfirmedReads = <<>> /\ t.confirmedReads = 0
               /\ t.pendingReadIndexMessages = s.pendingReadIndexMessages
<1>. DEFINE e == Append(s.log, term)
            n == Len(s.log)
            z == [j \in Server |-> 0]
            q == [j \in Server |-> IF j = i THEN n ELSE 0]
            r == reset(s, term)
<1>1. e \in Seq(Terms) /\ n \in Nat
  <2>1. s.log \in Seq(Terms) /\ term \in Terms
    BY StateTypes DEF Terms
  <2>. QED
    BY <2>1
<1>2. <<>> \in Seq(Read) /\ 0 \in Nat /\ None \in Server \cup {None} /\ z \in [Server -> Nat]
  OBVIOUS
<1>3. r = [s EXCEPT !.Term = term, !.lead = None, !.Match = z, !.acks = z,
                    !.unconfirmedReads = <<>>, !.confirmedReads = 0]
  BY DEF reset
<1>. HIDE DEF e, n, z, r
<1>4. r \in State
  BY <1>2, <1>3 DEF State
<1>5. /\ r.Term = term /\ r.log = s.log /\ r.committed = s.committed /\ r.Match = z
      /\ r.acks = z /\ r.unconfirmedReads = <<>> /\ r.confirmedReads = 0
      /\ r.pendingReadIndexMessages = s.pendingReadIndexMessages
  BY <1>3 DEF State
<1>6. becomeLeader(i, s, term) =
        [r EXCEPT !.state = "StateLeader", !.lead = i, !.Match = [z EXCEPT ![i] = n], !.log = e]
  BY <1>4, <1>5 DEF becomeLeader, r, n, e, State
<1>7. [z EXCEPT ![i] = n] = q /\ q \in [Server -> Nat]
  BY <1>1 DEF z
<1>. HIDE DEF q
<1>8. becomeLeader(i, s, term) =
        [r EXCEPT !.state = "StateLeader", !.lead = i, !.Match = q, !.log = e]
  BY <1>6, <1>7
<1>9. LET t == becomeLeader(i, s, term)
      IN  /\ t \in State /\ t.state = "StateLeader" /\ t.Term = term /\ t.log = e
          /\ t.committed = s.committed /\ t.Match = q /\ t.acks = z
          /\ t.unconfirmedReads = <<>> /\ t.confirmedReads = 0
          /\ t.pendingReadIndexMessages = s.pendingReadIndexMessages
  <2>. DEFINE t == becomeLeader(i, s, term)
  <2>. HIDE DEF t
  <2>1. t = [r EXCEPT !.state = "StateLeader", !.lead = i, !.Match = q, !.log = e]
    BY <1>8 DEF t
  <2>2. t \in State
    BY <1>1, <1>4, <1>7, <2>1 DEF State
  <2>3. /\ t.state = "StateLeader" /\ t.Term = r.Term /\ t.log = e
        /\ t.committed = r.committed /\ t.Match = q /\ t.acks = r.acks
        /\ t.unconfirmedReads = r.unconfirmedReads /\ t.confirmedReads = r.confirmedReads
        /\ t.pendingReadIndexMessages = r.pendingReadIndexMessages
    BY <1>4, <2>1 DEF State
  <2>. QED
    BY <1>5, <2>2, <2>3, Zenon DEF t
<1>. QED
  BY <1>9 DEF Leading, e, n, z, q

\* Accepting reads: they are the last of the queue, at the next positions.
LEMMA AcceptedFields ==
    ASSUME NEW i \in Server, NEW s \in State, NEW reqs \in Seq(Req), reqs # <<>>
    PROVE  LET a == Accepted(i, s, reqs)
               t == a.srv
           IN  /\ t \in State /\ t.Term = s.Term /\ t.state = s.state /\ t.log = s.log
               /\ t.committed = s.committed /\ t.Match = s.Match
               /\ t.confirmedReads = s.confirmedReads
               /\ t.pendingReadIndexMessages = s.pendingReadIndexMessages
               /\ Len(t.unconfirmedReads) = Len(s.unconfirmedReads) + Len(reqs)
               /\ \A k \in 1..Len(s.unconfirmedReads) :
                    t.unconfirmedReads[k] = s.unconfirmedReads[k]
               /\ \A k \in 1..Len(reqs) :
                    t.unconfirmedReads[Len(s.unconfirmedReads) + k] =
                        [req |-> reqs[k], index |-> s.committed]
               /\ Total(t) = Total(s) + Len(reqs)
               /\ \A j \in Server : t.acks[j] = IF j = i THEN larger(s.acks[i], Total(t)) ELSE s.acks[j]
               /\ a.net \subseteq Message
               /\ \A m \in a.net : /\ m.type = "MsgHeartbeat" /\ m.Term = s.Term
                                   /\ m.ctx <= Total(t)
<1>. DEFINE old == s.unconfirmedReads
            new == [k \in DOMAIN reqs |-> [req |-> reqs[k], index |-> s.committed]]
            q   == old \o new
            u   == [s EXCEPT !.unconfirmedReads = q]
            pos == s.confirmedReads + Len(s.unconfirmedReads)
            a   == Accepted(i, s, reqs)
            t   == a.srv
            nt  == UNION {bcastHeartbeatWithCtx(i, s, pos + k) : k \in DOMAIN reqs}
<1>1. /\ s.committed \in Nat /\ Len(old) \in Nat /\ old \in Seq(Read) /\ s.confirmedReads \in Nat
      /\ s.acks \in [Server -> Nat] /\ pos = Total(s) /\ pos \in Nat /\ s.Term \in Nat
  BY StateTypes DEF Total
<1>2. DOMAIN reqs = 1..Len(reqs) /\ Len(reqs) \in Nat /\ Len(reqs) > 0
  BY EmptySeq
<1>3. new \in Seq(Read) /\ Len(new) = Len(reqs)
  <2>1. \A k \in 1..Len(reqs) : [req |-> reqs[k], index |-> s.committed] \in Read
    BY <1>1 DEF Read
  <2>2. new \in [1..Len(reqs) -> Read]
    BY <1>2, <2>1
  <2>. HIDE DEF new
  <2>. QED
    BY <1>2, <2>2
<1>4. \A k \in 1..Len(reqs) : new[k] = [req |-> reqs[k], index |-> s.committed]
  BY <1>2
<1>. HIDE DEF old, new
<1>5. /\ q \in Seq(Read) /\ Len(q) = Len(old) + Len(reqs)
      /\ \A k \in 1..Len(old) : q[k] = old[k]
      /\ \A k \in 1..Len(reqs) : q[Len(old) + k] = new[k]
  <2>1. /\ q \in Seq(Read) /\ Len(q) = Len(old) + Len(new)
        /\ \A k \in 1..(Len(old) + Len(new)) :
             q[k] = IF k <= Len(old) THEN old[k] ELSE new[k - Len(old)]
    <3>1. old \in Seq(Read) /\ new \in Seq(Read)
      BY <1>1, <1>3
    <3>. QED
      BY <3>1, ConcatProperties, Zenon
  <2>. HIDE DEF q
  <2>2. \A k \in 1..Len(old) : k \in 1..(Len(old) + Len(new)) /\ k <= Len(old)
    BY <1>1, <1>2, <1>3
  <2>3. \A k \in 1..Len(reqs) : /\ Len(old) + k \in 1..(Len(old) + Len(new))
                                 /\ ~(Len(old) + k <= Len(old)) /\ (Len(old) + k) - Len(old) = k
    BY <1>1, <1>2, <1>3
  <2>. QED
    BY <1>3, <2>1, <2>2, <2>3, Zenon
<1>. HIDE DEF q, pos
<1>6. /\ u \in State /\ u.Term = s.Term /\ u.state = s.state /\ u.log = s.log
      /\ u.committed = s.committed /\ u.Match = s.Match /\ u.acks = s.acks
      /\ u.confirmedReads = s.confirmedReads /\ u.unconfirmedReads = q
      /\ u.pendingReadIndexMessages = s.pendingReadIndexMessages
  BY <1>5 DEF State
<1>7. a = [srv |-> recvAck(u, i, heartbeatCtx(u)), net |-> nt]
  BY DEF Accepted, new, q, pos, old
<1>. HIDE DEF u, a, nt
<1>8. heartbeatCtx(u) = pos + Len(reqs) /\ heartbeatCtx(u) \in Nat
  <2>1. q # <<>>
    BY <1>1, <1>2, <1>5
  <2>2. heartbeatCtx(u) = s.confirmedReads + (Len(old) + Len(reqs))
    BY <1>5, <1>6, <2>1 DEF heartbeatCtx
  <2>. QED
    BY <1>1, <1>2, <2>2 DEF pos, old
<1>. DEFINE c  == heartbeatCtx(u)
            ac == [s.acks EXCEPT ![i] = larger(s.acks[i], c)]
<1>. HIDE DEF c
<1>9. ac \in [Server -> Nat] /\ \A j \in Server : ac[j] = IF j = i THEN larger(s.acks[i], c) ELSE s.acks[j]
  <2>1. larger(s.acks[i], c) \in Nat
    BY <1>1, <1>8 DEF larger, c
  <2>. QED
    BY <1>1, <2>1
<1>. HIDE DEF ac
<1>10. t = [u EXCEPT !.acks = ac] /\ a.net = nt
  BY <1>6, <1>7 DEF recvAck, State, ac, c
<1>11. /\ t \in State /\ t.Term = s.Term /\ t.state = s.state /\ t.log = s.log
       /\ t.committed = s.committed /\ t.Match = s.Match /\ t.acks = ac
       /\ t.confirmedReads = s.confirmedReads /\ t.unconfirmedReads = q
       /\ t.pendingReadIndexMessages = s.pendingReadIndexMessages
  BY <1>6, <1>9, <1>10 DEF State
<1>. HIDE DEF t
<1>12. Total(t) = Total(s) + Len(reqs) /\ Total(t) = c
  <2>1. Total(t) = s.confirmedReads + (Len(old) + Len(reqs))
    BY <1>5, <1>11 DEF Total
  <2>. QED
    BY <1>1, <1>2, <1>8, <2>1 DEF pos, old, c
<1>13. nt \subseteq Message /\ \A m \in nt : /\ m.type = "MsgHeartbeat" /\ m.Term = s.Term
                                             /\ m.ctx <= Total(t)
  <2>. SUFFICES ASSUME NEW m \in nt
                PROVE  /\ m \in Message /\ m.type = "MsgHeartbeat" /\ m.Term = s.Term
                       /\ m.ctx <= Total(t)
    OBVIOUS
  <2>1. PICK k \in 1..Len(reqs) : m \in bcastHeartbeatWithCtx(i, s, pos + k)
    BY <1>2 DEF nt
  <2>2. PICK j \in JointIDs(Voters) : m = [type |-> "MsgHeartbeat", from |-> i, to |-> j,
                                           Term |-> s.Term, ctx |-> pos + k]
    BY <2>1 DEF bcastHeartbeatWithCtx
  <2>3. pos + k \in Nat /\ pos + k <= Total(t)
    BY <1>1, <1>2, <1>12
  <2>4. j \in Server
    BY VotersFinite DEF JointIDs
  <2>. QED
    BY <1>1, <2>2, <2>3, <2>4 DEF Message, Heartbeats
<1>. QED
  BY <1>4, <1>5, <1>9, <1>10, <1>11, <1>12, <1>13 DEF old, t, a

-----------------------------------------------------------------------------
(* A leader that accepts reads, and one that releases them.                *)

LEMMA AcceptedServes ==
    ASSUME NEW sv \in [Server -> State], NEW nt, NEW i \in Server, NEW s \in State,
           NEW reqs \in Seq(Req), reqs # <<>>, sv[i].Term = s.Term,
           Asked(s), Fresh(sv, nt, s), s.pendingReadIndexMessages = <<>>,
           \A m \in nt : m.type = "MsgHeartbeatResp" /\ m.Term = s.Term =>
               m.ctx \in Nat /\ m.ctx <= Total(s),
           \/ \A k \in 1..Len(reqs) : reqs[k].ctx <= s.committed
           \/ ~IsJointQuorum(Voters, {j \in Server : sv[j].Term <= s.Term})
    PROVE  Serves(sv, nt, Accepted(i, s, reqs).srv)
<1>. DEFINE t == Accepted(i, s, reqs).srv
            o == Len(s.unconfirmedReads)
<1>1. /\ t \in State /\ t.Term = s.Term /\ t.confirmedReads = s.confirmedReads
      /\ t.pendingReadIndexMessages = <<>>
      /\ Len(t.unconfirmedReads) = o + Len(reqs)
      /\ \A k \in 1..o : t.unconfirmedReads[k] = s.unconfirmedReads[k]
      /\ \A k \in 1..Len(reqs) :
           t.unconfirmedReads[o + k] = [req |-> reqs[k], index |-> s.committed]
      /\ Total(t) = Total(s) + Len(reqs)
      /\ \A j \in Server : t.acks[j] = IF j = i THEN larger(s.acks[i], Total(t)) ELSE s.acks[j]
  BY AcceptedFields
<1>2. /\ s.confirmedReads \in Nat /\ o \in Nat /\ Len(reqs) \in Nat /\ s.Term \in Nat
      /\ Total(s) \in Nat /\ Total(t) \in Nat /\ Total(s) = s.confirmedReads + o
      /\ \A j \in Server : s.acks[j] \in Nat
      /\ \A j \in Server : s.acks[j] <= Total(s)
  <2>1. s.acks \in [Server -> Nat]
    BY StateTypes
  <2>2. Len(reqs) \in Nat
    OBVIOUS
  <2>. QED
    BY <1>1, <2>1, <2>2, StateTypes DEF Total, Asked
<1>. HIDE DEF t, o
<1>3. Asked(t)
  <2>. SUFFICES ASSUME NEW j \in Server PROVE t.acks[j] <= Total(t)
    BY DEF Asked
  <2>1. t.acks[j] = IF j = i THEN larger(s.acks[i], Total(t)) ELSE s.acks[j]
    BY <1>1
  <2>2. /\ Total(s) \in Nat /\ Total(t) \in Nat /\ Total(s) <= Total(t)
        /\ s.acks[j] \in Nat /\ s.acks[j] <= Total(s)
        /\ s.acks[i] \in Nat /\ s.acks[i] <= Total(s)
    BY <1>1, <1>2
  <2>. QED
    BY <2>1, <2>2 DEF larger
<1>4. ASSUME NEW k \in 1..Len(t.unconfirmedReads) PROVE FreshRead(sv, nt, t, k)
  <2>. DEFINE p == s.confirmedReads + k
              M == MayConfirm(sv, nt, t.acks, s.Term, p)
  <2>1. k \in Nat /\ p \in Nat
    BY <1>1, <1>2
  <2>. SUFFICES ASSUME IsJointQuorum(Voters, M)
                PROVE  t.unconfirmedReads[k].req.ctx <= t.unconfirmedReads[k].index
    BY <1>1 DEF FreshRead
  <2>2. CASE k \in 1..o
    <3>1. \A j \in Server : j \in M => j \in MayConfirm(sv, nt, s.acks, s.Term, p)
      <4>1. ASSUME NEW j \in Server, t.acks[j] >= p
            PROVE  s.acks[j] >= p \/ sv[j].Term <= s.Term
        <5>1. CASE j = i
          BY <1>2, <5>1
        <5>2. CASE j # i
          <6>1. t.acks[j] = s.acks[j]
            BY <1>1, <5>2
          <6>. QED
            BY <4>1, <6>1
        <5>. QED
          BY <5>1, <5>2
      <4>. QED
        BY <4>1 DEF MayConfirm
    <3>2. IsJointQuorum(Voters, MayConfirm(sv, nt, s.acks, s.Term, p))
      BY <3>1, ServersGrow
    <3>3. FreshRead(sv, nt, s, k)
      BY <2>2 DEF Fresh, o
    <3>4. s.unconfirmedReads[k].req.ctx <= s.unconfirmedReads[k].index
      BY <3>2, <3>3 DEF FreshRead
    <3>. QED
      BY <1>1, <2>2, <3>4
  <2>3. CASE k \notin 1..o
    <3>1. k - o \in 1..Len(reqs) /\ k = o + (k - o) /\ p > Total(s)
      <4>1. k \in 1..(o + Len(reqs)) /\ k > o
        <5>1. k \in 1..(o + Len(reqs)) /\ o \in Nat /\ Len(reqs) \in Nat
          BY <1>1, <1>2
        <5>. QED
          BY <2>3, <5>1
      <4>2. Total(s) = s.confirmedReads + o /\ s.confirmedReads \in Nat /\ o \in Nat
            /\ Len(reqs) \in Nat
        BY <1>2
      <4>. QED
        BY <4>1, <4>2
    <3>2. \A j \in Server : j \in M => sv[j].Term <= s.Term
      <4>1. ASSUME NEW j \in Server, t.acks[j] >= p PROVE sv[j].Term <= s.Term
        <5>1. s.acks[j] \in Nat /\ ~(s.acks[j] >= p)
          BY <1>2, <2>1, <3>1
        <5>2. t.acks[j] = IF j = i THEN larger(s.acks[i], Total(t)) ELSE s.acks[j]
          BY <1>1
        <5>3. j = i
          BY <4>1, <5>1, <5>2
        <5>. QED
          BY <1>2, <5>3
      <4>2. ASSUME NEW m \in nt, m.type = "MsgHeartbeatResp", m.Term = s.Term
            PROVE  ~(m.ctx >= p)
        <5>1. m.ctx \in Nat /\ m.ctx <= Total(s)
          BY <4>2
        <5>2. Total(s) \in Nat /\ p \in Nat /\ p > Total(s)
          BY <1>2, <2>1, <3>1
        <5>. HIDE DEF p
        <5>. QED
          BY <5>1, <5>2
      <4>. QED
        BY <4>1, <4>2 DEF MayConfirm
    <3>3. IsJointQuorum(Voters, {j \in Server : sv[j].Term <= s.Term})
      BY <3>2, ServersGrow
    <3>4. reqs[k - o].ctx <= s.committed
      BY <3>1, <3>3
    <3>5. t.unconfirmedReads[k] = [req |-> reqs[k - o], index |-> s.committed]
      BY <1>1, <3>1
    <3>. QED
      BY <3>4, <3>5
  <2>. QED
    BY <2>2, <2>3
<1>5. Released(t)
  BY <1>1 DEF Released
<1>. QED
  BY <1>3, <1>4, <1>5 DEF Serves, Fresh, t

\* The positions that a quorum has confirmed were given out.
LEMMA ConfirmableIsAsked ==
    ASSUME NEW s \in State, Asked(s)
    PROVE  /\ newConfirmedReads(s) \in Nat /\ confirmable(s) \in 0..Len(s.unconfirmedReads)
           /\ confirmable(s) > 0 => newConfirmedReads(s) = s.confirmedReads + confirmable(s)
           /\ IsJointQuorum(Voters, {j \in Server : s.acks[j] >= newConfirmedReads(s)})
<1>. DEFINE v == newConfirmedReads(s)
            n == confirmable(s)
            o == Len(s.unconfirmedReads)
<1>1. s.acks \in [Server -> Nat] /\ s.confirmedReads \in Nat /\ o \in Nat
  BY StateTypes
<1>2. /\ v \in Nat /\ \E j \in Server : s.acks[j] >= v
      /\ IsJointQuorum(Voters, {j \in Server : s.acks[j] >= v})
  BY <1>1, QuorumAcked DEF newConfirmedReads
<1>. HIDE DEF v
<1>3. v <= s.confirmedReads + o
  BY <1>1, <1>2 DEF Asked, Total
<1>4. n = larger(0, v - s.confirmedReads)
  BY DEF confirmable, v
<1>. HIDE DEF n, o
<1>5. n \in 0..o /\ (n > 0 => v = s.confirmedReads + n)
  BY <1>1, <1>2, <1>3, <1>4 DEF larger
<1>. QED
  BY <1>2, <1>5 DEF v, n, o

\* An acknowledgement of position ctx by server j, which was on its way.
LEMMA AdvanceServes ==
    ASSUME NEW sv \in [Server -> State], NEW sv2 \in [Server -> State], NEW nt, NEW nt2,
           Moves(sv, nt, sv2, nt2), NEW s \in State, Leading(s), Serves(sv, nt, s),
           NEW m \in nt, m.type = "MsgHeartbeatResp", m.Term = s.Term,
           m.from \in Server, m.ctx \in Nat, m.ctx <= Total(s)
    PROVE  LET t == recvAck(s, m.from, m.ctx)
               u == maybeAdvance(t)
           IN  /\ t \in State /\ t.Term = s.Term /\ t.unconfirmedReads = s.unconfirmedReads
               /\ u \in State /\ u.Term = s.Term /\ u.state = s.state /\ u.log = s.log
               /\ u.committed = s.committed /\ u.Match = s.Match
               /\ u.pendingReadIndexMessages = s.pendingReadIndexMessages
               /\ Total(u) = Total(s) /\ Serves(sv2, nt2, u)
               /\ confirmable(t) \in 0..Len(s.unconfirmedReads)
               /\ \A k \in 1..confirmable(t) :
                    s.unconfirmedReads[k].req.ctx <= s.unconfirmedReads[k].index
<1>. DEFINE j  == m.from
            ac == [s.acks EXCEPT ![j] = larger(s.acks[j], m.ctx)]
            t  == recvAck(s, m.from, m.ctx)
            u  == maybeAdvance(t)
            o  == Len(s.unconfirmedReads)
            n  == confirmable(t)
            v  == newConfirmedReads(t)
            q  == SubSeq(s.unconfirmedReads, n + 1, o)
<1>1. /\ s.acks \in [Server -> Nat] /\ s.confirmedReads \in Nat /\ o \in Nat /\ s.Term \in Nat
      /\ s.unconfirmedReads \in Seq(Read) /\ Total(s) = s.confirmedReads + o /\ Total(s) \in Nat
      /\ Asked(s) /\ Fresh(sv, nt, s) /\ Released(s)
  BY StateTypes DEF Total, Serves
<1>2. /\ ac \in [Server -> Nat]
      /\ \A x \in Server : ac[x] = IF x = j THEN larger(s.acks[j], m.ctx) ELSE s.acks[x]
  <2>1. larger(s.acks[j], m.ctx) \in Nat
    BY <1>1 DEF larger
  <2>. QED
    BY <1>1, <2>1
<1>. HIDE DEF ac
<1>3. t = [s EXCEPT !.acks = ac]
  BY DEF recvAck, State, ac
<1>4. /\ t \in State /\ t.Term = s.Term /\ t.state = s.state /\ t.log = s.log
      /\ t.committed = s.committed /\ t.Match = s.Match /\ t.acks = ac
      /\ t.confirmedReads = s.confirmedReads /\ t.unconfirmedReads = s.unconfirmedReads
      /\ t.pendingReadIndexMessages = s.pendingReadIndexMessages
  BY <1>2, <1>3 DEF State
<1>. HIDE DEF t
<1>5. \A x \in Server : ac[x] \in Nat /\ ac[x] <= Total(s)
  BY <1>1, <1>2 DEF Asked, larger
<1>6. Asked(t)
  <2>1. Total(t) = Total(s)
    BY <1>4 DEF Total
  <2>. QED
    BY <1>4, <1>5, <2>1 DEF Asked
<1>7. /\ v \in Nat /\ n \in 0..o /\ (n > 0 => v = s.confirmedReads + n)
      /\ IsJointQuorum(Voters, {x \in Server : ac[x] >= v})
  BY <1>4, <1>6, ConfirmableIsAsked
<1>8. u = [t EXCEPT !.unconfirmedReads = q, !.confirmedReads = s.confirmedReads + n]
  BY <1>4 DEF maybeAdvance, State, o, q, n
<1>. HIDE DEF n, v, u
<1>9. q \in Seq(Read) /\ Len(q) = o - n /\ \A k \in 1..(o - n) : q[k] = s.unconfirmedReads[n + k]
  <2>1. n + 1 \in 1..(o + 1) /\ n + 1 \in Int /\ o \in Int
    BY <1>1, <1>7
  <2>2. \A k \in (n + 1)..o : k \in 1..o
    BY <1>1, <1>7
  <2>3. \A k \in (n + 1)..o : s.unconfirmedReads[k] \in Read
    <3>1. \A k \in 1..o : s.unconfirmedReads[k] \in Read
      BY <1>1
    <3>. QED
      BY <2>2, <3>1
  <2>. QED
    BY <1>1, <1>7, <2>1, <2>3, SubSeqProperties
<1>. HIDE DEF q, o
<1>10. s.confirmedReads + n \in Nat
  BY <1>1, <1>7
<1>11. /\ u \in State /\ u.Term = s.Term /\ u.state = s.state /\ u.log = s.log
       /\ u.committed = s.committed /\ u.Match = s.Match /\ u.acks = ac
       /\ u.confirmedReads = s.confirmedReads + n /\ u.unconfirmedReads = q
       /\ u.pendingReadIndexMessages = s.pendingReadIndexMessages
  BY <1>4, <1>8, <1>9, <1>10 DEF State
<1>12. Total(u) = Total(s)
  BY <1>1, <1>7, <1>9, <1>11 DEF Total
<1>13. Asked(u)
  BY <1>5, <1>11, <1>12 DEF Asked
<1>14. \A p \in Nat : \A x \in Server :
         ac[x] >= p => x \in MayConfirm(sv, nt, s.acks, s.Term, p)
  <2>1. \A p \in Nat : \A x \in Server : ac[x] >= p => s.acks[x] >= p \/ (x = j /\ m.ctx >= p)
    BY <1>1, <1>2 DEF larger
  <2>. QED
    BY <2>1 DEF MayConfirm
<1>15. \A k \in 1..n : s.unconfirmedReads[k].req.ctx <= s.unconfirmedReads[k].index
  <2>. SUFFICES ASSUME NEW k \in 1..n
                PROVE  s.unconfirmedReads[k].req.ctx <= s.unconfirmedReads[k].index
    OBVIOUS
  <2>1. /\ k \in 1..o /\ s.confirmedReads + k \in Nat /\ s.confirmedReads + k <= v
    BY <1>1, <1>7
  <2>2. \A x \in Server : ac[x] >= v => x \in MayConfirm(sv, nt, s.acks, s.Term, s.confirmedReads + k)
    BY <1>5, <1>7, <1>14, <2>1
  <2>3. IsJointQuorum(Voters, MayConfirm(sv, nt, s.acks, s.Term, s.confirmedReads + k))
    BY <1>7, <2>2, ServersGrow
  <2>. QED
    BY <1>1, <2>1, <2>3 DEF Fresh, FreshRead, o
<1>16. Fresh(sv2, nt2, u)
  <2>. SUFFICES ASSUME NEW k \in 1..Len(u.unconfirmedReads) PROVE FreshRead(sv2, nt2, u, k)
    BY DEF Fresh
  <2>. DEFINE p == u.confirmedReads + k
  <2>0. /\ k \in 1..(o - n) /\ u.unconfirmedReads[k] = s.unconfirmedReads[n + k]
        /\ p = (s.confirmedReads + n) + k
    BY <1>9, <1>11, Zenon
  <2>. HIDE DEF p
  <2>1. /\ n + k \in 1..o /\ p = s.confirmedReads + (n + k) /\ p \in Nat
        /\ u.unconfirmedReads[k] = s.unconfirmedReads[n + k]
    <3>1. s.confirmedReads \in Nat /\ o \in Nat /\ n \in 0..o
      BY <1>1, <1>7
    <3>. QED
      BY <2>0, <3>1
  <2>2. IsJointQuorum(Voters, MayConfirm(sv2, nt2, ac, s.Term, p))
            => IsJointQuorum(Voters, MayConfirm(sv, nt, s.acks, s.Term, p))
    <3>1. /\ s.Term \in Nat
          /\ \A x \in Server : ac[x] >= p => x \in MayConfirm(sv, nt, s.acks, s.Term, p)
      BY <1>1, <1>14, <2>1, Zenon
    <3>. QED
      BY <3>1, FewerConfirm
  <2>3. FreshRead(sv, nt, s, n + k)
    BY <1>1, <2>1, Zenon DEF Fresh, o
  <2>4. \/ u.unconfirmedReads[k].req.ctx <= u.unconfirmedReads[k].index
        \/ ~IsJointQuorum(Voters, MayConfirm(sv, nt, s.acks, s.Term, p))
    BY <2>1, <2>3, Zenon DEF FreshRead
  <2>. QED
    BY <1>11, <2>2, <2>4, Zenon DEF FreshRead, p
<1>17. Released(u)
  BY <1>1, <1>11 DEF Released, committedEntryInCurrentTerm
<1>. QED
  BY <1>4, <1>7, <1>11, <1>12, <1>13, <1>15, <1>16, <1>17 DEF Serves, t, u, n, o

-----------------------------------------------------------------------------
(* The steps that leave the logs alone.                                    *)

\* Server i becomes s, which sends msgs; what is on its way is in time.
Handled(sv, nt, sv2, nt2, i, s, msgs) ==
    /\ sv2 = [sv EXCEPT ![i] = s]
    /\ nt2 \subseteq nt \cup msgs
    /\ \A m \in nt2 : InTime(sv2, m)

LEMMA HandledKeeps ==
    ASSUME NEW sv, NEW nt, NEW hi, NEW sv2, NEW nt2, Typed(sv, nt, hi),
           NEW LL \in LeaderLogs, NEW AK \in Taken,
           Cluster(sv, hi, LL, AK), Reads(sv, nt, hi, LL),
           NEW i \in Server, NEW s \in State, NEW msgs \in SUBSET Message,
           Handled(sv, nt, sv2, nt2, i, s, msgs),
           Quiet(sv[i], s), Leading(s) => Total(s) >= Total(sv[i]),
           \A m \in msgs : m.type = "MsgHeartbeatResp" => sv[m.from].Term <= m.Term,
           \A m \in msgs : MsgTrue(sv, hi, LL, m) \/ MsgTrue(sv2, hi, LL, m),
           Serves(sv, nt, s), Postponed(hi, s)
    PROVE  Typed(sv2, nt2, hi) /\ Cluster(sv2, hi, LL, AK) /\ Reads(sv2, nt2, hi, LL)
<1>1. sv \in [Server -> State] /\ nt \in SUBSET Message /\ hi \in Nat
  BY DEF Typed
<1>2. sv2 \in [Server -> State] /\ nt2 \in SUBSET Message
  BY <1>1 DEF Handled
<1>3. \A x \in Server : sv2[x] = IF x = i THEN s ELSE sv[x]
  BY <1>1 DEF Handled
<1>4. \A x \in Server : sv[x] \in State /\ sv[x].Term \in Nat /\ Total(sv[x]) \in Nat
  BY <1>1, StateTypes
<1>5. \A x \in Server : Quiet(sv[x], sv2[x])
  <2>1. \A x \in Server : Quiet(sv[x], sv[x])
    <3>1. \A x \in Server : sv[x].committed \in Nat
      BY <1>1, StateTypes
    <3>. QED
      BY <1>4, <3>1 DEF Quiet
  <2>. QED
    BY <1>3, <2>1
<1>6. Cluster(sv2, hi, LL, AK)
  BY <1>1, <1>2, <1>5, QuietCluster
<1>7. Moves(sv, nt, sv2, nt2)
  <2>1. \A x \in Server : sv2[x].Term >= sv[x].Term
    BY <1>5 DEF Quiet
  <2>2. \A m \in nt2 : m \in nt \/ (m.type = "MsgHeartbeatResp" => sv[m.from].Term <= m.Term)
    BY DEF Handled
  <2>. QED
    BY <2>1, <2>2 DEF Moves
<1>8. Leads(sv, sv2, LL)
  <2>. SUFFICES ASSUME NEW x \in Server, Leading(sv2[x])
                PROVE  Leading(sv[x]) /\ sv2[x].Term = sv[x].Term /\ Total(sv2[x]) >= Total(sv[x])
    BY DEF Leads
  <2>1. Leading(sv[x]) /\ sv2[x].Term = sv[x].Term
    BY <1>5 DEF Quiet
  <2>2. Total(sv2[x]) >= Total(sv[x])
    BY <1>3, <1>4
  <2>. QED
    BY <2>1, <2>2
<1>9. ASSUME NEW x \in Server PROVE Serves(sv2, nt2, sv2[x]) /\ Postponed(hi, sv2[x])
  <2>1. Serves(sv, nt, sv[x]) /\ Postponed(hi, sv[x])
    BY DEF Reads
  <2>2. Serves(sv, nt, sv2[x]) /\ Postponed(hi, sv2[x]) /\ sv2[x] \in State
    BY <1>2, <1>3, <2>1
  <2>. QED
    BY <1>1, <1>2, <1>7, <2>2, ServesOn
<1>10. ASSUME NEW m \in nt2 PROVE InTime(sv2, m) /\ MsgTrue(sv2, hi, LL, m)
  <2>1. InTime(sv2, m) /\ m \in Message
    BY <1>2 DEF Handled
  <2>2. MsgTrue(sv, hi, LL, m) \/ MsgTrue(sv2, hi, LL, m)
    BY DEF Handled, Reads
  <2>3. MsgTrue(sv, hi, LL, m) => MsgTrue(sv2, hi, LL, m)
    <3>1. hi <= hi
      BY <1>1
    <3>. QED
      BY <1>1, <1>2, <1>8, <2>1, <3>1, MsgsOn
  <2>. QED
    BY <2>1, <2>2, <2>3
<1>11. Reads(sv2, nt2, hi, LL)
  BY <1>9, <1>10 DEF Reads
<1>. QED
  BY <1>1, <1>2, <1>6, <1>11 DEF Typed

\* Nothing but answers that are fresh.
FreshAnswers(answers) == \A r \in answers : r.index >= r.ctx

LEMMA ReadInvNext ==
    ASSUME Typed(srv', net', highest'), FreshAnswers(readStates'),
           \E LL \in LeaderLogs, AK \in Taken :
               Cluster(srv', highest', LL, AK) /\ Reads(srv', net', highest', LL)
    PROVE  ReadInv'
BY DEF ReadInv, ReadIsFresh, FreshAnswers

LEMMA BecameKeeps ==
    ASSUME Typed(srv, net, highest), NEW LL \in LeaderLogs, NEW AK \in Taken,
           Cluster(srv, highest, LL, AK), Reads(srv, net, highest, LL),
           NEW i \in Server, NEW s \in State, NEW msgs \in SUBSET Message, NEW used, NEW answers,
           Became(i, s, used, msgs, answers), FreshAnswers(answers),
           Quiet(srv[i], s), Leading(s) => Total(s) >= Total(srv[i]),
           \A m \in msgs : m.type = "MsgHeartbeatResp" => srv[m.from].Term <= m.Term,
           \A m \in msgs : MsgTrue(srv, highest, LL, m)
                           \/ MsgTrue([srv EXCEPT ![i] = s], highest, LL, m),
           Serves(srv, net, s), Postponed(highest, s)
    PROVE  ReadInv'
<1>1. /\ srv \in [Server -> State] /\ highest \in Nat /\ srv[i] \in State
      /\ srv[i].committed \in Nat /\ s.committed \in Nat
  BY StateTypes DEF Typed
<1>2. srv[i].committed <= highest /\ s.committed <= srv[i].committed
  BY DEF Cluster, Quiet
<1>3. highest' = highest
  BY <1>1, <1>2 DEF Became, larger
<1>4. srv' = [srv EXCEPT ![i] = s] /\ readStates' = answers
  BY DEF Became
<1>5. Handled(srv, net, srv', net', i, s, msgs)
  BY DEF Became, Handled, Live, InTime
<1>6. Typed(srv', net', highest) /\ Cluster(srv', highest, LL, AK) /\ Reads(srv', net', highest, LL)
  BY <1>4, <1>5, HandledKeeps
<1>. QED
  BY <1>3, <1>4, <1>6, ReadInvNext

LEMMA SameReads ==
    ASSUME NEW sv, NEW nt, NEW s, NEW t, t.Term = s.Term, t.acks = s.acks,
           t.unconfirmedReads = s.unconfirmedReads, t.confirmedReads = s.confirmedReads
    PROVE  /\ Total(t) = Total(s) /\ (Asked(s) => Asked(t))
           /\ Fresh(sv, nt, s) => Fresh(sv, nt, t)
<1>1. Total(t) = Total(s)
  BY DEF Total
<1>2. \A k : FreshRead(sv, nt, s, k) <=> FreshRead(sv, nt, t, k)
  BY DEF FreshRead
<1>. QED
  BY <1>1, <1>2 DEF Asked, Fresh

\* A server as it is.
LEMMA Unmoved ==
    ASSUME NEW s \in State
    PROVE  Quiet(s, s) /\ Total(s) >= Total(s)
<1>1. s.Term \in Nat /\ s.committed \in Nat /\ Total(s) \in Nat
  BY StateTypes
<1>. QED
  BY <1>1 DEF Quiet

\* What is known of a server and of the heartbeats to it.
LEMMA ServerFacts ==
    ASSUME NEW sv, NEW nt, NEW hi, Typed(sv, nt, hi), NEW LL \in LeaderLogs, NEW AK \in Taken,
           Cluster(sv, hi, LL, AK), Reads(sv, nt, hi, LL), NEW i \in Server
    PROVE  /\ sv \in [Server -> State] /\ hi \in Nat /\ sv[i] \in State
           /\ Serves(sv, nt, sv[i]) /\ Postponed(hi, sv[i])
           /\ Leading(sv[i]) => /\ LL[sv[i].Term] # <<>> /\ sv[i].committed <= Len(sv[i].log)
                                /\ \A m \in nt : m.type \in Heartbeats /\ m.Term = sv[i].Term =>
                                                     m.ctx \in Nat /\ m.ctx <= Total(sv[i])
<1>1. sv \in [Server -> State] /\ hi \in Nat /\ sv[i] \in State
  BY DEF Typed
<1>2. Serves(sv, nt, sv[i]) /\ Postponed(hi, sv[i])
  BY DEF Reads
<1>3. ASSUME Leading(sv[i])
      PROVE  LL[sv[i].Term] # <<>> /\ sv[i].committed <= Len(sv[i].log)
  <2>1. LL[sv[i].Term] # <<>>
    BY <1>3 DEF Cluster, LeaderOf, LogOf
  <2>2. Backed(LL, AK, sv[i].Term, sv[i].committed) /\ sv[i].committed \in Nat
    BY <1>1, StateTypes DEF Cluster
  <2>. QED
    BY <1>1, <1>3, <2>1, <2>2, LeaderHas
<1>4. ASSUME Leading(sv[i]), NEW m \in nt, m.type \in Heartbeats, m.Term = sv[i].Term
      PROVE  m.ctx \in Nat /\ m.ctx <= Total(sv[i])
  <2>1. m \in Message /\ MsgTrue(sv, hi, LL, m)
    BY DEF Typed, Reads
  <2>2. m.ctx \in Nat
    BY <2>1 DEF Message
  <2>. QED
    BY <1>4, <2>1, <2>2 DEF MsgTrue, GivenOut
<1>. QED
  BY <1>1, <1>2, <1>3, <1>4

\* Heartbeats of the leader of a term.
LEMMA LeaderSends ==
    ASSUME NEW sv \in [Server -> State], NEW hi, NEW LL, NEW i \in Server, OneLeader(sv),
           Leading(sv[i]), LL[sv[i].Term] # <<>>, NEW m, m.type = "MsgHeartbeat",
           m.Term = sv[i].Term, m.ctx <= Total(sv[i])
    PROVE  MsgTrue(sv, hi, LL, m)
BY DEF MsgTrue, GivenOut, OneLeader, Heartbeats

LEMMA ForwardKeeps ==
    ASSUME Typed(srv, net, highest), NEW LL \in LeaderLogs, NEW AK \in Taken,
           Cluster(srv, highest, LL, AK), Reads(srv, net, highest, LL),
           NEW i \in Server, NEW req \in Req, req.ctx <= highest, NEW used,
           ForwardRead(i, srv[i], req, used)
    PROVE  ReadInv'
<1>. DEFINE s == srv[i]
            f == IF req.from = None THEN i ELSE req.from
            r == [type |-> "MsgReadIndex", to |-> s.lead, ctx |-> req.ctx, from |-> f]
            msgs == IF s.lead = None THEN {} ELSE {r}
<1>1. s \in State /\ Serves(srv, net, s) /\ Postponed(highest, s)
  BY ServerFacts
<1>2. s.lead = None \/ r \in Message
  <2>1. s.lead \in Server \cup {None} /\ req.ctx \in Nat /\ f \in Server
    BY <1>1 DEF State, Req
  <2>. HIDE DEF s, f
  <2>. QED
    BY <2>1 DEF Message
<1>3. r.type = "MsgReadIndex" /\ r.ctx = req.ctx
  OBVIOUS
<1>4. MsgTrue(srv, highest, LL, r)
  <2>. HIDE DEF r
  <2>. QED
    BY <1>3 DEF MsgTrue, GivenOut, Heartbeats
<1>5. Became(i, s, used, msgs, {})
  BY DEF ForwardRead
<1>6. /\ msgs \in SUBSET Message
      /\ \A m \in msgs : m.type = "MsgHeartbeatResp" => srv[m.from].Term <= m.Term
      /\ \A m \in msgs : MsgTrue(srv, highest, LL, m)
  <2>. HIDE DEF r
  <2>. QED
    BY <1>2, <1>3, <1>4
<1>7. FreshAnswers({})
  BY DEF FreshAnswers
<1>. HIDE DEF msgs
<1>. QED
  BY <1>1, <1>5, <1>6, <1>7, Unmoved, BecameKeeps

\* A leader that has committed nothing in its term postpones the read.
LEMMA PostponeKeeps ==
    ASSUME Typed(srv, net, highest), NEW LL \in LeaderLogs, NEW AK \in Taken,
           Cluster(srv, highest, LL, AK), Reads(srv, net, highest, LL),
           NEW i \in Server, NEW req \in Req, req.ctx <= highest, NEW used,
           ~committedEntryInCurrentTerm(srv[i]),
           Became(i, [srv[i] EXCEPT !.pendingReadIndexMessages = Append(@, req)], used, {}, {})
    PROVE  ReadInv'
<1>. DEFINE s == srv[i]
            old == s.pendingReadIndexMessages
            q == Append(old, req)
            t == [s EXCEPT !.pendingReadIndexMessages = q]
<1>1. s \in State /\ Serves(srv, net, s) /\ Postponed(highest, s)
  BY ServerFacts
<1>2. old \in Seq(Req) /\ Len(old) \in Nat
  BY <1>1, StateTypes
<1>3. q \in Seq(Req) /\ \A k \in 1..Len(q) : q[k].ctx <= highest
  <2>1. /\ q \in Seq(Req) /\ Len(q) = Len(old) + 1 /\ q[Len(old) + 1] = req
        /\ \A k \in 1..Len(old) : q[k] = old[k]
    BY <1>2
  <2>2. \A k \in 1..Len(old) : old[k].ctx <= highest
    BY <1>1 DEF Postponed
  <2>. HIDE DEF q
  <2>. QED
    BY <1>2, <2>1, <2>2
<1>. HIDE DEF q
<1>4. /\ t \in State /\ t.Term = s.Term /\ t.state = s.state /\ t.log = s.log
      /\ t.committed = s.committed /\ t.Match = s.Match /\ t.acks = s.acks
      /\ t.confirmedReads = s.confirmedReads /\ t.unconfirmedReads = s.unconfirmedReads
      /\ t.pendingReadIndexMessages = q
  BY <1>1, <1>3 DEF State
<1>5. Became(i, t, used, {}, {})
  BY <1>4 DEF q
<1>. HIDE DEF t, s
<1>6. Total(t) = Total(s) /\ (Leading(t) => Leading(s) /\ Asked(t) /\ Fresh(srv, net, t))
  BY <1>1, <1>4, SameReads DEF Serves, Leading
<1>7. Serves(srv, net, t)
  <2>1. ~committedEntryInCurrentTerm(t)
    BY <1>4 DEF committedEntryInCurrentTerm, s
  <2>. QED
    BY <1>6, <2>1 DEF Serves, Released
<1>8. Quiet(s, t) /\ Total(t) >= Total(s) /\ Postponed(highest, t)
  <2>1. s.Term \in Nat /\ s.committed \in Nat /\ Total(s) \in Nat
    BY <1>1, StateTypes
  <2>. QED
    BY <1>3, <1>4, <1>6, <2>1 DEF Quiet, Postponed, Leading
<1>9. FreshAnswers({}) /\ {} \in SUBSET Message
  BY DEF FreshAnswers
<1>. QED
  BY <1>4, <1>5, <1>7, <1>8, <1>9, BecameKeeps DEF s

\* A leader that knows its commits accepts the read.
LEMMA AcceptKeeps ==
    ASSUME Typed(srv, net, highest), NEW LL \in LeaderLogs, NEW AK \in Taken,
           Cluster(srv, highest, LL, AK), Reads(srv, net, highest, LL),
           NEW i \in Server, NEW req \in Req, req.ctx <= highest, NEW used,
           Leading(srv[i]), committedEntryInCurrentTerm(srv[i]),
           Became(i, Accepted(i, srv[i], <<req>>).srv, used, Accepted(i, srv[i], <<req>>).net, {})
    PROVE  ReadInv'
<1>. DEFINE s == srv[i]
            reqs == <<req>>
            a == Accepted(i, s, reqs)
            t == a.srv
            sv2 == [srv EXCEPT ![i] = t]
<1>1. /\ srv \in [Server -> State] /\ highest \in Nat /\ s \in State
      /\ Serves(srv, net, s) /\ Postponed(highest, s)
      /\ LL[s.Term] # <<>> /\ s.committed <= Len(s.log)
      /\ \A m \in net : m.type = "MsgHeartbeatResp" /\ m.Term = s.Term =>
                            m.ctx \in Nat /\ m.ctx <= Total(s)
  BY ServerFacts DEF Heartbeats
<1>2. Asked(s) /\ Fresh(srv, net, s) /\ s.pendingReadIndexMessages = <<>>
  BY <1>1 DEF Serves, Released
<1>3. reqs \in Seq(Req) /\ reqs # <<>> /\ Len(reqs) = 1 /\ reqs[1] = req
  OBVIOUS
<1>. HIDE DEF reqs
<1>4. \/ \A k \in 1..Len(reqs) : reqs[k].ctx <= s.committed
      \/ ~IsJointQuorum(Voters, {j \in Server : srv[j].Term <= s.Term})
  <2>. SUFFICES ASSUME IsJointQuorum(Voters, {j \in Server : srv[j].Term <= s.Term})
                PROVE  \A k \in 1..Len(reqs) : reqs[k].ctx <= s.committed
    OBVIOUS
  <2>1. highest <= s.committed
    BY <1>1, LeaderKnows
  <2>2. req.ctx \in Nat /\ s.committed \in Nat
    BY <1>1, StateTypes DEF Req
  <2>. QED
    BY <1>1, <1>3, <2>1, <2>2
<1>5. Serves(srv, net, t)
  BY <1>1, <1>2, <1>3, <1>4, AcceptedServes
<1>6. /\ t \in State /\ t.Term = s.Term /\ t.state = s.state /\ t.log = s.log
      /\ t.committed = s.committed /\ t.Match = s.Match /\ t.pendingReadIndexMessages = <<>>
      /\ Total(t) = Total(s) + 1 /\ a.net \in SUBSET Message
      /\ \A m \in a.net : m.type = "MsgHeartbeat" /\ m.Term = s.Term /\ m.ctx <= Total(t)
  BY <1>1, <1>2, <1>3, AcceptedFields
<1>7. Became(i, t, used, a.net, {})
  BY DEF reqs
<1>. HIDE DEF a, t, s
<1>8. Quiet(s, t) /\ Total(t) >= Total(s) /\ Postponed(highest, t)
  <2>1. s.Term \in Nat /\ s.committed \in Nat /\ Total(s) \in Nat
    BY <1>1, StateTypes
  <2>. QED
    BY <1>6, <2>1 DEF Quiet, Postponed, Leading
<1>9. \A m \in a.net : MsgTrue(sv2, highest, LL, m)
  <2>1. sv2 \in [Server -> State] /\ \A x \in Server : sv2[x] = IF x = i THEN t ELSE srv[x]
    BY <1>1, <1>6
  <2>. HIDE DEF sv2
  <2>2. \A x \in Server : sv2[x].Term = srv[x].Term /\ (Leading(sv2[x]) <=> Leading(srv[x]))
    BY <1>6, <2>1 DEF Leading, s
  <2>3. OneLeader(sv2)
    BY <2>2 DEF OneLeader, Cluster
  <2>4. Leading(sv2[i]) /\ LL[sv2[i].Term] # <<>> /\ sv2[i] = t
    BY <1>1, <1>6, <2>1, <2>2
  <2>. QED
    BY <1>6, <2>1, <2>3, <2>4, LeaderSends
<1>10. \A m \in a.net : m.type # "MsgHeartbeatResp"
  BY <1>6
<1>11. FreshAnswers({})
  BY DEF FreshAnswers
<1>. QED
  BY <1>5, <1>6, <1>7, <1>8, <1>9, <1>10, <1>11, BecameKeeps DEF s

LEMMA StepReadKeeps ==
    ASSUME ~IsSingleton, ReadInv, NEW i \in Server, NEW req \in Req, req.ctx <= highest,
           NEW used, StepRead(i, req, used)
    PROVE  ReadInv'
<1>1. PICK LL \in LeaderLogs, AK \in Taken :
        Cluster(srv, highest, LL, AK) /\ Reads(srv, net, highest, LL)
  BY DEF ReadInv
<1>2. Typed(srv, net, highest)
  BY DEF ReadInv
<1>3. CASE ~Leading(srv[i])
  BY <1>1, <1>2, <1>3, ForwardKeeps DEF StepRead
<1>4. CASE Leading(srv[i]) /\ ~committedEntryInCurrentTerm(srv[i])
  <2>1. Became(i, [srv[i] EXCEPT !.pendingReadIndexMessages = Append(@, req)], used, {}, {})
    BY <1>4 DEF StepRead, AcceptRead
  <2>. QED
    BY <1>1, <1>2, <1>4, <2>1, PostponeKeeps
<1>5. CASE Leading(srv[i]) /\ committedEntryInCurrentTerm(srv[i])
  <2>1. Became(i, Accepted(i, srv[i], <<req>>).srv, used, Accepted(i, srv[i], <<req>>).net, {})
    BY <1>5 DEF StepRead, AcceptRead
  <2>. QED
    BY <1>1, <1>2, <1>5, <2>1, AcceptKeeps
<1>. QED
  BY <1>3, <1>4, <1>5

\* A message on its way to a server, which is not of a later term.
LEMMA MessageFacts ==
    ASSUME NEW sv, NEW nt, NEW hi, Typed(sv, nt, hi), NEW LL \in LeaderLogs,
           Reads(sv, nt, hi, LL), NEW m \in nt
    PROVE  /\ m \in Message /\ m.to \in Server /\ m.from \in Server /\ m.ctx \in Nat
           /\ MsgTrue(sv, hi, LL, m)
           /\ m.type # "MsgReadIndex" => m.Term \in Nat /\ m.Term >= sv[m.to].Term
           /\ m.type = "MsgReadIndexResp" => m.index \in Nat
<1>1. m \in Message /\ MsgTrue(sv, hi, LL, m) /\ InTime(sv, m)
  BY DEF Typed, Reads
<1>2. /\ m.to \in Server /\ m.from \in Server /\ m.ctx \in Nat
      /\ m.type # "MsgReadIndex" => m.Term \in Nat
      /\ m.type = "MsgReadIndexResp" => m.index \in Nat
  BY <1>1 DEF Message, Heartbeats
<1>. QED
  BY <1>1, <1>2 DEF InTime

LEMMA ReadIndexKeeps ==
    ASSUME ~IsSingleton, ReadInv, NEW i \in Server, ReadIndex(i)
    PROVE  ReadInv'
<1>. DEFINE req == [from |-> None, ctx |-> highest]
<1>1. highest \in Nat
  BY DEF ReadInv, Typed
<1>2. req \in Req /\ req.ctx <= highest
  BY <1>1 DEF Req
<1>3. StepRead(i, req, {})
  BY DEF ReadIndex
<1>. HIDE DEF req
<1>. QED
  BY <1>2, <1>3, StepReadKeeps

LEMMA RecvReadIndexKeeps ==
    ASSUME ~IsSingleton, ReadInv, NEW m \in net, RecvReadIndex(m)
    PROVE  ReadInv'
<1>. DEFINE req == [from |-> m.from, ctx |-> m.ctx]
<1>1. m.to \in Server /\ m.from \in Server /\ m.ctx \in Nat /\ m.ctx <= highest
  BY MessageFacts DEF ReadInv, RecvReadIndex, MsgTrue
<1>2. req \in Req /\ req.ctx <= highest
  BY <1>1 DEF Req
<1>3. StepRead(m.to, req, {m})
  BY DEF RecvReadIndex
<1>. HIDE DEF req
<1>. QED
  BY <1>1, <1>2, <1>3, StepReadKeeps

\* The head of Step leaves a server in the term of the message.
LEMMA TermedFacts ==
    ASSUME Typed(srv, net, highest), NEW LL \in LeaderLogs, NEW AK \in Taken,
           Cluster(srv, highest, LL, AK), Reads(srv, net, highest, LL),
           NEW m \in net, m.type # "MsgReadIndex"
    PROVE  LET s == Termed(m)
           IN  /\ s \in State /\ s.Term = m.Term /\ Quiet(srv[m.to], s)
               /\ Serves(srv, net, s) /\ Postponed(highest, s)
               /\ Leading(s) => s = srv[m.to] /\ Total(s) >= Total(srv[m.to])
<1>. DEFINE i == m.to
            o == srv[i]
            l == IF m.type = "MsgHeartbeat" THEN m.from ELSE None
<1>1. /\ i \in Server /\ m.from \in Server /\ m.Term \in Nat /\ m.Term >= o.Term
  BY MessageFacts
<1>2. o \in State /\ Serves(srv, net, o) /\ Postponed(highest, o)
  BY <1>1, ServerFacts
<1>3. o.Term \in Nat /\ o.committed \in Nat
  BY <1>2, StateTypes
<1>. DEFINE f == becomeFollower(o, m.Term, l)
<1>4. /\ f \in State /\ ~Leading(f) /\ f.Term = m.Term /\ f.log = o.log
      /\ f.committed = o.committed /\ f.pendingReadIndexMessages = o.pendingReadIndexMessages
  BY <1>1, <1>2, FollowerFields
<1>5. Termed(m) = IF m.Term > o.Term THEN f ELSE o
  BY DEF Termed
<1>. HIDE DEF f, o, l, i
<1>6. CASE m.Term > o.Term
  <2>1. Quiet(o, f) /\ Serves(srv, net, f) /\ Postponed(highest, f)
    BY <1>1, <1>2, <1>3, <1>4 DEF Quiet, Serves, Postponed
  <2>. QED
    BY <1>4, <1>5, <1>6, <2>1 DEF o, i
<1>7. CASE ~(m.Term > o.Term)
  <2>1. m.Term = o.Term
    BY <1>1, <1>3, <1>7
  <2>. QED
    BY <1>2, <1>5, <1>7, <2>1, Unmoved DEF o, i
<1>. QED
  BY <1>6, <1>7

LEMMA RecvHeartbeatKeeps ==
    ASSUME ReadInv, NEW m \in net, RecvHeartbeat(m)
    PROVE  ReadInv'
<1>0. PICK LL \in LeaderLogs, AK \in Taken :
        Cluster(srv, highest, LL, AK) /\ Reads(srv, net, highest, LL)
  BY DEF ReadInv
<1>. DEFINE i == m.to
            u == Termed(m)
            s == [u EXCEPT !.lead = m.from]
            r == [type |-> "MsgHeartbeatResp", from |-> i, to |-> m.from,
                  Term |-> s.Term, ctx |-> m.ctx]
<1>1. Typed(srv, net, highest) /\ m.type = "MsgHeartbeat"
  BY DEF ReadInv, RecvHeartbeat
<1>2. /\ m \in Message /\ i \in Server /\ m.from \in Server /\ m.ctx \in Nat
      /\ MsgTrue(srv, highest, LL, m) /\ m.Term \in Nat /\ m.Term >= srv[i].Term
  BY <1>0, <1>1, MessageFacts
<1>3. /\ u \in State /\ u.Term = m.Term /\ Quiet(srv[i], u)
      /\ Serves(srv, net, u) /\ Postponed(highest, u)
      /\ Leading(u) => Total(u) >= Total(srv[i])
  BY <1>0, <1>1, TermedFacts
<1>4. Became(i, s, {m}, {r}, {})
  BY DEF RecvHeartbeat
<1>. HIDE DEF u, i
<1>5. /\ s \in State /\ s.Term = m.Term /\ s.state = u.state /\ s.log = u.log
      /\ s.committed = u.committed /\ s.Match = u.Match /\ s.acks = u.acks
      /\ s.confirmedReads = u.confirmedReads /\ s.unconfirmedReads = u.unconfirmedReads
      /\ s.pendingReadIndexMessages = u.pendingReadIndexMessages
  BY <1>2, <1>3 DEF State
<1>6. /\ r.type = "MsgHeartbeatResp" /\ r.from = i /\ r.Term = m.Term /\ r.ctx = m.ctx
      /\ r \in Message
  <2>1. s.Term \in Nat /\ s.Term = m.Term
    BY <1>2, <1>5
  <2>. HIDE DEF s
  <2>. QED
    BY <1>2, <2>1 DEF Message, Heartbeats
<1>. HIDE DEF s, r
<1>7. Total(s) = Total(u) /\ (Leading(s) => Leading(u) /\ Asked(s) /\ Fresh(srv, net, s))
  BY <1>3, <1>5, SameReads DEF Serves, Leading
<1>8. Serves(srv, net, s)
  BY <1>3, <1>5, <1>7 DEF Serves, Released, committedEntryInCurrentTerm
<1>9. Quiet(srv[i], s) /\ Postponed(highest, s)
  BY <1>3, <1>5 DEF Quiet, Postponed, Leading
<1>10. MsgTrue(srv, highest, LL, r)
  BY <1>1, <1>2, <1>6 DEF MsgTrue, GivenOut, Heartbeats
<1>11. srv[i].Term <= m.Term
  <2>1. srv[i].Term \in Nat
    BY <1>1, <1>2, StateTypes DEF Typed
  <2>. QED
    BY <1>2, <2>1
<1>12. FreshAnswers({}) /\ {r} \in SUBSET Message
  BY <1>6 DEF FreshAnswers
<1>13. /\ \A x \in {r} : x.type = "MsgHeartbeatResp" => srv[x.from].Term <= x.Term
       /\ \A x \in {r} : MsgTrue(srv, highest, LL, x)
  BY <1>6, <1>10, <1>11
<1>14. Leading(s) => Total(s) >= Total(srv[i])
  BY <1>3, <1>7
<1>. QED
  BY <1>0, <1>1, <1>2, <1>4, <1>5, <1>8, <1>9, <1>12, <1>13, <1>14, BecameKeeps

LEMMA RecvReadIndexRespKeeps ==
    ASSUME ReadInv, NEW m \in net, RecvReadIndexResp(m)
    PROVE  ReadInv'
<1>0. PICK LL \in LeaderLogs, AK \in Taken :
        Cluster(srv, highest, LL, AK) /\ Reads(srv, net, highest, LL)
  BY DEF ReadInv
<1>. DEFINE s == Termed(m)
            r == [ctx |-> m.ctx, index |-> m.index]
            answers == IF Leading(s) THEN {} ELSE {r}
<1>1. Typed(srv, net, highest) /\ m.type = "MsgReadIndexResp"
  BY DEF ReadInv, RecvReadIndexResp
<1>2. m.to \in Server /\ m.ctx \in Nat /\ m.index \in Nat /\ m.ctx <= m.index
  BY <1>0, <1>1, MessageFacts DEF MsgTrue
<1>3. /\ s \in State /\ Quiet(srv[m.to], s) /\ Serves(srv, net, s) /\ Postponed(highest, s)
      /\ Leading(s) => Total(s) >= Total(srv[m.to])
  BY <1>0, <1>1, TermedFacts
<1>4. FreshAnswers(answers)
  BY <1>2 DEF FreshAnswers
<1>5. Became(m.to, s, {m}, {}, answers)
  BY DEF RecvReadIndexResp
<1>. HIDE DEF s, answers
<1>6. {} \in SUBSET Message
  OBVIOUS
<1>. QED
  BY <1>0, <1>1, <1>2, <1>3, <1>4, <1>5, <1>6, BecameKeeps

LEMMA TickKeeps ==
    ASSUME ReadInv, NEW i \in Server, Tick(i)
    PROVE  ReadInv'
<1>0. PICK LL \in LeaderLogs, AK \in Taken :
        Cluster(srv, highest, LL, AK) /\ Reads(srv, net, highest, LL)
  BY DEF ReadInv
<1>. DEFINE s == srv[i]
            c == heartbeatCtx(s)
            msgs == bcastHeartbeatWithCtx(i, s, c)
<1>1. Typed(srv, net, highest)
  BY DEF ReadInv
<1>2. /\ srv \in [Server -> State] /\ s \in State /\ Serves(srv, net, s) /\ Postponed(highest, s)
      /\ Leading(s) => LL[s.Term] # <<>>
  BY <1>0, <1>1, ServerFacts
<1>3. Leading(s) /\ c # 0 /\ Became(i, s, {}, msgs, {})
  BY DEF Tick
<1>4. c = Total(s) /\ c \in Nat /\ s.Term \in Nat /\ c <= Total(s)
  <2>1. Total(s) \in Nat /\ s.Term \in Nat
    BY <1>2, StateTypes
  <2>2. c = Total(s)
    BY <1>3 DEF heartbeatCtx, Total
  <2>. QED
    BY <2>1, <2>2
<1>. HIDE DEF c
<1>5. ASSUME NEW m \in msgs
      PROVE  m \in Message /\ m.type = "MsgHeartbeat" /\ m.Term = s.Term /\ m.ctx = c
  <2>1. PICK j \in JointIDs(Voters) : m = [type |-> "MsgHeartbeat", from |-> i, to |-> j,
                                           Term |-> s.Term, ctx |-> c]
    BY DEF bcastHeartbeatWithCtx
  <2>2. j \in Server
    BY VotersFinite DEF JointIDs
  <2>. QED
    BY <1>4, <2>1, <2>2 DEF Message, Heartbeats
<1>. HIDE DEF msgs
<1>6. \A m \in msgs : MsgTrue(srv, highest, LL, m)
  <2>1. OneLeader(srv)
    BY <1>0 DEF Cluster
  <2>. QED
    BY <1>2, <1>3, <1>4, <1>5, <2>1, LeaderSends
<1>7. FreshAnswers({}) /\ msgs \in SUBSET Message
  BY <1>5 DEF FreshAnswers
<1>8. \A m \in msgs : m.type # "MsgHeartbeatResp"
  BY <1>5
<1>. QED
  BY <1>0, <1>1, <1>2, <1>3, <1>6, <1>7, <1>8, Unmoved, BecameKeeps

\* The answers to reads that are fresh, here and to other servers.
LEMMA AnswersAreFresh ==
    ASSUME NEW i \in Server, NEW s, s.Term \in Nat, NEW rs \in Seq(Read),
           \A k \in 1..Len(rs) : rs[k].req.ctx <= rs[k].index
    PROVE  /\ responsesOf(i, s, rs) \in SUBSET Message
           /\ \A m \in responsesOf(i, s, rs) : m.type = "MsgReadIndexResp" /\ m.ctx <= m.index
           /\ FreshAnswers(readStatesOf(i, rs))
<1>1. ASSUME NEW r \in Range(rs)
      PROVE  /\ r.req.ctx \in Nat /\ r.index \in Nat /\ r.req.from \in Server \cup {None}
             /\ r.req.ctx <= r.index
  <2>1. PICK k \in 1..Len(rs) : r = rs[k]
    BY DEF Range
  <2>2. r \in Read /\ r.req.ctx <= r.index
    BY <2>1
  <2>. QED
    BY <2>2 DEF Read, Req
<1>2. ASSUME NEW m \in responsesOf(i, s, rs)
      PROVE  m \in Message /\ m.type = "MsgReadIndexResp" /\ m.ctx <= m.index
  <2>1. PICK r \in Range(rs) :
          /\ ~Local(i, r.req)
          /\ m = [type |-> "MsgReadIndexResp", from |-> i, to |-> r.req.from, Term |-> s.Term,
                  index |-> r.index, ctx |-> r.req.ctx]
    BY DEF responsesOf
  <2>2. r.req.from \in Server
    BY <1>1, <2>1 DEF Local
  <2>. QED
    BY <1>1, <2>1, <2>2 DEF Message
<1>3. ASSUME NEW a \in readStatesOf(i, rs) PROVE a.index >= a.ctx
  <2>1. PICK r \in Range(rs) : a = [ctx |-> r.req.ctx, index |-> r.index]
    BY DEF readStatesOf
  <2>. QED
    BY <1>1, <2>1
<1>. QED
  BY <1>2, <1>3 DEF FreshAnswers

LEMMA RecvHeartbeatRespKeeps ==
    ASSUME ReadInv, NEW m \in net, RecvHeartbeatResp(m)
    PROVE  ReadInv'
<1>0. PICK LL \in LeaderLogs, AK \in Taken :
        Cluster(srv, highest, LL, AK) /\ Reads(srv, net, highest, LL)
  BY DEF ReadInv
<1>. DEFINE i  == m.to
            s  == Termed(m)
            t  == recvAck(s, m.from, m.ctx)
            n  == confirmable(t)
            rs == SubSeq(t.unconfirmedReads, 1, n)
            u  == maybeAdvance(t)
<1>1. Typed(srv, net, highest) /\ m.type = "MsgHeartbeatResp"
  BY DEF ReadInv, RecvHeartbeatResp
<1>2. i \in Server /\ m.from \in Server /\ m.ctx \in Nat
  BY <1>0, <1>1, MessageFacts
<1>3. /\ s \in State /\ s.Term = m.Term /\ Quiet(srv[i], s)
      /\ Serves(srv, net, s) /\ Postponed(highest, s)
      /\ Leading(s) => s = srv[i] /\ Total(s) >= Total(srv[i])
  BY <1>0, <1>1, TermedFacts
<1>4. CASE ~(Leading(s) /\ m.ctx # 0)
  <2>1. Became(i, s, {m}, {}, {})
    BY <1>4 DEF RecvHeartbeatResp
  <2>2. FreshAnswers({}) /\ {} \in SUBSET Message
    BY DEF FreshAnswers
  <2>. HIDE DEF s
  <2>. QED
    BY <1>0, <1>1, <1>2, <1>3, <2>1, <2>2, BecameKeeps
<1>5. CASE Leading(s) /\ m.ctx # 0
  <2>1. Became(i, u, {m}, responsesOf(i, t, rs), readStatesOf(i, rs))
    BY <1>5 DEF RecvHeartbeatResp
  <2>2. m.ctx <= Total(s) /\ srv \in [Server -> State]
    BY <1>0, <1>1, <1>2, <1>3, <1>5, ServerFacts DEF Heartbeats
  <2>3. Moves(srv, net, srv, net)
    <3>1. \A x \in Server : srv[x].Term \in Nat
      BY <2>2, StateTypes
    <3>. QED
      BY <3>1 DEF Moves
  <2>. HIDE DEF s
  <2>4. /\ t.Term = s.Term /\ t.unconfirmedReads = s.unconfirmedReads
        /\ u \in State /\ u.Term = s.Term /\ u.state = s.state /\ u.log = s.log
        /\ u.committed = s.committed /\ u.Match = s.Match
        /\ u.pendingReadIndexMessages = s.pendingReadIndexMessages
        /\ Total(u) = Total(s) /\ Serves(srv, net, u)
        /\ n \in 0..Len(s.unconfirmedReads)
        /\ \A k \in 1..n : s.unconfirmedReads[k].req.ctx <= s.unconfirmedReads[k].index
    BY <1>1, <1>2, <1>3, <1>5, <2>2, <2>3, AdvanceServes
  <2>. DEFINE old == s.unconfirmedReads
  <2>5. old \in Seq(Read) /\ s.Term \in Nat /\ Len(old) \in Nat
    BY <1>3, StateTypes
  <2>6. rs \in Seq(Read) /\ Len(rs) = n /\ \A k \in 1..n : rs[k] = old[k]
    <3>. HIDE DEF t, n, old
    <3>1. n \in Nat /\ n <= Len(old) /\ rs = SubSeq(old, 1, n)
      BY <2>4, <2>5 DEF old
    <3>2. \A k \in 1..n : old[k] \in Read
      <4>1. \A k \in 1..n : k \in 1..Len(old)
        BY <2>5, <3>1
      <4>2. \A k \in 1..Len(old) : old[k] \in Read
        BY <2>5
      <4>. QED
        BY <4>1, <4>2
    <3>3. /\ SubSeq(old, 1, n) \in Seq(Read) /\ Len(SubSeq(old, 1, n)) = n
          /\ \A k \in 1..n : SubSeq(old, 1, n)[k] = old[k]
      <4>1. SubSeq(old, 1, n) = [k \in 1..n |-> old[k]]
        BY <2>5, <3>1
      <4>. DEFINE f == [k \in 1..n |-> old[k]]
      <4>2. f \in [1..n -> Read] /\ \A k \in 1..n : f[k] = old[k]
        BY <3>2
      <4>. HIDE DEF f
      <4>3. f \in Seq(Read) /\ Len(f) = n
        BY <3>1, <4>2
      <4>. QED
        BY <4>1, <4>2, <4>3 DEF f
    <3>. QED
      BY <3>1, <3>3
  <2>. HIDE DEF rs
  <2>7. /\ responsesOf(i, t, rs) \in SUBSET Message
        /\ \A x \in responsesOf(i, t, rs) : x.type = "MsgReadIndexResp" /\ x.ctx <= x.index
        /\ FreshAnswers(readStatesOf(i, rs))
    <3>1. t.Term \in Nat /\ \A k \in 1..Len(rs) : rs[k].req.ctx <= rs[k].index
      BY <2>4, <2>5, <2>6
    <3>. HIDE DEF t
    <3>. QED
      BY <1>2, <2>6, <3>1, AnswersAreFresh
  <2>. HIDE DEF t, u, n, old
  <2>8. \A x \in responsesOf(i, t, rs) :
          /\ x.type # "MsgHeartbeatResp" /\ MsgTrue(srv, highest, LL, x)
    BY <2>7 DEF MsgTrue, GivenOut, Heartbeats
  <2>9. Quiet(srv[i], u) /\ Total(u) >= Total(srv[i]) /\ Postponed(highest, u)
    BY <1>3, <1>5, <2>4 DEF Quiet, Postponed, Leading
  <2>. QED
    BY <1>0, <1>1, <1>2, <2>1, <2>4, <2>7, <2>8, <2>9, BecameKeeps
<1>. QED
  BY <1>4, <1>5

LEMMA LoseKeeps ==
    ASSUME ReadInv, NEW m \in net, Lose(m)
    PROVE  ReadInv'
<1>0. PICK LL \in LeaderLogs, AK \in Taken :
        Cluster(srv, highest, LL, AK) /\ Reads(srv, net, highest, LL)
  BY DEF ReadInv
<1>. DEFINE i == m.to
<1>1. Typed(srv, net, highest)
  BY DEF ReadInv
<1>2. i \in Server
  BY <1>0, <1>1, MessageFacts
<1>3. /\ srv \in [Server -> State] /\ srv[i] \in State
      /\ Serves(srv, net, srv[i]) /\ Postponed(highest, srv[i])
  BY <1>0, <1>1, <1>2, ServerFacts
<1>4. srv' = srv /\ highest' = highest /\ net' = net \ {m} /\ readStates' = {}
  BY DEF Lose
<1>5. Handled(srv, net, srv', net', i, srv[i], {})
  <2>1. srv' = [srv EXCEPT ![i] = srv[i]]
    BY <1>3, <1>4
  <2>2. \A x \in net' : InTime(srv', x)
    BY <1>0, <1>4 DEF Reads
  <2>. QED
    BY <1>4, <2>1, <2>2 DEF Handled
<1>. HIDE DEF i
<1>6. Typed(srv', net', highest) /\ Cluster(srv', highest, LL, AK) /\ Reads(srv', net', highest, LL)
  <2>1. {} \in SUBSET Message
    OBVIOUS
  <2>. QED
    BY <1>0, <1>1, <1>2, <1>3, <1>5, <2>1, Unmoved, HandledKeeps
<1>7. FreshAnswers({})
  BY DEF FreshAnswers
<1>. QED
  BY <1>4, <1>6, <1>7, ReadInvNext

LEMMA RestartKeeps ==
    ASSUME ReadInv, NEW i \in Server, Restart(i)
    PROVE  ReadInv'
<1>0. PICK LL \in LeaderLogs, AK \in Taken :
        Cluster(srv, highest, LL, AK) /\ Reads(srv, net, highest, LL)
  BY DEF ReadInv
<1>1. Typed(srv, net, highest)
  BY DEF ReadInv
<1>2. srv \in [Server -> State] /\ srv[i] \in State
  BY <1>0, <1>1, ServerFacts
<1>3. /\ srv[i].Term \in Nat /\ srv[i].committed \in Nat /\ srv[i].log \in Seq(Terms)
  BY <1>2, StateTypes
<1>4. PICK c \in 1..srv[i].committed :
        srv' = [srv EXCEPT ![i] = [newRaft EXCEPT !.Term = srv[i].Term,
                                                  !.log = srv[i].log, !.committed = c]]
  BY DEF Restart
<1>. DEFINE t == [newRaft EXCEPT !.Term = srv[i].Term, !.log = srv[i].log, !.committed = c]
<1>5. /\ t \in State /\ ~Leading(t) /\ t.Term = srv[i].Term /\ t.log = srv[i].log
      /\ t.committed = c /\ t.pendingReadIndexMessages = <<>>
  <2>1. <<>> \in Seq(Read) /\ <<>> \in Seq(Req) /\ c \in Nat
    BY <1>3
  <2>2. [j \in Server |-> 0] \in [Server -> Nat]
    OBVIOUS
  <2>. QED
    BY <1>3, <2>1, <2>2 DEF newRaft, State, Leading
<1>6. srv' = [srv EXCEPT ![i] = t]
  BY <1>4
<1>. HIDE DEF t
<1>7. net' = net /\ highest' = highest /\ readStates' = {}
  BY DEF Restart
<1>8. Handled(srv, net, srv', net', i, t, {})
  <2>1. \A x \in net : x.type # "MsgReadIndex" => x.to \in Server
    BY <1>0, <1>1, MessageFacts
  <2>2. \A x \in Server : srv'[x].Term = srv[x].Term
    BY <1>2, <1>5, <1>6
  <2>3. \A x \in net' : InTime(srv', x)
    BY <1>0, <1>7, <2>1, <2>2 DEF Reads, InTime
  <2>. QED
    BY <1>6, <1>7, <2>3 DEF Handled
<1>9. Quiet(srv[i], t) /\ Serves(srv, net, t) /\ Postponed(highest, t)
  BY <1>3, <1>5 DEF Quiet, Serves, Postponed
<1>10. Typed(srv', net', highest) /\ Cluster(srv', highest, LL, AK) /\ Reads(srv', net', highest, LL)
  <2>1. {} \in SUBSET Message
    OBVIOUS
  <2>. QED
    BY <1>0, <1>1, <1>5, <1>8, <1>9, <2>1, HandledKeeps
<1>11. FreshAnswers({})
  BY DEF FreshAnswers
<1>. QED
  BY <1>7, <1>10, <1>11, ReadInvNext

-----------------------------------------------------------------------------
(* The steps that move the logs.                                           *)

LEMMA ProposeKeeps ==
    ASSUME ReadInv, NEW i \in Server, Propose(i)
    PROVE  ReadInv'
<1>0. PICK LL \in LeaderLogs, AK \in Taken :
        Cluster(srv, highest, LL, AK) /\ Reads(srv, net, highest, LL)
  BY DEF ReadInv
<1>. DEFINE s == srv[i]
            e == Append(s.log, s.Term)
            t == [s EXCEPT !.log = e]
<1>1. Typed(srv, net, highest)
  BY DEF ReadInv
<1>2. /\ srv \in [Server -> State] /\ s \in State /\ highest \in Nat /\ net \in SUBSET Message
      /\ Leading(s) /\ s.committed <= Len(s.log)
      /\ Serves(srv, net, s) /\ Postponed(highest, s)
  BY <1>0, <1>1, ServerFacts DEF Propose, Typed
<1>3. s.Term \in Nat /\ s.committed \in Nat /\ Len(s.log) \in Nat /\ Total(s) \in Nat
  BY <1>2, StateTypes
<1>4. e \in Seq(Terms) /\ \A k \in 1..Len(s.log) : e[k] = s.log[k]
  <2>1. s.log \in Seq(Terms) /\ s.Term \in Terms
    BY <1>2, <1>3, StateTypes DEF Terms
  <2>. QED
    BY <2>1
<1>5. Became(i, t, {}, {}, {}) /\ Extended(s, t)
  BY DEF Propose, Extended
<1>. HIDE DEF e
<1>6. /\ t \in State /\ t.Term = s.Term /\ t.state = s.state /\ t.log = e
      /\ t.committed = s.committed /\ t.Match = s.Match /\ t.acks = s.acks
      /\ t.confirmedReads = s.confirmedReads /\ t.unconfirmedReads = s.unconfirmedReads
      /\ t.pendingReadIndexMessages = s.pendingReadIndexMessages
  BY <1>2, <1>4 DEF State
<1>. HIDE DEF t
<1>7. /\ srv' = [srv EXCEPT ![i] = t] /\ net' \subseteq net /\ readStates' = {}
      /\ highest' = larger(highest, t.committed) /\ \A m \in net' : InTime(srv', m)
  BY <1>5 DEF Became, Live, InTime
<1>8. /\ srv' \in [Server -> State]
      /\ \A x \in Server : srv'[x] = IF x = i THEN t ELSE srv[x]
  BY <1>2, <1>6, <1>7
<1>9. highest' = highest
  <2>1. s.committed <= highest
    BY <1>0 DEF Cluster
  <2>. QED
    BY <1>2, <1>3, <1>6, <1>7, <2>1 DEF larger
<1>10. PICK MM \in LeaderLogs :
         Cluster(srv', highest, MM, AK) /\ \A u \in Nat : LL[u] # <<>> => MM[u] # <<>>
  <2>1. Extended(srv[i], srv'[i]) /\ \A x \in Server \ {i} : srv'[x] = srv[x]
    BY <1>5, <1>8
  <2>. QED
    BY <1>0, <1>2, <1>8, <2>1, ProposeCluster
<1>11. \A x \in Server : srv'[x].Term = srv[x].Term /\ (Leading(srv'[x]) <=> Leading(srv[x]))
  BY <1>6, <1>8 DEF Leading
<1>12. Moves(srv, net, srv', net')
  <2>1. \A x \in Server : srv[x].Term \in Nat
    BY <1>2, StateTypes
  <2>. QED
    BY <1>7, <1>11, <2>1 DEF Moves
<1>13. Total(t) = Total(s) /\ Serves(srv, net, t) /\ Postponed(highest, t)
  <2>1. Total(t) = Total(s) /\ Asked(t) /\ Fresh(srv, net, t)
    BY <1>2, <1>6, SameReads DEF Serves
  <2>2. committedEntryInCurrentTerm(t) => committedEntryInCurrentTerm(s)
    BY <1>2, <1>3, <1>4, <1>6 DEF committedEntryInCurrentTerm
  <2>3. Released(t)
    BY <1>2, <1>6, <2>2 DEF Serves, Released
  <2>. QED
    BY <1>2, <1>6, <2>1, <2>3 DEF Serves, Postponed
<1>14. ASSUME NEW x \in Server PROVE Serves(srv', net', srv'[x]) /\ Postponed(highest, srv'[x])
  <2>1. Serves(srv, net, srv'[x]) /\ Postponed(highest, srv'[x]) /\ srv'[x] \in State
    BY <1>0, <1>8, <1>13 DEF Reads
  <2>. QED
    BY <1>2, <1>8, <1>12, <2>1, ServesOn
<1>15. Leads(srv, srv', LL)
  <2>1. \A x \in Server : Total(srv[x]) \in Nat
    BY <1>2, StateTypes
  <2>2. \A x \in Server : Total(srv'[x]) >= Total(srv[x])
    BY <1>8, <1>13, <2>1
  <2>. QED
    BY <1>11, <2>2 DEF Leads
<1>16. ASSUME NEW m \in net' PROVE InTime(srv', m) /\ MsgTrue(srv', highest, MM, m)
  <2>1. m \in Message /\ MsgTrue(srv, highest, LL, m) /\ highest <= highest
    BY <1>0, <1>2, <1>7 DEF Reads
  <2>. QED
    BY <1>2, <1>7, <1>8, <1>10, <1>15, <2>1, MsgsOn
<1>17. Reads(srv', net', highest, MM)
  BY <1>14, <1>16 DEF Reads
<1>18. Typed(srv', net', highest) /\ FreshAnswers({})
  BY <1>2, <1>7, <1>8 DEF Typed, FreshAnswers
<1>. QED
  BY <1>7, <1>9, <1>10, <1>17, <1>18, ReadInvNext

LEMMA ElectKeeps ==
    ASSUME ReadInv, NEW i \in Server, NEW Q \in SUBSET JointIDs(Voters), Elect(i, Q)
    PROVE  ReadInv'
<1>0. PICK LL \in LeaderLogs, AK \in Taken :
        Cluster(srv, highest, LL, AK) /\ Reads(srv, net, highest, LL)
  BY DEF ReadInv
<1>. DEFINE T == srv[i].Term + 1
            t == becomeLeader(i, srv[i], T)
            f(j) == becomeFollower(srv[j], T, None)
<1>1. Typed(srv, net, highest)
  BY DEF ReadInv
<1>2. /\ srv \in [Server -> State] /\ highest \in Nat /\ net \in SUBSET Message
      /\ \A x \in Server : srv[x] \in State
  BY <1>1 DEF Typed
<1>3. \A x \in Server : srv[x].Term \in Nat /\ Total(srv[x]) \in Nat
  BY <1>2, StateTypes
<1>4. T \in Nat /\ Q \subseteq Server /\ i \in Q
  BY <1>3, ReadIndexAssumption DEF Elect
<1>5. Electable(srv, i, Q, T)
  BY <1>4 DEF Elect, Electable
<1>6. /\ t \in State /\ Leading(t) /\ t.Term = T /\ t.log = Append(srv[i].log, T)
      /\ t.committed = srv[i].committed
      /\ t.Match = [j \in Server |-> IF j = i THEN Len(srv[i].log) ELSE 0]
      /\ t.acks = [j \in Server |-> 0]
      /\ t.unconfirmedReads = <<>> /\ t.confirmedReads = 0
      /\ t.pendingReadIndexMessages = srv[i].pendingReadIndexMessages
  BY <1>2, <1>4, LeaderFields
<1>7. \A j \in Server :
        /\ f(j) \in State /\ ~Leading(f(j)) /\ f(j).Term = T /\ f(j).log = srv[j].log
        /\ f(j).committed = srv[j].committed
        /\ f(j).pendingReadIndexMessages = srv[j].pendingReadIndexMessages
  <2>1. None \in Server \cup {None}
    OBVIOUS
  <2>. QED
    BY <1>2, <1>4, <2>1, FollowerFields, Zenon
<1>8. /\ srv' = [j \in Server |-> CASE j = i -> t
                                    [] j \in Q \ {i} -> f(j)
                                    [] OTHER -> srv[j]]
      /\ net' \subseteq net /\ \A m \in net' : InTime(srv', m)
      /\ readStates' = {} /\ highest' = highest
  <2>1. srv' = [j \in Server |-> CASE j = i -> t
                                   [] j \in Q \ {i} -> f(j)
                                   [] OTHER -> srv[j]]
    BY Zenon DEF Elect
  <2>2. net' = Live(net) /\ readStates' = {} /\ highest' = highest
    BY Zenon DEF Elect
  <2>3. net' \subseteq net /\ \A m \in net' : InTime(srv', m)
    BY <2>2 DEF Live, InTime
  <2>. QED
    BY <2>1, <2>2, <2>3, Zenon
<1>9. \A j \in Q : srv[j].Term < T
  BY <1>5 DEF Electable
<1>. HIDE DEF T, t, f
<1>10. /\ srv'[i] = t /\ \A j \in Q \ {i} : srv'[j] = f(j)
       /\ \A j \in Server \ Q : srv'[j] = srv[j]
  BY <1>4, <1>8
<1>11. srv' \in [Server -> State]
  <2>1. \A j \in Server : srv'[j] \in State
    BY <1>2, <1>4, <1>6, <1>7, <1>10
  <2>2. DOMAIN srv' = Server /\ srv' = [j \in Server |-> srv'[j]]
    BY <1>8
  <2>. QED
    BY <2>1, <2>2
<1>12. Promoted(srv, srv', i, Q, T)
  <2>1. /\ Leading(srv'[i]) /\ srv'[i].Term = T /\ srv'[i].log = Append(srv[i].log, T)
        /\ srv'[i].committed = srv[i].committed
        /\ srv'[i].Match = [j \in Server |-> IF j = i THEN Len(srv[i].log) ELSE 0]
    BY <1>6, <1>10, Zenon
  <2>2. \A j \in Q \ {i} : /\ ~Leading(srv'[j]) /\ srv'[j].Term = T /\ srv'[j].log = srv[j].log
                           /\ srv'[j].committed = srv[j].committed
    BY <1>4, <1>7, <1>10
  <2>. QED
    BY <1>10, <2>1, <2>2, Zenon DEF Promoted
<1>13. /\ LL[T] = <<>> /\ ~committedEntryInCurrentTerm(srv'[i])
       /\ \E MM \in LeaderLogs, BK \in Taken :
            Cluster(srv', highest, MM, BK) /\ \A u \in Nat : LL[u] # <<>> => MM[u] # <<>>
  BY <1>0, <1>2, <1>4, <1>5, <1>11, <1>12, ElectCluster
<1>14. PICK MM \in LeaderLogs, BK \in Taken :
         Cluster(srv', highest, MM, BK) /\ \A u \in Nat : LL[u] # <<>> => MM[u] # <<>>
  BY <1>13
<1>15. Moves(srv, net, srv', net')
  <2>1. \A x \in Server : srv'[x].Term = T \/ srv'[x] = srv[x]
    BY <1>6, <1>7, <1>10
  <2>2. \A x \in Server : x \in Q \/ srv'[x] = srv[x]
    BY <1>10
  <2>3. \A x \in Server : srv'[x].Term >= srv[x].Term
    BY <1>3, <1>4, <1>9, <2>1, <2>2
  <2>. QED
    BY <1>8, <2>3 DEF Moves
<1>16. Serves(srv', net', t)
  <2>1. Total(t) = 0 /\ Len(t.unconfirmedReads) = 0 /\ \A j \in Server : t.acks[j] = 0
    <3>1. Len(t.unconfirmedReads) = 0 /\ t.confirmedReads = 0
      BY <1>6
    <3>. QED
      BY <1>6, <3>1 DEF Total
  <2>2. Asked(t) /\ Fresh(srv', net', t)
    BY <2>1 DEF Asked, Fresh
  <2>3. Released(t)
    BY <1>10, <1>13 DEF Released
  <2>. QED
    BY <2>2, <2>3 DEF Serves
<1>17. ASSUME NEW x \in Server PROVE Serves(srv', net', srv'[x]) /\ Postponed(highest, srv'[x])
  <2>1. Serves(srv, net, srv[x]) /\ Postponed(highest, srv[x]) /\ srv[x] \in State
    BY <1>0, <1>2 DEF Reads
  <2>2. Serves(srv', net', srv[x])
    BY <1>2, <1>11, <1>15, <2>1, ServesOn
  <2>3. Serves(srv', net', srv'[x])
    <3>1. CASE x = i
      BY <1>10, <1>16, <3>1
    <3>2. CASE x \in Q \ {i}
      BY <1>7, <1>10, <3>2 DEF Serves
    <3>3. CASE x \notin Q
      BY <1>10, <2>2, <3>3
    <3>. QED
      BY <3>1, <3>2, <3>3
  <2>4. srv'[x].pendingReadIndexMessages = srv[x].pendingReadIndexMessages
    BY <1>6, <1>7, <1>10
  <2>. QED
    BY <2>1, <2>3, <2>4 DEF Postponed
<1>18. Leads(srv, srv', LL)
  <2>. SUFFICES ASSUME NEW x \in Server, Leading(srv'[x]), LL[srv'[x].Term] # <<>>
                PROVE  /\ Leading(srv[x]) /\ srv'[x].Term = srv[x].Term
                       /\ Total(srv'[x]) >= Total(srv[x])
    BY DEF Leads
  <2>1. srv'[x] = srv[x]
    BY <1>6, <1>7, <1>10, <1>13
  <2>. QED
    BY <1>3, <2>1
<1>19. ASSUME NEW m \in net' PROVE InTime(srv', m) /\ MsgTrue(srv', highest, MM, m)
  <2>1. m \in Message /\ MsgTrue(srv, highest, LL, m) /\ highest <= highest
    BY <1>0, <1>2, <1>8 DEF Reads
  <2>. QED
    BY <1>2, <1>8, <1>11, <1>14, <1>18, <2>1, MsgsOn
<1>20. Reads(srv', net', highest, MM)
  BY <1>17, <1>19 DEF Reads
<1>21. Typed(srv', net', highest) /\ FreshAnswers({})
  BY <1>2, <1>8, <1>11 DEF Typed, FreshAnswers
<1>. QED
  BY <1>8, <1>14, <1>20, <1>21, ReadInvNext

\* The leader before it releases reads: it has the queue of s, and its match
\* of server j and its commit index have moved.
SameQueue(s, b) ==
    /\ b.Term = s.Term /\ b.acks = s.acks /\ b.unconfirmedReads = s.unconfirmedReads
    /\ b.confirmedReads = s.confirmedReads
Matched(s, b, j) ==
    /\ b.Term = s.Term /\ b.state = s.state /\ b.log = s.log
    /\ b.Match = [s.Match EXCEPT ![j] = Len(s.log)]
    /\ \/ b.committed = s.committed
       \/ LET c == JointCommittedIndex(Voters, b.Match)
          IN  /\ c > s.committed /\ s.log[c] = s.Term
              /\ b.committed = larger(s.committed, smaller(c, Len(s.log)))

LEMMA AcknowledgedFacts ==
    ASSUME srv \in [Server -> State], NEW i \in Server, NEW j \in Server
    PROVE  LET s == srv[i]
               a == Acknowledged(i, j)
           IN  \E b \in State :
                 /\ SameQueue(s, b) /\ Matched(s, b, j)
                 /\ \/ /\ a.srv = b /\ a.net = {} /\ (Released(s) => Released(b))
                       /\ b.pendingReadIndexMessages = s.pendingReadIndexMessages
                    \/ /\ b.pendingReadIndexMessages = <<>> /\ s.pendingReadIndexMessages # <<>>
                       /\ committedEntryInCurrentTerm(b)
                       /\ a = Accepted(i, b, s.pendingReadIndexMessages)
<1>. DEFINE s == srv[i]
            n == Len(s.log)
            mt == [s.Match EXCEPT ![j] = n]
            b1 == [s EXCEPT !.Match = mt]
            c == JointCommittedIndex(Voters, mt)
            d == larger(s.committed, smaller(c, n))
            b2 == [b1 EXCEPT !.committed = d]
            b3 == [b2 EXCEPT !.pendingReadIndexMessages = <<>>]
<1>1. /\ s \in State /\ s.Match \in [Server -> Nat] /\ n \in Nat /\ s.committed \in Nat
  BY StateTypes
<1>2. mt \in [Server -> Nat]
  BY <1>1
<1>3. c \in Nat
  BY <1>2, QuorumAcked
<1>4. d \in Nat
  BY <1>1, <1>3 DEF larger, smaller
<1>. HIDE DEF mt, c, d
<1>5. /\ b1 \in State /\ SameQueue(s, b1) /\ b1.Match = mt /\ b1.state = s.state /\ b1.log = s.log
      /\ b1.committed = s.committed
      /\ b1.pendingReadIndexMessages = s.pendingReadIndexMessages
  BY <1>1, <1>2 DEF State, SameQueue
<1>6. b1 = [s EXCEPT !.Match[j] = Len(s.log)]
  BY <1>1 DEF mt, State
<1>. HIDE DEF b1, s
<1>7. /\ b2 \in State /\ SameQueue(s, b2) /\ b2.Match = mt /\ b2.state = s.state /\ b2.log = s.log
      /\ b2.committed = d
      /\ b2.pendingReadIndexMessages = s.pendingReadIndexMessages
  BY <1>4, <1>5 DEF State, SameQueue
<1>8. b2 = commitTo(b1, c)
  BY <1>5 DEF commitTo, d
<1>. HIDE DEF b2
<1>9. /\ b3 \in State /\ SameQueue(s, b3) /\ b3.Match = mt /\ b3.state = s.state /\ b3.log = s.log
      /\ b3.committed = d /\ b3.pendingReadIndexMessages = <<>>
  <2>1. <<>> \in Seq(Req)
    OBVIOUS
  <2>. QED
    BY <1>7, <2>1 DEF State, SameQueue
<1>10. Acknowledged(i, j) =
         IF c > b1.committed /\ b1.log[c] = b1.Term
         THEN releasePendingReadIndexMessages(i, b2)
         ELSE [srv |-> b1, net |-> {}]
  BY <1>5, <1>6, <1>8 DEF Acknowledged, s, c
<1>. HIDE DEF b3
<1>11. CASE ~(c > s.committed /\ s.log[c] = s.Term)
  <2>1. Acknowledged(i, j) = [srv |-> b1, net |-> {}]
    BY <1>5, <1>10, <1>11, Zenon DEF SameQueue
  <2>2. Acknowledged(i, j).srv = b1 /\ Acknowledged(i, j).net = {}
    BY <2>1
  <2>3. Released(s) => Released(b1)
    BY <1>5 DEF Released, committedEntryInCurrentTerm, SameQueue
  <2>4. Matched(s, b1, j)
    BY <1>5 DEF Matched, SameQueue, mt, n
  <2>. QED
    BY <1>5, <2>2, <2>3, <2>4, Zenon DEF s
<1>12. CASE c > s.committed /\ s.log[c] = s.Term
  <2>0. Matched(s, b2, j) /\ Matched(s, b3, j)
    <3>1. d = larger(s.committed, smaller(c, n)) /\ c = JointCommittedIndex(Voters, mt)
      BY DEF c, d
    <3>2. mt = [s.Match EXCEPT ![j] = Len(s.log)]
      BY DEF mt
    <3>. QED
      BY <1>7, <1>9, <1>12, <3>1, <3>2, Zenon DEF Matched, SameQueue, n
  <2>1. Acknowledged(i, j) = releasePendingReadIndexMessages(i, b2)
    BY <1>5, <1>10, <1>12, Zenon DEF SameQueue
  <2>2. CASE b2.pendingReadIndexMessages = <<>> \/ ~committedEntryInCurrentTerm(b2)
    <3>1. Acknowledged(i, j) = [srv |-> b2, net |-> {}]
      BY <2>1, <2>2 DEF releasePendingReadIndexMessages
    <3>2. Acknowledged(i, j).srv = b2 /\ Acknowledged(i, j).net = {}
      BY <3>1
    <3>3. Released(b2)
      BY <2>2 DEF Released
    <3>. QED
      BY <1>7, <2>0, <3>2, <3>3, Zenon DEF s
  <2>3. CASE ~(b2.pendingReadIndexMessages = <<>> \/ ~committedEntryInCurrentTerm(b2))
    <3>1. Acknowledged(i, j) = Accepted(i, b3, b2.pendingReadIndexMessages)
      BY <2>1, <2>3 DEF releasePendingReadIndexMessages, b3
    <3>2. committedEntryInCurrentTerm(b3)
      BY <1>7, <1>9, <2>3 DEF committedEntryInCurrentTerm, SameQueue
    <3>3. s.pendingReadIndexMessages # <<>>
      BY <1>7, <2>3
    <3>. QED
      BY <1>7, <1>9, <2>0, <3>1, <3>2, <3>3, Zenon DEF s
  <2>. QED
    BY <2>2, <2>3
<1>. QED
  BY <1>11, <1>12

\* The follower that takes the log.
LEMMA AppendedFacts ==
    ASSUME srv \in [Server -> State], NEW i \in Server, NEW j \in Server,
           srv[j].Term <= srv[i].Term
    PROVE  LET t == Appended(i, j)
           IN  /\ t \in State /\ t.Term = srv[i].Term /\ t.log = srv[i].log
               /\ Leading(t) => Leading(srv[j]) /\ srv[j].Term = srv[i].Term
               /\ t.committed <= srv[j].committed \/ t.committed <= srv[i].committed
               /\ t.pendingReadIndexMessages = srv[j].pendingReadIndexMessages
<1>. DEFINE o == srv[j]
            f == becomeFollower(o, srv[i].Term, i)
            g == [o EXCEPT !.lead = i]
            s == IF srv[i].Term > o.Term THEN f ELSE g
            u == [s EXCEPT !.log = srv[i].log]
            d == larger(u.committed, smaller(srv[i].committed, Len(u.log)))
            t == [u EXCEPT !.committed = d]
<1>1. /\ o \in State /\ srv[i].Term \in Nat /\ o.Term \in Nat /\ srv[i].committed \in Nat
      /\ o.committed \in Nat /\ srv[i].log \in Seq(Terms) /\ Len(srv[i].log) \in Nat
  BY StateTypes
<1>2. /\ f \in State /\ ~Leading(f) /\ f.Term = srv[i].Term
      /\ f.committed = o.committed /\ f.pendingReadIndexMessages = o.pendingReadIndexMessages
  <2>1. i \in Server \cup {None} /\ o \in State /\ srv[i].Term \in Nat
    BY <1>1
  <2>. DEFINE T == srv[i].Term
  <2>. HIDE DEF o, T
  <2>2. LET y == becomeFollower(o, T, i)
        IN  /\ y \in State /\ ~Leading(y) /\ y.Term = T /\ y.log = o.log
            /\ y.committed = o.committed
            /\ y.pendingReadIndexMessages = o.pendingReadIndexMessages
    BY <2>1, FollowerFields, Zenon DEF T
  <2>. QED
    BY <2>2, Zenon DEF T
<1>3. /\ g \in State /\ g.state = o.state /\ g.Term = o.Term
      /\ g.committed = o.committed /\ g.pendingReadIndexMessages = o.pendingReadIndexMessages
  BY <1>1 DEF State
<1>4. Appended(i, j) = t
  BY Zenon DEF Appended, commitTo
<1>. HIDE DEF f, g, o
<1>5. /\ s \in State /\ s.Term = srv[i].Term /\ s.committed = o.committed
      /\ s.pendingReadIndexMessages = o.pendingReadIndexMessages
      /\ Leading(s) => Leading(o) /\ o.Term = srv[i].Term
  <2>1. o.Term <= srv[i].Term
    BY DEF o
  <2>2. CASE srv[i].Term > o.Term
    BY <1>2, <2>2
  <2>3. CASE ~(srv[i].Term > o.Term)
    <3>1. o.Term = srv[i].Term
      BY <1>1, <2>1, <2>3
    <3>. QED
      BY <1>3, <2>3, <3>1 DEF Leading
  <2>. QED
    BY <2>2, <2>3
<1>. HIDE DEF s
<1>6. /\ u \in State /\ u.Term = srv[i].Term /\ u.committed = o.committed /\ u.state = s.state
      /\ u.log = srv[i].log /\ u.pendingReadIndexMessages = o.pendingReadIndexMessages
  BY <1>1, <1>5 DEF State
<1>. HIDE DEF u
<1>7. d \in Nat /\ (d <= o.committed \/ d <= srv[i].committed)
  BY <1>1, <1>6 DEF larger, smaller
<1>. HIDE DEF d
<1>8. /\ t \in State /\ t.Term = srv[i].Term /\ t.committed = d /\ t.state = s.state
      /\ t.log = srv[i].log /\ t.pendingReadIndexMessages = o.pendingReadIndexMessages
  BY <1>6, <1>7 DEF State
<1>. HIDE DEF t
<1>. QED
  BY <1>4, <1>5, <1>7, <1>8 DEF Leading, o

LEMMA ReplicateKeeps ==
    ASSUME ReadInv, NEW i \in Server, NEW j \in Server, Replicate(i, j)
    PROVE  ReadInv'
<1>0. PICK LL \in LeaderLogs, AK \in Taken :
        Cluster(srv, highest, LL, AK) /\ Reads(srv, net, highest, LL)
  BY DEF ReadInv
<1>. DEFINE s == srv[i]
            a == Acknowledged(i, j)
            t == a.srv
            p == s.pendingReadIndexMessages
<1>1. Typed(srv, net, highest)
  BY DEF ReadInv
<1>2. /\ srv \in [Server -> State] /\ highest \in Nat /\ s \in State /\ net \in SUBSET Message
      /\ Serves(srv, net, s) /\ Postponed(highest, s) /\ Leading(s)
      /\ LL[s.Term] # <<>> /\ srv[j].Term <= s.Term
      /\ \A m \in net : m.type = "MsgHeartbeatResp" /\ m.Term = s.Term =>
                            m.ctx \in Nat /\ m.ctx <= Total(s)
  BY <1>0, <1>1, ServerFacts DEF Replicate, Heartbeats, Typed
<1>3. \A x \in Server : srv[x] \in State /\ srv[x].Term \in Nat /\ Total(srv[x]) \in Nat
  BY <1>2, StateTypes
<1>4. PICK b \in State :
        /\ SameQueue(s, b) /\ Matched(s, b, j)
        /\ \/ /\ a.srv = b /\ a.net = {} /\ (Released(s) => Released(b))
              /\ b.pendingReadIndexMessages = p
           \/ /\ b.pendingReadIndexMessages = <<>> /\ p # <<>>
              /\ committedEntryInCurrentTerm(b) /\ a = Accepted(i, b, p)
  BY <1>2, AcknowledgedFacts
<1>5. /\ srv' = [k \in Server |-> CASE k = i -> t
                                    [] k = j /\ k # i -> Appended(i, j)
                                    [] OTHER -> srv[k]]
      /\ net' = Live(net \cup a.net) /\ highest' = larger(highest, t.committed)
      /\ readStates' = {}
  BY Zenon DEF Replicate
<1>6. net' \subseteq net \cup a.net /\ \A m \in net' : InTime(srv', m)
  BY <1>5 DEF Live, InTime
<1>. HIDE DEF s, a
<1>7. p \in Seq(Req)
  BY <1>2, StateTypes
<1>8. /\ t \in State /\ t.Term = b.Term /\ t.state = b.state /\ t.log = b.log
      /\ t.committed = b.committed /\ t.Match = b.Match
      /\ Total(t) >= Total(b) /\ a.net \in SUBSET Message
      /\ \A m \in a.net : m.type = "MsgHeartbeat" /\ m.Term = b.Term /\ m.ctx <= Total(t)
      /\ t.pendingReadIndexMessages \in {p, <<>>}
  <2>1. Total(b) \in Nat
    BY StateTypes
  <2>2. CASE a.srv = b /\ a.net = {} /\ b.pendingReadIndexMessages = p
    BY <2>1, <2>2
  <2>3. CASE b.pendingReadIndexMessages = <<>> /\ p # <<>> /\ a = Accepted(i, b, p)
    <3>1. /\ t \in State /\ t.Term = b.Term /\ t.state = b.state /\ t.log = b.log
          /\ t.committed = b.committed /\ t.Match = b.Match
          /\ t.pendingReadIndexMessages = b.pendingReadIndexMessages
          /\ Total(t) = Total(b) + Len(p) /\ a.net \subseteq Message
          /\ \A m \in a.net : m.type = "MsgHeartbeat" /\ m.Term = b.Term /\ m.ctx <= Total(t)
      BY <1>7, <2>3, AcceptedFields
    <3>2. Len(p) \in Nat
      BY <1>7
    <3>3. Total(t) >= Total(b)
      BY <2>1, <3>1, <3>2
    <3>. QED
      BY <2>3, <3>1, <3>3
  <2>. QED
    BY <1>4, <2>2, <2>3
<1>. HIDE DEF p, t
<1>9. /\ Total(b) = Total(s) /\ b.Term = s.Term /\ (Asked(s) => Asked(b))
      /\ Fresh(srv, net, s) => Fresh(srv, net, b)
  BY <1>4, SameReads DEF SameQueue
<1>10. /\ t.Term = s.Term /\ t.state = s.state /\ Leading(t) /\ t.log = s.log
       /\ t.Match = [s.Match EXCEPT ![j] = Len(s.log)]
       /\ \/ t.committed = s.committed
          \/ LET c == JointCommittedIndex(Voters, t.Match)
             IN  /\ c > s.committed /\ s.log[c] = s.Term
                 /\ t.committed = larger(s.committed, smaller(c, Len(s.log)))
  BY <1>2, <1>4, <1>8, Zenon DEF Matched, Leading
<1>11. LET u == Appended(i, j)
       IN  /\ u \in State /\ u.Term = s.Term /\ u.log = s.log
           /\ Leading(u) => Leading(srv[j]) /\ srv[j].Term = s.Term
           /\ u.committed <= srv[j].committed \/ u.committed <= s.committed
           /\ u.pendingReadIndexMessages = srv[j].pendingReadIndexMessages
  BY <1>2, AppendedFacts DEF s
<1>12. /\ srv'[i] = t /\ (j # i => srv'[j] = Appended(i, j))
       /\ \A x \in Server \ {i, j} : srv'[x] = srv[x]
  BY <1>5
<1>13. srv' \in [Server -> State]
  <2>1. \A x \in Server : srv'[x] \in State
    BY <1>3, <1>8, <1>11, <1>12
  <2>2. DOMAIN srv' = Server /\ srv' = [x \in Server |-> srv'[x]]
    BY <1>5
  <2>. QED
    BY <2>1, <2>2
<1>14. highest' \in Nat /\ highest <= highest'
  <2>1. t.committed \in Nat
    BY <1>8, StateTypes
  <2>. QED
    BY <1>2, <1>5, <2>1 DEF larger
<1>15. Copied(srv, srv', highest, highest', i, j)
  <2>1. j # i => /\ Leading(srv'[j]) => Leading(srv[j]) /\ srv[j].Term = srv[i].Term
                 /\ srv'[j].Term = srv[i].Term /\ srv'[j].log = srv[i].log
                 /\ \/ srv'[j].committed <= srv[j].committed
                    \/ srv'[j].committed <= srv[i].committed
    BY <1>11, <1>12, Zenon DEF s
  <2>. QED
    BY <1>5, <1>10, <1>12, <2>1, Zenon DEF Copied, s
<1>16. PICK BK \in Taken : Cluster(srv', highest', LL, BK)
  BY <1>0, <1>2, <1>13, <1>14, <1>15, ReplicateCluster DEF s
<1>17. Moves(srv, net, srv', net')
  <2>1. \A x \in Server : srv'[x].Term = s.Term \/ srv'[x] = srv[x]
    BY <1>10, <1>11, <1>12
  <2>2. \A x \in Server : srv'[x].Term >= srv[x].Term
    <3>1. \A x \in Server : x \in {i, j} => srv[x].Term <= s.Term /\ srv'[x].Term = s.Term
      BY <1>2, <1>3, <1>10, <1>11, <1>12 DEF s
    <3>2. \A x \in Server : x \notin {i, j} => srv'[x] = srv[x]
      BY <1>12
    <3>3. s.Term \in Nat
      BY <1>2, StateTypes
    <3>. QED
      BY <1>3, <3>1, <3>2, <3>3
  <2>3. \A m \in net' : m \in net \/ m.type # "MsgHeartbeatResp"
    BY <1>6, <1>8
  <2>. QED
    BY <2>2, <2>3 DEF Moves
<1>18. Asked(b) /\ Fresh(srv', net', b)
  <2>1. Asked(b) /\ Fresh(srv, net, b)
    BY <1>2, <1>9 DEF Serves
  <2>. QED
    BY <1>2, <1>13, <1>17, <2>1, ServesOn
<1>19. Serves(srv', net', t)
  <2>1. CASE a.srv = b /\ (Released(s) => Released(b))
    <3>1. Released(b) /\ t = b
      BY <1>2, <2>1 DEF Serves, t
    <3>. QED
      BY <1>18, <3>1 DEF Serves
  <2>2. CASE /\ b.pendingReadIndexMessages = <<>> /\ p # <<>>
             /\ committedEntryInCurrentTerm(b) /\ a = Accepted(i, b, p)
    <3>1. \A m \in net' : m.type = "MsgHeartbeatResp" /\ m.Term = b.Term =>
                              m.ctx \in Nat /\ m.ctx <= Total(b)
      BY <1>2, <1>6, <1>8, <1>9
    <3>2. \/ \A k \in 1..Len(p) : p[k].ctx <= b.committed
          \/ ~IsJointQuorum(Voters, {x \in Server : srv'[x].Term <= b.Term})
      <4>. SUFFICES ASSUME IsJointQuorum(Voters, {x \in Server : srv'[x].Term <= b.Term}),
                           NEW k \in 1..Len(p)
                    PROVE  p[k].ctx <= b.committed
        OBVIOUS
      <4>1. committedEntryInCurrentTerm(t) /\ srv'[i] = t /\ Leading(t) /\ t.Term = b.Term
        BY <1>8, <1>10, <1>12, <2>2 DEF committedEntryInCurrentTerm
      <4>2. t.committed <= Len(t.log)
        <5>1. Backed(LL, BK, srv'[i].Term, srv'[i].committed) /\ srv'[i].committed \in Nat
          BY <1>13, <1>16, StateTypes DEF Cluster
        <5>. QED
          BY <1>13, <1>14, <1>16, <4>1, <5>1, LeaderHas
      <4>3. highest' <= t.committed
        BY <1>13, <1>14, <1>16, <4>1, <4>2, LeaderKnows
      <4>4. p[k].ctx <= highest /\ p[k] \in Req
        BY <1>2, <1>7 DEF Postponed, p
      <4>5. p[k].ctx \in Nat /\ b.committed \in Nat /\ t.committed = b.committed
        BY <1>8, <4>4, StateTypes DEF Req
      <4>. QED
        BY <1>2, <1>14, <4>3, <4>4, <4>5
    <3>3. srv'[i].Term = b.Term
      BY <1>8, <1>12
    <3>. QED
      BY <1>7, <1>13, <1>18, <2>2, <3>1, <3>2, <3>3, AcceptedServes DEF t
  <2>. QED
    BY <1>4, <2>1, <2>2
<1>20. j # i => ~Leading(srv'[j])
  <2>1. OneLeader(srv)
    BY <1>0 DEF Cluster
  <2>. QED
    BY <1>2, <1>11, <1>12, <2>1 DEF OneLeader, s
<1>21. ASSUME NEW x \in Server PROVE Serves(srv', net', srv'[x]) /\ Postponed(highest', srv'[x])
  <2>1. Serves(srv, net, srv[x]) /\ Postponed(highest, srv[x]) /\ srv[x] \in State
    BY <1>0, <1>3 DEF Reads
  <2>2. Serves(srv', net', srv[x])
    BY <1>2, <1>13, <1>17, <2>1, ServesOn
  <2>3. Serves(srv', net', srv'[x])
    <3>1. CASE x = i
      BY <1>12, <1>19, <3>1
    <3>2. CASE x = j /\ j # i
      BY <1>20, <3>2 DEF Serves
    <3>3. CASE x \notin {i, j}
      BY <1>12, <2>2, <3>3
    <3>. QED
      BY <3>1, <3>2, <3>3
  <2>. DEFINE q == srv[x].pendingReadIndexMessages
  <2>4. srv'[x].pendingReadIndexMessages \in {q, <<>>}
    BY <1>8, <1>11, <1>12 DEF s, p
  <2>5. \A k \in 1..Len(q) : q[k].ctx <= highest'
    <3>1. q \in Seq(Req)
      BY <2>1, StateTypes
    <3>2. \A k \in 1..Len(q) : q[k].ctx \in Nat
      <4>1. \A k \in 1..Len(q) : q[k] \in Req
        BY <3>1
      <4>. QED
        BY <4>1 DEF Req
    <3>3. \A k \in 1..Len(q) : q[k].ctx <= highest
      BY <2>1 DEF Postponed
    <3>. HIDE DEF q
    <3>. QED
      BY <1>2, <1>14, <3>2, <3>3
  <2>6. Postponed(highest', srv'[x])
    <3>1. Len(<<>>) = 0
      OBVIOUS
    <3>. QED
      BY <2>4, <2>5, <3>1 DEF Postponed
  <2>. QED
    BY <2>3, <2>6
<1>22. Leads(srv, srv', LL)
  <2>. SUFFICES ASSUME NEW x \in Server, Leading(srv'[x])
                PROVE  /\ Leading(srv[x]) /\ srv'[x].Term = srv[x].Term
                       /\ Total(srv'[x]) >= Total(srv[x])
    BY DEF Leads
  <2>1. CASE x = i
    BY <1>2, <1>8, <1>9, <1>10, <1>12, <2>1 DEF s
  <2>2. CASE x # i
    BY <1>3, <1>12, <1>20, <2>2
  <2>. QED
    BY <2>1, <2>2
<1>23. ASSUME NEW m \in net' PROVE InTime(srv', m) /\ MsgTrue(srv', highest', LL, m)
  <2>1. CASE m \in net
    <3>1. m \in Message /\ MsgTrue(srv, highest, LL, m)
      BY <1>0, <1>2, <2>1 DEF Reads
    <3>. QED
      BY <1>2, <1>6, <1>13, <1>14, <1>22, <3>1, MsgsOn
  <2>2. CASE m \in a.net
    <3>1. m.type = "MsgHeartbeat" /\ m.Term = srv'[i].Term /\ m.ctx <= Total(srv'[i])
      BY <1>8, <1>12, <2>2
    <3>2. OneLeader(srv') /\ Leading(srv'[i]) /\ LL[srv'[i].Term] # <<>>
      BY <1>2, <1>10, <1>12, <1>16 DEF Cluster
    <3>. QED
      BY <1>6, <1>13, <3>1, <3>2, LeaderSends
  <2>. QED
    BY <1>6, <2>1, <2>2
<1>24. Reads(srv', net', highest', LL)
  BY <1>21, <1>23 DEF Reads
<1>25. Typed(srv', net', highest') /\ FreshAnswers({})
  BY <1>2, <1>6, <1>8, <1>13, <1>14 DEF Typed, FreshAnswers
<1>. QED
  BY <1>5, <1>16, <1>24, <1>25, ReadInvNext

-----------------------------------------------------------------------------
(* The invariant.                                                          *)

\* The bootstrap is the log of the leader of term 1, which all have taken.
LEMMA ReadInit == Init => ReadInv
<1>. SUFFICES ASSUME Init PROVE ReadInv
  OBVIOUS
<1>. DEFINE one == <<1>>
            LL == [t \in Nat |-> IF t = 1 THEN one ELSE <<>>]
            AK == [j \in Server |-> [t \in Nat |-> IF t = 1 THEN 1 ELSE 0]]
<1>1. /\ one \in Seq(Terms) /\ <<>> \in Seq(Terms) /\ <<>> \in Seq(Read) /\ <<>> \in Seq(Req)
      /\ Len(one) = 1 /\ one[1] = 1 /\ one # <<>>
  <2>1. 1 \in Terms
    BY DEF Terms
  <2>. QED
    BY <2>1
<1>2. Bootstrap = [newRaft EXCEPT !.Term = 1, !.log = one, !.committed = 1]
  BY DEF Bootstrap
<1>. HIDE DEF one
<1>3. LL \in LeaderLogs /\ LL[1] = one /\ \A t \in Nat : t # 1 => LL[t] = <<>>
  BY <1>1 DEF LeaderLogs
<1>4. AK \in Taken /\ \A j \in Server : AK[j][1] = 1 /\ \A t \in Nat : t # 1 => AK[j][t] = 0
  BY DEF Taken
<1>. HIDE DEF LL, AK
<1>5. \A i \in Server :
        /\ srv[i] \in State /\ srv[i].Term = 1 /\ srv[i].log = one /\ srv[i].committed = 1
        /\ ~Leading(srv[i]) /\ srv[i].pendingReadIndexMessages = <<>>
  <2>1. [j \in Server |-> 0] \in [Server -> Nat]
    OBVIOUS
  <2>2. LET b == Bootstrap
        IN  /\ b \in State /\ b.Term = 1 /\ b.log = one /\ b.committed = 1
            /\ b.state = "StateFollower" /\ b.pendingReadIndexMessages = <<>>
    BY <1>1, <1>2, <2>1 DEF newRaft, State
  <2>3. \A i \in Server : srv[i] = Bootstrap
    BY DEF Init
  <2>. QED
    BY <2>2, <2>3 DEF Leading
<1>6. srv \in [Server -> State] /\ net = {} /\ highest = 1 /\ readStates = {}
  <2>1. srv = [i \in Server |-> srv[i]]
    BY DEF Init
  <2>. QED
    BY <1>5, <2>1 DEF Init
<1>7. Typed(srv, net, highest) /\ ReadIsFresh
  BY <1>6 DEF Typed, ReadIsFresh
<1>8. last(one) = 1 /\ Agree(one, one, 1)
  BY <1>1 DEF last, Agree
<1>9. \A i \in Server : LogOf(LL, srv[i]) /\ LeaderOf(LL, AK, srv[i]) /\ Holds(AK, i, srv[i])
  <2>1. \A i \in Server : LogOf(LL, srv[i])
    <3>1. 1 \in Nat /\ 1 <= 1
      OBVIOUS
    <3>. QED
      BY <1>1, <1>3, <1>5, <1>8, <3>1, Zenon DEF LogOf
  <2>2. \A i \in Server : LeaderOf(LL, AK, srv[i])
    BY <1>5 DEF LeaderOf
  <2>3. \A i \in Server : Holds(AK, i, srv[i])
    BY <1>1, <1>4, <1>5, <1>8 DEF Holds
  <2>. QED
    BY <2>1, <2>2, <2>3
<1>10. Certified(LL, AK, 1, 1)
  <2>1. IsJointQuorum(Voters, {j \in Server : AK[j][1] >= 1})
    <3>1. \A j \in Server : AK[j][1] >= 1
      BY <1>4
    <3>. QED
      BY <3>1, AllServers, ServersGrow
  <2>. QED
    BY <1>1, <1>3, <2>1 DEF Certified
<1>11. \A i \in Server : Backed(LL, AK, srv[i].Term, srv[i].committed) /\ srv[i].committed <= highest
  <2>1. 1 \in 0..1 /\ 1 \in Nat /\ 1 <= 1
    OBVIOUS
  <2>2. Backed(LL, AK, 1, 1)
    BY <1>10, <2>1 DEF Backed
  <2>. QED
    BY <1>5, <1>6, <2>2
<1>12. Known(srv, highest, LL, AK)
  <2>1. 1 \in Nat /\ highest <= 1
    BY <1>6
  <2>2. \A x \in Server : ~Leading(srv[x])
    BY <1>5
  <2>. QED
    BY <1>10, <2>1, <2>2 DEF Known
<1>13. Elected(srv, LL)
  <2>. SUFFICES ASSUME NEW t \in Nat, LL[t] # <<>>
                PROVE  IsJointQuorum(Voters, {j \in Server : srv[j].Term >= t})
    BY DEF Elected
  <2>1. t = 1
    BY <1>3
  <2>2. \A j \in Server : srv[j].Term >= t
    BY <1>5, <2>1
  <2>. QED
    BY <2>2, AllServers, ServersGrow
<1>14. Sorted(LL)
  <2>. SUFFICES ASSUME NEW t \in Nat, NEW k \in 1..Len(LL[t])
                PROVE  LL[t][k] \in Nat /\ LL[t][k] <= t /\ \A n \in 1..k : LL[t][n] <= LL[t][k]
    BY DEF Sorted
  <2>1. t = 1 /\ k = 1
    <3>1. Len(<<>>) = 0
      OBVIOUS
    <3>2. t = 1
      BY <1>3, <3>1
    <3>. QED
      BY <1>1, <1>3, <3>2
  <2>. QED
    BY <1>1, <1>3, <2>1
<1>15. OneLeader(srv)
  BY <1>5 DEF OneLeader
<1>16. \A j \in Server : \A t \in Nat : AK[j][t] <= Len(LL[t])
  <2>1. Len(<<>>) = 0
    OBVIOUS
  <2>. QED
    BY <1>1, <1>3, <1>4, <2>1
<1>17. Complete(srv, LL, AK)
  <2>. SUFFICES ASSUME NEW t \in Nat, NEW u \in Nat, t < u, LL[u] # <<>>, NEW k \in 1..Len(LL[t])
                PROVE  FALSE
    BY DEF Complete
  <2>1. Len(<<>>) = 0
    OBVIOUS
  <2>2. u = 1 /\ t # 1
    BY <1>3
  <2>. QED
    BY <1>3, <2>1, <2>2
<1>18. Cluster(srv, highest, LL, AK)
  BY <1>9, <1>11, <1>12, <1>13, <1>14, <1>15, <1>16, <1>17 DEF Cluster
<1>19. Reads(srv, net, highest, LL)
  <2>1. Len(<<>>) = 0
    OBVIOUS
  <2>. QED
    BY <1>5, <1>6, <2>1 DEF Reads, Serves, Postponed
<1>. QED
  BY <1>3, <1>4, <1>7, <1>18, <1>19 DEF ReadInv

LEMMA ReadNext ==
    ASSUME ~IsSingleton, ReadInv, [Next]_vars
    PROVE  ReadInv'
<1>1. CASE UNCHANGED vars
  BY <1>1 DEF vars, ReadInv, ReadIsFresh
<1>2. ASSUME NEW i \in Server,
             \/ \E Q \in SUBSET JointIDs(Voters) : Elect(i, Q)
             \/ \E j \in JointIDs(Voters) : Replicate(i, j)
             \/ ReadIndex(i) \/ Tick(i) \/ Propose(i) \/ Restart(i)
      PROVE  ReadInv'
  <2>1. CASE \E Q \in SUBSET JointIDs(Voters) : Elect(i, Q)
    BY <2>1, ElectKeeps
  <2>2. CASE \E j \in JointIDs(Voters) : Replicate(i, j)
    BY <2>2, ReplicateKeeps, ReadIndexAssumption
  <2>3. CASE ReadIndex(i)
    BY <2>3, ReadIndexKeeps
  <2>4. CASE Tick(i) \/ Propose(i) \/ Restart(i)
    BY <2>4, TickKeeps, ProposeKeeps, RestartKeeps
  <2>. QED
    BY <1>2, <2>1, <2>2, <2>3, <2>4
<1>3. ASSUME NEW m \in net,
             \/ RecvReadIndex(m) \/ RecvHeartbeat(m) \/ RecvHeartbeatResp(m)
             \/ RecvReadIndexResp(m) \/ Lose(m)
      PROVE  ReadInv'
  BY <1>3, RecvReadIndexKeeps, RecvHeartbeatKeeps, RecvHeartbeatRespKeeps,
     RecvReadIndexRespKeeps, LoseKeeps
<1>. QED
  BY <1>1, <1>2, <1>3 DEF Next

(***************************************************************************)
(* The invariant behind the reads, for every configuration of more than    *)
(* one voter (the only one answers a read at once, and after a restart may *)
(* not know its commits). There are logs of leaders and acknowledgements   *)
(* of them such that a leader has what a quorum has taken or still may,    *)
(* and each read that a leader holds is fresh or can no longer be          *)
(* confirmed: too many voters have left its term without having answered a *)
(* heartbeat that was sent after it.                                       *)
(***************************************************************************)
THEOREM ReadInductive ==
    ASSUME ~IsSingleton
    PROVE  Spec => []ReadInv
<1>1. ReadInv /\ [Next]_vars => ReadInv'
  BY ReadNext
<1>. QED
  BY <1>1, ReadInit, PTL DEF Spec

(***************************************************************************)
(* Reads are linearizable: the index that responseToReadIndexReq gives an  *)
(* application is no older than what any server knew committed when the    *)
(* read was asked, with messages lost, late or out of order, leaders that  *)
(* do not know they are deposed, and restarts.                             *)
(***************************************************************************)
THEOREM ReadsAreFresh ==
    ASSUME ~IsSingleton
    PROVE  Spec => []ReadIsFresh
<1>1. ReadInv => ReadIsFresh
  BY DEF ReadInv
<1>. QED
  BY <1>1, ReadInductive, PTL

(***************************************************************************)
(* The positions that recvAck stores come from heartbeats of this leader   *)
(* and this term: maybeAdvance never slices past unconfirmedReads.         *)
(***************************************************************************)
THEOREM PositionsWereAsked ==
    ASSUME ~IsSingleton
    PROVE  Spec => []ConfirmedWereAsked
<1>1. ReadInv => ConfirmedWereAsked
  <2>. SUFFICES ASSUME ReadInv, NEW i \in Server, Leading(srv[i])
                PROVE  /\ confirmable(srv[i]) <= Len(srv[i].unconfirmedReads)
                       /\ \A j \in Server : srv[i].acks[j] <=
                            srv[i].confirmedReads + Len(srv[i].unconfirmedReads)
    BY DEF ConfirmedWereAsked
  <2>1. srv[i] \in State /\ Asked(srv[i])
    BY DEF ReadInv, Typed, Reads, Serves
  <2>2. Len(srv[i].unconfirmedReads) \in Nat
    BY <2>1, StateTypes
  <2>3. confirmable(srv[i]) \in 0..Len(srv[i].unconfirmedReads)
    BY <2>1, ConfirmableIsAsked
  <2>4. confirmable(srv[i]) <= Len(srv[i].unconfirmedReads)
    BY <2>2, <2>3
  <2>. QED
    BY <2>1, <2>4 DEF Asked, Total
<1>. QED
  BY <1>1, ReadInductive, PTL

(***************************************************************************)
(* releasePendingReadIndexMessages forgets nobody: a leader that has       *)
(* committed in its term holds no postponed read.                          *)
(***************************************************************************)
THEOREM NoReadForgotten ==
    ASSUME ~IsSingleton
    PROVE  Spec => []PostponedAreReleased
<1>1. ReadInv => PostponedAreReleased
  BY DEF ReadInv, PostponedAreReleased, Reads, Serves, Released
<1>. QED
  BY <1>1, ReadInductive, PTL
=============================================================================
