---------------------------- MODULE QuorumProofs ----------------------------
(***************************************************************************)
(* What package quorum promises, for configurations of any size: a won     *)
(* vote and a committed index are each backed by a majority of both        *)
(* halves, a lost vote cannot be won any more, and quorums of one          *)
(* configuration, and of two that follow each other, share a voter.        *)
(***************************************************************************)
EXTENDS Quorums, FiniteSetTheorems, WellFoundedInduction, TLAPS

(***************************************************************************)
(* A non-empty set of naturals has a least element, and a bounded one a    *)
(* greatest: what the sorting in CommittedIndex, the searches of the log   *)
(* and FreeLE choose exists.                                               *)
(***************************************************************************)
LEMMA LeastExists ==
    ASSUME NEW S, S \subseteq Nat, S # {}
    PROVE  \E x \in S : \A y \in S : x <= y
<1>1. IsWellFoundedOn(OpToRel(<, Nat), Nat)
  BY NatLessThanWellFounded
<1>2. PICK x \in S : \A y \in S : ~(<<y, x>> \in OpToRel(<, Nat))
  BY <1>1, WFMin, Zenon
<1>3. \A y \in S : ~(y < x)
  BY <1>2 DEF OpToRel
<1>. QED
  BY <1>3

\* A nonempty set of naturals below a bound has a largest member.
LEMMA GreatestExists ==
    ASSUME NEW S, S \subseteq Nat, S # {}, NEW n \in Nat, \A x \in S : x <= n
    PROVE  \E x \in S : \A y \in S : y <= x
<1>. DEFINE T == {n - x : x \in S}
<1>1. T \subseteq Nat /\ T # {}
  <2>1. \A x \in S : n - x \in Nat
    OBVIOUS
  <2>2. PICK x \in S : TRUE
    OBVIOUS
  <2>3. n - x \in T
    OBVIOUS
  <2>. QED
    BY <2>1, <2>3
<1>2. PICK t \in T : \A u \in T : t <= u
  BY <1>1, LeastExists
<1>3. PICK x \in S : t = n - x
  BY <1>2
<1>4. \A y \in S : n - x <= n - y
  BY <1>2, <1>3
<1>. QED
  BY <1>4

(***************************************************************************)
(* Two majorities of the same voters share one of them.                    *)
(***************************************************************************)
THEOREM MajoritiesMeet ==
    ASSUME NEW c, IsFiniteSet(c), c # {}, NEW Q, NEW R,
           IsMajority(c, Q), IsMajority(c, R)
    PROVE  \E id \in c : id \in Q /\ id \in R
<1>1. /\ Cardinality(c) \in Nat
      /\ Cardinality(c \cap Q) \in Nat
      /\ Cardinality(c \cap R) \in Nat
  BY FS_Intersection, FS_CardinalityType
<1>2. Cardinality(c \cap Q) + Cardinality(c \cap R) > Cardinality(c)
  BY <1>1 DEF IsMajority
<1>3. (c \cap Q) \cap (c \cap R) # {}
  BY <1>2, FS_MajoritiesIntersect, Zenon
<1>. QED
  BY <1>3

(***************************************************************************)
(* Majorities of two configurations, of which the second has at most one   *)
(* voter more than the first, share a voter of the first: what Changer     *)
(* relies on when it lets Simple change one voter without a joint state.   *)
(***************************************************************************)
LEMMA GrownMajoritiesMeet ==
    ASSUME NEW c, NEW d, IsFiniteSet(d), c \subseteq d, c # {}, Cardinality(d \ c) <= 1,
           NEW P, NEW Q, IsMajority(c, P), IsMajority(d, Q)
    PROVE  \E id \in c : id \in P /\ id \in Q
<1>1. IsFiniteSet(c) /\ IsFiniteSet(d \ c) /\ IsFiniteSet(c \cap P) /\ IsFiniteSet(d \cap Q)
  BY FS_Subset
<1>2. PICK n \in Nat, m \in Nat, p \in Nat, q \in Nat, x \in Nat :
        /\ n = Cardinality(c) /\ m = Cardinality(d) /\ x = Cardinality(d \ c)
        /\ p = Cardinality(c \cap P) /\ q = Cardinality(d \cap Q)
  BY <1>1, FS_CardinalityType
<1>3. m = n + x
  <2>1. Cardinality(d \ c) = Cardinality(d) - Cardinality(d \cap c)
    BY FS_Difference, <1>1
  <2>2. d \cap c = c
    OBVIOUS
  <2>. QED
    BY <1>2, <2>1, <2>2
<1>4. 2 * p > n /\ 2 * q > m
  BY <1>2 DEF IsMajority
<1>5. p + q > m
  BY <1>2, <1>3, <1>4
<1>6. (c \cap P) \cap (d \cap Q) # {}
  <2>1. c \cap P \subseteq d /\ d \cap Q \subseteq d
    OBVIOUS
  <2>2. Cardinality(c \cap P) + Cardinality(d \cap Q) > Cardinality(d)
    BY <1>2, <1>5
  <2>. QED
    BY <2>1, <2>2, FS_MajoritiesIntersect, Zenon
<1>. QED
  BY <1>6

(***************************************************************************)
(* How a configuration cc may become dd: confchange.Simple, which refuses  *)
(* a larger symdiff, EnterJoint, which keeps the old voters as the         *)
(* outgoing half, LeaveJoint, which drops that half, or not at all.        *)
(***************************************************************************)
Neighbours(cc, dd) ==
    \/ /\ cc[2] = {} /\ dd[2] = {}
       /\ Cardinality(cc[1] \ dd[1]) + Cardinality(dd[1] \ cc[1]) <= 1
    \/ cc[2] = {} /\ dd[2] = cc[1]
    \/ dd[1] = cc[1] /\ dd[2] = {}
    \/ dd = cc

(***************************************************************************)
(* Every quorum before a change and every quorum after it share a server,  *)
(* for configurations of any size: whoever counts by the old configuration *)
(* while others are in the new one cannot decide without them.             *)
(***************************************************************************)
THEOREM NeighboursMeet ==
    ASSUME NEW cc, NEW dd, Neighbours(cc, dd), NEW P, NEW Q,
           IsFiniteSet(cc[1]), IsFiniteSet(dd[1]), cc[1] # {}, dd[1] # {},
           IsJointQuorum(cc, P), IsJointQuorum(dd, Q)
    PROVE  P \cap Q # {}
<1>1. IsMajority(cc[1], P) /\ IsMajority(dd[1], Q) /\ IsMajority(dd[2], Q)
  BY DEF IsJointQuorum
<1>2. CASE Cardinality(cc[1] \ dd[1]) + Cardinality(dd[1] \ cc[1]) <= 1
  <2>1. PICK x \in Nat, y \in Nat :
          x = Cardinality(cc[1] \ dd[1]) /\ y = Cardinality(dd[1] \ cc[1])
    <3>1. IsFiniteSet(cc[1] \ dd[1]) /\ IsFiniteSet(dd[1] \ cc[1])
      BY FS_Subset
    <3>. QED
      BY <3>1, FS_CardinalityType
  <2>2. x = 0 \/ y = 0
    BY <1>2, <2>1
  <2>3. CASE x = 0
    <3>1. cc[1] \subseteq dd[1]
      <4>1. IsFiniteSet(cc[1] \ dd[1])
        BY FS_Subset
      <4>2. cc[1] \ dd[1] = {}
        BY <2>1, <2>3, <4>1, FS_EmptySet
      <4>. QED
        BY <4>2
    <3>2. Cardinality(dd[1] \ cc[1]) <= 1
      BY <1>2, <2>1
    <3>3. \E id \in cc[1] : id \in P /\ id \in Q
      BY <1>1, <3>1, <3>2, GrownMajoritiesMeet
    <3>. QED
      BY <3>3
  <2>4. CASE y = 0
    <3>1. dd[1] \subseteq cc[1]
      <4>1. IsFiniteSet(dd[1] \ cc[1])
        BY FS_Subset
      <4>2. dd[1] \ cc[1] = {}
        BY <2>1, <2>4, <4>1, FS_EmptySet
      <4>. QED
        BY <4>2
    <3>2. Cardinality(cc[1] \ dd[1]) <= 1
      BY <1>2, <2>1
    <3>3. \E id \in dd[1] : id \in Q /\ id \in P
      BY <1>1, <3>1, <3>2, GrownMajoritiesMeet
    <3>. QED
      BY <3>3
  <2>. QED
    BY <2>2, <2>3, <2>4
<1>3. CASE dd[2] = cc[1]
  BY <1>1, <1>3, MajoritiesMeet
<1>4. CASE dd[1] = cc[1]
  BY <1>1, <1>4, MajoritiesMeet
<1>. QED
  BY <1>2, <1>3, <1>4 DEF Neighbours

\* MajorityConfig.VoteResult is VoteWon exactly when a majority granted.
LEMMA MajorityWon ==
    ASSUME NEW c, IsFiniteSet(c), NEW votes
    PROVE  MajorityVoteResult(c, votes) = "VoteWon"
             <=> IsMajority(c, Votes(c, votes, "granted"))
<1>. DEFINE G == Votes(c, votes, "granted")
<1>1. c \cap G = G
  BY DEF Votes
<1>2. Cardinality(c) \in Nat /\ Cardinality(G) \in Nat
  BY <1>1, FS_Intersection, FS_CardinalityType
<1>3. MajorityVoteResult(c, votes) = "VoteWon"
        <=> c = {} \/ Cardinality(G) >= Cardinality(c) \div 2 + 1
  <2>1. CASE c = {} \/ Cardinality(G) >= Cardinality(c) \div 2 + 1
    BY <1>2, <2>1 DEF MajorityVoteResult
  <2>2. CASE ~(c = {} \/ Cardinality(G) >= Cardinality(c) \div 2 + 1)
    BY <2>2 DEF MajorityVoteResult
  <2>. QED
    BY <2>1, <2>2
<1>4. Cardinality(G) >= Cardinality(c) \div 2 + 1 <=> 2 * Cardinality(G) > Cardinality(c)
  BY <1>2
<1>. QED
  BY <1>1, <1>3, <1>4 DEF IsMajority

\* JointConfig.VoteResult declares an election won exactly when the servers
\* that granted their vote are a majority of both halves.
THEOREM JointWon ==
    ASSUME NEW cc, IsFiniteSet(cc[1]), IsFiniteSet(cc[2]), NEW votes
    PROVE  JointVoteResult(cc, votes) = "VoteWon" <=>
             /\ IsMajority(cc[1], Votes(cc[1], votes, "granted"))
             /\ IsMajority(cc[2], Votes(cc[2], votes, "granted"))
<1>1. JointVoteResult(cc, votes) = "VoteWon" <=>
        /\ MajorityVoteResult(cc[1], votes) = "VoteWon"
        /\ MajorityVoteResult(cc[2], votes) = "VoteWon"
  BY DEF JointVoteResult
<1>. QED
  BY <1>1, MajorityWon

(***************************************************************************)
(* JointConfig.VoteResult declares an election lost exactly when those who *)
(* did not reject are no quorum: no answer still missing can win it.       *)
(***************************************************************************)
LEMMA MajorityLost ==
    ASSUME NEW c, IsFiniteSet(c), NEW votes, \A id \in c : votes[id] \in Ballot
    PROVE  MajorityVoteResult(c, votes) = "VoteLost"
             <=> ~IsMajority(c, {id \in c : votes[id] # "rejected"})
<1>. DEFINE G == Votes(c, votes, "granted")
            M == Votes(c, votes, "missing")
            R == {id \in c : votes[id] # "rejected"}
<1>1. c \cap R = G \cup M /\ G \cap M = {} /\ G \subseteq c /\ M \subseteq c
  BY DEF Votes, Ballot
<1>2. IsFiniteSet(G) /\ IsFiniteSet(M)
  BY <1>1, FS_Subset
<1>3. PICK n \in Nat, g \in Nat, m \in Nat :
        n = Cardinality(c) /\ g = Cardinality(G) /\ m = Cardinality(M)
  BY <1>2, FS_CardinalityType
<1>4. Cardinality(c \cap R) = g + m
  <2>1. Cardinality(G \cup M) = Cardinality(G) + Cardinality(M) - Cardinality(G \cap M)
    BY <1>2, FS_Union
  <2>2. Cardinality(G \cap M) = 0
    BY <1>1, FS_EmptySet
  <2>3. Cardinality(c \cap R) = Cardinality(G \cup M)
    BY <1>1
  <2>4. Cardinality(G) = g /\ Cardinality(M) = m
    BY <1>3
  <2>. HIDE DEF G, M, R
  <2>. QED
    BY <2>1, <2>2, <2>3, <2>4
<1>5. MajorityVoteResult(c, votes) = "VoteLost" <=> c # {} /\ g + m < n \div 2 + 1
  <2>1. CASE c = {} \/ g >= n \div 2 + 1
    BY <1>3, <2>1 DEF MajorityVoteResult
  <2>2. CASE c # {} /\ g < n \div 2 + 1 /\ g + m >= n \div 2 + 1
    BY <1>3, <2>2 DEF MajorityVoteResult
  <2>3. CASE c # {} /\ g < n \div 2 + 1 /\ g + m < n \div 2 + 1
    BY <1>3, <2>3 DEF MajorityVoteResult
  <2>. QED
    BY <1>3, <2>1, <2>2, <2>3
<1>6. g + m < n \div 2 + 1 <=> ~(2 * (g + m) > n)
  BY <1>3
<1>. QED
  BY <1>3, <1>4, <1>5, <1>6 DEF IsMajority

\* The same of both halves: one that has lost decides for both.
THEOREM JointLost ==
    ASSUME NEW cc, IsFiniteSet(cc[1]), IsFiniteSet(cc[2]),
           NEW votes, \A id \in JointIDs(cc) : votes[id] \in Ballot
    PROVE  JointVoteResult(cc, votes) = "VoteLost" <=>
             ~IsJointQuorum(cc, {id \in JointIDs(cc) : votes[id] # "rejected"})
<1>. DEFINE R == {id \in JointIDs(cc) : votes[id] # "rejected"}
            Half(k) == {id \in cc[k] : votes[id] # "rejected"}
<1>1. ASSUME NEW k \in {1, 2}
      PROVE  MajorityVoteResult(cc[k], votes) = "VoteLost" <=> ~IsMajority(cc[k], R)
  <2>1. IsFiniteSet(cc[k]) /\ cc[k] \subseteq JointIDs(cc)
    BY DEF JointIDs
  <2>2. cc[k] \cap Half(k) = cc[k] \cap R
    BY <2>1
  <2>3. MajorityVoteResult(cc[k], votes) = "VoteLost" <=> ~IsMajority(cc[k], Half(k))
    BY <2>1, MajorityLost
  <2>. QED
    BY <2>2, <2>3 DEF IsMajority
<1>2. JointVoteResult(cc, votes) = "VoteLost" <=>
        \/ MajorityVoteResult(cc[1], votes) = "VoteLost"
        \/ MajorityVoteResult(cc[2], votes) = "VoteLost"
  BY DEF JointVoteResult
<1>. QED
  BY <1>1, <1>2 DEF IsJointQuorum

(***************************************************************************)
(* CommittedIndex of one half is an index that some voter has acknowledged *)
(* as its last and a majority has acknowledged, and the largest such.      *)
(***************************************************************************)
THEOREM MajorityCommitted ==
    ASSUME NEW c, IsFiniteSet(c), c # {}, NEW acked, \A id \in c : acked[id] \in Nat
    PROVE  LET v == MajorityCommittedIndex(c, acked)
           IN  /\ v \in {acked[id] : id \in c}
               /\ IsMajority(c, {id \in c : acked[id] >= v})
               /\ \A k \in Nat : k > v => ~IsMajority(c, {id \in c : acked[id] >= k})
<1>. DEFINE n   == Cardinality(c)
            pos == n - (n \div 2 + 1)
            V   == {acked[id] : id \in c}
            Low(v) == {id \in c : acked[id] <= v}
            Enough == {v \in V : Cardinality(Low(v)) > pos}
            v   == MajorityCommittedIndex(c, acked)
            Below == {id \in c : acked[id] < v}
            High  == {id \in c : acked[id] >= v}
<1>. HIDE DEF n, pos, V, Low, Enough, v, Below, High
<1>1. n \in Nat /\ n # 0
  BY FS_CardinalityType, FS_EmptySet DEF n
<1>2. V \subseteq Nat /\ V # {}
  BY DEF V
<1>3. \A w : /\ Low(w) \in SUBSET c /\ IsFiniteSet(Low(w))
            /\ Cardinality(Low(w)) \in Nat /\ Cardinality(Low(w)) <= n
  <2>. TAKE w
  <2>1. Low(w) \in SUBSET c
    BY DEF Low
  <2>. QED
    BY <2>1, FS_Subset, FS_CardinalityType DEF n
<1>4. pos \in Nat /\ pos < n /\ 2 * (n - pos) > n
  BY <1>1 DEF pos
<1>5. PICK top \in V : \A w \in V : Cardinality(Low(w)) <= Cardinality(Low(top))
  <2>. DEFINE Counts == {Cardinality(Low(w)) : w \in V}
  <2>1. Counts \subseteq Nat /\ Counts # {} /\ \A k \in Counts : k <= n
    BY <1>2, <1>3
  <2>2. PICK k \in Counts : \A l \in Counts : l <= k
    <3>. HIDE DEF Counts
    <3>. QED
      BY <1>1, <2>1, GreatestExists
  <2>. QED
    BY <2>2
<1>6. Low(top) = c
  <2>1. SUFFICES ASSUME NEW id \in c, acked[id] > top PROVE FALSE
    BY <1>2 DEF Low
  <2>2. acked[id] \in V /\ Low(top) \in SUBSET Low(acked[id]) /\ Low(acked[id]) # Low(top)
    BY <1>2, <2>1 DEF Low, V
  <2>3. /\ Cardinality(Low(top)) <= Cardinality(Low(acked[id]))
        /\ Cardinality(Low(acked[id])) # Cardinality(Low(top))
    BY <1>3, <2>2, FS_Subset
  <2>4. Cardinality(Low(acked[id])) <= Cardinality(Low(top))
    BY <1>5, <2>2
  <2>. QED
    BY <1>3, <2>3, <2>4
<1>7. top \in Enough
  BY <1>4, <1>5, <1>6 DEF Enough, n
<1>8. v \in V /\ v \in Enough /\ \A w \in Enough : v <= w
  <2>1. Enough \subseteq Nat /\ Enough # {}
    BY <1>2, <1>7 DEF Enough
  <2>2. \E x \in Enough : \A w \in Enough : x <= w
    BY <2>1, LeastExists
  <2>3. v = CHOOSE x \in V : /\ Cardinality(Low(x)) > pos
                             /\ \A w \in V : Cardinality(Low(w)) > pos => x <= w
    BY DEF MajorityCommittedIndex, v, V, Low, pos, n
  <2>. QED
    BY <2>2, <2>3 DEF Enough
<1>9. IsFiniteSet(Below) /\ Cardinality(Below) \in Nat /\ Cardinality(Below) <= pos
  <2>1. Below \in SUBSET c
    BY DEF Below
  <2>2. IsFiniteSet(Below) /\ Cardinality(Below) \in Nat
    BY <2>1, FS_Subset, FS_CardinalityType
  <2>3. CASE Below = {}
    BY <1>4, <2>2, <2>3, FS_EmptySet
  <2>4. CASE Below # {}
    <3>. DEFINE W == {acked[id] : id \in Below}
    <3>1. W \subseteq V /\ W # {} /\ (\A w \in W : w < v) /\ v \in Nat
      BY <1>2, <1>8, <2>4 DEF Below, V
    <3>2. PICK w \in W : \A x \in W : x <= w
      <4>. HIDE DEF W
      <4>1. W \subseteq Nat /\ \A x \in W : x <= v
        BY <1>2, <3>1
      <4>. QED
        BY <3>1, <4>1, GreatestExists
    <3>3. w \in V /\ w < v /\ w \in Nat
      BY <1>2, <3>1, <3>2
    <3>4. Below = Low(w)
      BY <3>1, <3>2, <3>3 DEF Below, Low
    <3>5. w \notin Enough
      BY <1>2, <1>8, <3>3
    <3>. QED
      BY <1>3, <1>4, <3>3, <3>4, <3>5 DEF Enough
  <2>. QED
    BY <2>2, <2>3, <2>4
<1>10. High = c \ Below /\ c \cap High = High /\ c \cap Below = Below
  BY <1>2, <1>8 DEF High, Below
<1>11. Cardinality(High) = n - Cardinality(Below)
  BY <1>10, FS_Difference DEF n
<1>12. 2 * Cardinality(High) > n
  BY <1>1, <1>4, <1>9, <1>11
<1>13. IsMajority(c, High)
  BY <1>10, <1>12 DEF IsMajority, n
<1>14. ASSUME NEW k \in Nat, k > v
       PROVE  ~IsMajority(c, {id \in c : acked[id] >= k})
  <2>. DEFINE Over == {id \in c : acked[id] >= k}
  <2>. HIDE DEF Over
  <2>1. Over \in SUBSET (c \ Low(v)) /\ c \cap Over = Over /\ c \cap Low(v) = Low(v)
    BY <1>2, <1>8, <1>14 DEF Over, Low
  <2>2. /\ Cardinality(c \ Low(v)) = n - Cardinality(Low(v))
        /\ IsFiniteSet(c \ Low(v))
    BY <2>1, FS_Difference DEF n
  <2>3. Cardinality(Over) <= Cardinality(c \ Low(v)) /\ Cardinality(Over) \in Nat
    BY <2>1, <2>2, FS_Subset, FS_CardinalityType
  <2>4. Cardinality(Low(v)) > pos /\ Cardinality(Low(v)) \in Nat
    BY <1>3, <1>8 DEF Enough
  <2>5. 2 * (n - (pos + 1)) <= n
    BY <1>1 DEF pos
  <2>6. ~(2 * Cardinality(Over) > n)
    BY <1>1, <1>4, <2>2, <2>3, <2>4, <2>5
  <2>. QED
    BY <2>1, <2>6 DEF IsMajority, n, Over
<1>. QED
  BY <1>8, <1>13, <1>14 DEF v, V, High

(***************************************************************************)
(* JointConfig.CommittedIndex never runs ahead of either half, nor stays   *)
(* behind both: unless both are empty, it is the largest index that a      *)
(* majority of each half that is not empty has acknowledged.               *)
(***************************************************************************)
THEOREM JointCommitted ==
    ASSUME NEW cc, IsFiniteSet(cc[1]), IsFiniteSet(cc[2]), JointIDs(cc) # {},
           NEW acked, \A id \in JointIDs(cc) : acked[id] \in 0..MaxUint64
    PROVE  LET v == JointCommittedIndex(cc, acked)
           IN  /\ v \in {acked[id] : id \in JointIDs(cc)}
               /\ IsJointQuorum(cc, {id \in JointIDs(cc) : acked[id] >= v})
               /\ \A k \in Nat : k > v =>
                    ~IsJointQuorum(cc, {id \in JointIDs(cc) : acked[id] >= k})
<1>. DEFINE idx(k) == MajorityCommittedIndex(cc[k], acked)
            v == JointCommittedIndex(cc, acked)
            A == {id \in JointIDs(cc) : acked[id] >= v}
            Acks(k) == {id \in cc[k] : acked[id] >= idx(k)}
<1>. HIDE DEF idx, v, A, Acks
<1>1. \A k \in {1, 2} : IsFiniteSet(cc[k]) /\ cc[k] \in SUBSET JointIDs(cc)
  BY DEF JointIDs
<1>2. \A k \in {1, 2} : cc[k] = {} => idx(k) = MaxUint64
  BY DEF idx, MajorityCommittedIndex
<1>3. ASSUME NEW k \in {1, 2}, cc[k] # {}
      PROVE  /\ idx(k) \in {acked[id] : id \in cc[k]} /\ IsMajority(cc[k], Acks(k))
             /\ \A n \in Nat : n > idx(k) =>
                    ~IsMajority(cc[k], {id \in cc[k] : acked[id] >= n})
  <2>1. IsFiniteSet(cc[k]) /\ \A id \in cc[k] : acked[id] \in Nat
    BY <1>1, MaxUint64Assumption
  <2>. QED
    BY <1>3, <2>1, MajorityCommitted, Zenon DEF idx, Acks
<1>4. \A k \in {1, 2} : idx(k) \in 0..MaxUint64
  BY <1>1, <1>2, <1>3, MaxUint64Assumption
<1>5. v = (IF idx(1) < idx(2) THEN idx(1) ELSE idx(2))
  BY DEF v, idx, JointCommittedIndex
<1>6. \A k \in {1, 2} : v <= idx(k)
  BY <1>4, <1>5
<1>7. PICK half \in {1, 2} : cc[half] # {} /\ idx(half) = v
  <2>1. CASE v = idx(1) /\ cc[1] = {}
    BY <1>2, <1>4, <1>6, <2>1 DEF JointIDs
  <2>2. CASE v = idx(2) /\ cc[2] = {}
    BY <1>2, <1>4, <1>6, <2>2 DEF JointIDs
  <2>. QED
    BY <1>5, <2>1, <2>2
<1>8. ASSUME NEW k \in {1, 2} PROVE IsMajority(cc[k], A)
  <2>1. CASE cc[k] = {}
    BY <2>1 DEF IsMajority
  <2>2. CASE cc[k] # {}
    <3>1. Acks(k) \in SUBSET (cc[k] \cap A)
      BY <1>1, <1>4, <1>5, <1>6, MaxUint64Assumption DEF Acks, A
    <3>2. Cardinality(Acks(k)) <= Cardinality(cc[k] \cap A)
      BY <1>1, <3>1, FS_Intersection, FS_Subset
    <3>3. /\ Cardinality(cc[k] \cap A) \in Nat
          /\ Cardinality(Acks(k)) \in Nat
          /\ Cardinality(cc[k]) \in Nat
      BY <1>1, <3>1, FS_Intersection, FS_Subset, FS_CardinalityType
    <3>4. cc[k] \cap Acks(k) = Acks(k)
      BY DEF Acks
    <3>5. 2 * Cardinality(Acks(k)) > Cardinality(cc[k])
      BY <1>3, <2>2, <3>4 DEF IsMajority
    <3>. QED
      BY <3>2, <3>3, <3>5 DEF IsMajority
  <2>. QED
    BY <2>1, <2>2
<1>9. v \in {acked[id] : id \in JointIDs(cc)}
  BY <1>1, <1>3, <1>7
<1>10. ASSUME NEW k \in Nat, k > v
       PROVE  ~IsMajority(cc[half], {id \in JointIDs(cc) : acked[id] >= k})
  <2>1. ~IsMajority(cc[half], {id \in cc[half] : acked[id] >= k})
    BY <1>3, <1>7, <1>10
  <2>2. cc[half] \cap {id \in cc[half] : acked[id] >= k}
          = cc[half] \cap {id \in JointIDs(cc) : acked[id] >= k}
    BY <1>1
  <2>. QED
    BY <2>1, <2>2 DEF IsMajority
<1>. QED
  BY <1>8, <1>9, <1>10 DEF v, A, IsJointQuorum
=============================================================================
