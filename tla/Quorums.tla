------------------------------ MODULE Quorums ------------------------------
(***************************************************************************)
(* Package quorum: decisions of a majority configuration (a set of voters) *)
(* and of a joint configuration (a pair <<incoming, outgoing>> of them).   *)
(* A half that is empty decides nothing and lets the other half decide.    *)
(***************************************************************************)
EXTENDS Integers, FiniteSets

CONSTANT MaxUint64    \* stands for math.MaxUint64, the "no limit" index

ASSUME MaxUint64Assumption == MaxUint64 \in Nat

VoteResultType == {"VotePending", "VoteLost", "VoteWon"}

\* What is known of one voter: it answered yes or no, or did not answer yet
\* (the key is absent from the Go map).
Ballot == {"granted", "rejected", "missing"}

Votes(c, votes, b) == {id \in c : votes[id] = b}

(***************************************************************************)
(* MajorityConfig.VoteResult and JointConfig.VoteResult.                   *)
(***************************************************************************)
\* Mutant: half of the voters is enough.
MajorityVoteResult_Half(c, votes) ==
    IF 2 * Cardinality(Votes(c, votes, "granted")) >= Cardinality(c)
    THEN "VoteWon" ELSE "VotePending"

MajorityVoteResult(c, votes) ==
    LET q         == Cardinality(c) \div 2 + 1
        votedCnt  == Cardinality(Votes(c, votes, "granted"))
        missing   == Cardinality(Votes(c, votes, "missing"))
    IN  CASE c = {} \/ votedCnt >= q  -> "VoteWon"
          [] c # {} /\ votedCnt < q /\ votedCnt + missing >= q -> "VotePending"
          [] OTHER -> "VoteLost"

\* Mutant: one half of the joint configuration decides for both.
JointVoteResult_EitherHalf(cc, votes) ==
    LET r1 == MajorityVoteResult(cc[1], votes)
        r2 == MajorityVoteResult(cc[2], votes)
    IN  IF cc[2] # {} /\ r2 = "VoteWon" THEN r2 ELSE r1

JointVoteResult(cc, votes) ==
    LET r1 == MajorityVoteResult(cc[1], votes)
        r2 == MajorityVoteResult(cc[2], votes)
    IN  CASE r1 = r2 -> r1
          [] r1 # r2 /\ "VoteLost" \in {r1, r2} -> "VoteLost"
          [] OTHER -> "VotePending"

(***************************************************************************)
(* MajorityConfig.CommittedIndex sorts the acked indexes in ascending      *)
(* order and returns the one at position n - (n/2 + 1), counted from 0: the *)
(* least acked index with more than that many acks at or below it. acked   *)
(* gives 0 for a voter that has not reported.                              *)
(***************************************************************************)
MajorityCommittedIndex(c, acked) ==
    LET n   == Cardinality(c)
        pos == n - (n \div 2 + 1)
        AtOrBelow(v) == Cardinality({id \in c : acked[id] <= v})
    IN  IF c = {} THEN MaxUint64
        ELSE CHOOSE v \in {acked[id] : id \in c} :
                /\ AtOrBelow(v) > pos
                /\ \A w \in {acked[id] : id \in c} : AtOrBelow(w) > pos => v <= w

JointCommittedIndex(cc, acked) ==
    LET idx0 == MajorityCommittedIndex(cc[1], acked)
        idx1 == MajorityCommittedIndex(cc[2], acked)
    IN  IF idx0 < idx1 THEN idx0 ELSE idx1

JointIDs(cc) == cc[1] \cup cc[2]

(***************************************************************************)
(* The reference definitions the algorithms are compared with: a set of    *)
(* servers is a quorum when it holds a majority of both halves.            *)
(***************************************************************************)
IsMajority(c, Q)      == c = {} \/ 2 * Cardinality(c \cap Q) > Cardinality(c)
IsJointQuorum(cc, Q)  == IsMajority(cc[1], Q) /\ IsMajority(cc[2], Q)
=============================================================================
