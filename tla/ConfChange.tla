----------------------------- MODULE ConfChange -----------------------------
(***************************************************************************)
(* Package confchange and the parts of raftpb and tracker around it: what  *)
(* a configuration is, how a change is carried out, and how a ConfState is *)
(* turned into a configuration again. A configuration is a record          *)
(*   Voters        <<incoming, outgoing>>, as in module Quorums,           *)
(*   Learners, LearnersNext, AutoLeave,                                    *)
(*   Progress      for each member whether it IsLearner and its Match.     *)
(* The operations return such a record, or Refused, the error. A map that  *)
(* is nil and one that is empty are the same set.                          *)
(***************************************************************************)
EXTENDS Quorums, Sequences, Functions

CONSTANT Node     \* the ids of all servers there can be

ASSUME NodeAssumption == Node \subseteq Nat \ {0}

Refused == [Voters |-> << >>]
Ok(c)   == c # Refused

ChangeType == {"AddNode", "AddLearnerNode", "RemoveNode", "UpdateNode"}
Change     == [type : ChangeType, id : Node \cup {0}]

EmptyConfig ==
    [Voters |-> <<{}, {}>>, Learners |-> {}, LearnersNext |-> {}, AutoLeave |-> FALSE,
     Progress |-> << >>]

Members(c) == DOMAIN c.Progress
joint(c)   == c.Voters[2] # {}

\* checkInvariants, which the Changer calls on what it gets and what it returns.
checkInvariants(c) ==
    /\ JointIDs(c.Voters) \cup c.Learners \cup c.LearnersNext \subseteq Members(c)
    /\ \A id \in c.LearnersNext : id \in c.Voters[2] /\ ~c.Progress[id].IsLearner
    /\ \A id \in c.Learners : id \notin JointIDs(c.Voters) /\ c.Progress[id].IsLearner
    /\ ~joint(c) => c.LearnersNext = {} /\ ~c.AutoLeave

Checked(c) == IF checkInvariants(c) THEN c ELSE Refused

-----------------------------------------------------------------------------
(* One change.                                                             *)

Without(c, id) ==
    [c EXCEPT !.Voters[1] = @ \ {id}, !.Learners = @ \ {id}, !.LearnersNext = @ \ {id}]

With(prs, id, pr) == [i \in DOMAIN prs \cup {id} |-> IF i = id THEN pr ELSE prs[i]]

initProgress(c, id, isLearner) ==
    LET pr == [IsLearner |-> isLearner, Match |-> 0]
    IN  IF isLearner
        THEN [c EXCEPT !.Learners = @ \cup {id}, !.Progress = With(@, id, pr)]
        ELSE [c EXCEPT !.Voters[1] = @ \cup {id}, !.Progress = With(@, id, pr)]

\* Mutant: a member that is made a voter starts afresh.
makeVoter_Afresh(c, id) == initProgress(Without(c, id), id, FALSE)

makeVoter(c, id) ==
    IF id \notin Members(c) THEN initProgress(c, id, FALSE)
    ELSE [Without(c, id) EXCEPT !.Voters[1] = @ \cup {id}, !.Progress[id].IsLearner = FALSE]

\* A voter of the outgoing half keeps its Progress.
remove(c, id) ==
    IF id \notin Members(c) THEN c
    ELSE [Without(c, id) EXCEPT
            !.Progress = IF id \in c.Voters[2] THEN @ ELSE Restrict(@, DOMAIN @ \ {id})]

\* Mutant: a voter that is demoted is a learner at once.
makeLearner_AtOnce(c, id) ==
    IF id \notin Members(c) THEN initProgress(c, id, TRUE)
    ELSE IF c.Progress[id].IsLearner THEN c
    ELSE [Without(c, id) EXCEPT !.Learners = @ \cup {id}, !.Progress[id].IsLearner = TRUE]

\* A voter of the outgoing half becomes a learner when the joint state is left.
makeLearner(c, id) ==
    IF id \notin Members(c) THEN initProgress(c, id, TRUE)
    ELSE IF c.Progress[id].IsLearner THEN c
    ELSE IF id \in c.Voters[2]
    THEN [Without(c, id) EXCEPT !.LearnersNext = @ \cup {id}]
    ELSE [Without(c, id) EXCEPT !.Learners = @ \cup {id}, !.Progress[id].IsLearner = TRUE]

\* etcd sets the id of a change it decides against to zero.
Changed(c, cc) ==
    CASE cc.id = 0                   -> c
      [] cc.type = "AddNode"         /\ cc.id # 0 -> makeVoter(c, cc.id)
      [] cc.type = "AddLearnerNode"  /\ cc.id # 0 -> makeLearner(c, cc.id)
      [] cc.type = "RemoveNode"      /\ cc.id # 0 -> remove(c, cc.id)
      [] cc.type = "UpdateNode"      /\ cc.id # 0 -> c

apply(c, ccs) ==
    LET After[k \in 0..Len(ccs)] == IF k = 0 THEN c ELSE Changed(After[k - 1], ccs[k])
        last == After[Len(ccs)]
    IN  IF last.Voters[1] = {} THEN Refused ELSE last

-----------------------------------------------------------------------------
(* The operations of Changer.                                              *)

symdiff(l, r) == Cardinality(l \ r) + Cardinality(r \ l)

Simple(c, ccs) ==
    LET new == apply(c, ccs)
    IN  IF joint(c) \/ ~Ok(new) THEN Refused
        ELSE IF symdiff(c.Voters[1], new.Voters[1]) > 1 THEN Refused
        ELSE Checked(new)

\* Mutant: the old voters lose their say at once.
EnterJoint_Switch(c, autoLeave, ccs) ==
    LET new == apply(c, ccs)
    IN  IF joint(c) \/ c.Voters[1] = {} \/ ~Ok(new) THEN Refused ELSE Checked(new)

EnterJoint(c, autoLeave, ccs) ==
    LET new == apply([c EXCEPT !.Voters[2] = c.Voters[1]], ccs)
    IN  IF joint(c) \/ c.Voters[1] = {} \/ ~Ok(new) THEN Refused
        ELSE Checked([new EXCEPT !.AutoLeave = autoLeave])

LeaveJoint(c) ==
    LET learners == c.Learners \cup c.LearnersNext
        gone     == c.Voters[2] \ (c.Voters[1] \cup learners)
        prs      == [id \in Members(c) |->
                       [c.Progress[id] EXCEPT !.IsLearner = @ \/ id \in c.LearnersNext]]
    IN  IF ~joint(c) THEN Refused
        ELSE Checked([c EXCEPT
                !.Voters[2] = {}, !.Learners = learners, !.LearnersNext = {},
                !.AutoLeave = FALSE, !.Progress = Restrict(prs, DOMAIN prs \ gone)])

-----------------------------------------------------------------------------
(* ConfChangeV2 and raft.applyConfChange.                                  *)

Transition == {"Auto", "JointImplicit", "JointExplicit"}

V2(transition, changes) == [transition |-> transition, changes |-> changes]

WantsLeave(cc)     == cc.transition = "Auto" /\ cc.changes = << >>
UsesJoint(cc)      == cc.transition # "Auto" \/ Len(cc.changes) > 1
LeavesByItself(cc) == cc.transition # "JointExplicit"

applyConfChange(c, cc) ==
    IF WantsLeave(cc) THEN LeaveJoint(c)
    ELSE IF UsesJoint(cc) THEN EnterJoint(c, LeavesByItself(cc), cc.changes)
    ELSE Simple(c, cc.changes)

\* stepLeader, MsgProp: whether a change may go into the log, given that none is
\* pending there; otherwise an empty entry takes its place.
Admitted(c, cc) == joint(c) <=> cc.changes = << >>

-----------------------------------------------------------------------------
(* ConfState and Restore. The slices of a ConfState are sorted.            *)

ConfState(c) ==
    [Voters |-> c.Voters[1], VotersOutgoing |-> c.Voters[2], Learners |-> c.Learners,
     LearnersNext |-> c.LearnersNext, AutoLeave |-> c.AutoLeave]

Sorted(S) ==
    LET Rank(id) == Cardinality({j \in S : j <= id})
    IN  [k \in 1..Cardinality(S) |-> CHOOSE id \in S : Rank(id) = k]

Each(type, S) == [k \in 1..Cardinality(S) |-> [type |-> type, id |-> Sorted(S)[k]]]

\* toConfChangeSingle: what leads to the outgoing half, and from there to cs.
OutgoingChanges(cs) == Each("AddNode", cs.VotersOutgoing)

\* Mutant: learners that wait for the end of the joint state are not staged again.
IncomingChanges_NoStaged(cs) ==
    Each("RemoveNode", cs.VotersOutgoing) \o Each("AddNode", cs.Voters)
        \o Each("AddLearnerNode", cs.Learners)

IncomingChanges(cs) ==
    Each("RemoveNode", cs.VotersOutgoing) \o Each("AddNode", cs.Voters)
        \o Each("AddLearnerNode", cs.Learners) \o Each("AddLearnerNode", cs.LearnersNext)

\* chain of Simple changes, one by one.
OneByOne(c, ccs) ==
    LET After[k \in 0..Len(ccs)] ==
            IF k = 0 THEN c
            ELSE IF Ok(After[k - 1]) THEN Simple(After[k - 1], <<ccs[k]>>) ELSE Refused
    IN  After[Len(ccs)]

Restore(cs) ==
    LET before == OneByOne(EmptyConfig, OutgoingChanges(cs))
    IN  IF cs.VotersOutgoing = {} THEN OneByOne(EmptyConfig, IncomingChanges(cs))
        ELSE IF Ok(before) THEN EnterJoint(before, cs.AutoLeave, IncomingChanges(cs))
        ELSE Refused
=============================================================================
