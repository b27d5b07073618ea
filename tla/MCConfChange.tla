---------------------------- MODULE MCConfChange ----------------------------
(***************************************************************************)
(* Every configuration that a group can get into from its bootstrap on, by *)
(* whatever changes the leader admits, with restarts from the ConfState in *)
(* between. A change that applyConfChange refuses is a panic, after which  *)
(* nothing happens: conf is then Refused.                                  *)
(***************************************************************************)
EXTENDS ConfChange

CONSTANTS
    MaxChanges     \* bound: changes in one ConfChangeV2

ASSUME BoundAssumption == MaxChanges \in Nat

VARIABLE conf      \* the configuration and the Progress map of the leader

Changes == UNION {[1..n -> {ch \in Change : ch.id # 0 \/ ch.type = "AddNode"}] : n \in 0..MaxChanges}

AllChanges == {V2(t, ccs) : t \in Transition, ccs \in Changes}

ConfInit == conf = EmptyConfig

Apply(cc) == Admitted(conf, cc) /\ conf' = applyConfChange(conf, cc)

\* MsgAppResp of a member.
Acknowledge(id) ==
    /\ id \in Members(conf) /\ conf.Progress[id].Match = 0
    /\ conf' = [conf EXCEPT !.Progress[id].Match = 1]

\* newRaft
RestartConf ==
    /\ conf.Voters[1] # {}
    /\ conf' = Restore(ConfState(conf))

ConfNext ==
    \/ Ok(conf) /\ \E cc \in AllChanges : Apply(cc)
    \/ Ok(conf) /\ RestartConf
    \/ Ok(conf) /\ \E id \in Node : Acknowledge(id)

ConfSpec == ConfInit /\ [][ConfNext]_conf

-----------------------------------------------------------------------------
(* Properties.                                                             *)

\* The changes take away every voter there is, and every one that they add.
Drops(ch, id) == ch.id = id /\ ch.type \in {"AddLearnerNode", "RemoveNode"}
Adds(ch, id)  == ch.id = id /\ ch.type = "AddNode"
RemovesAll(c, ccs) == \A id \in Node :
    /\ id \in c.Voters[1] => \E j \in DOMAIN ccs : Drops(ccs[j], id)
    /\ \A j \in DOMAIN ccs : Adds(ccs[j], id) => \E k \in (j + 1)..Len(ccs) : Drops(ccs[k], id)

\* What the leader does not look at: an empty change that asks to enter a joint state
\* rather than to leave one, a joint state without voters, a change that leaves none.
Unchecked(c, cc) ==
    IF joint(c) THEN cc.transition # "Auto"
    ELSE RemovesAll(c, cc.changes) \/ (c.Voters[1] = {} /\ UsesJoint(cc))

\* applyConfChange panics on an error, on every server. Of what stepLeader lets into
\* the log, with no other change pending, it refuses exactly what is Unchecked, and
\* whatever it does accept passes checkInvariants.
AdmittedIsApplied == Ok(conf) =>
    /\ checkInvariants(conf)
    /\ \A cc \in AllChanges : Admitted(conf, cc) =>
        (Ok(applyConfChange(conf, cc)) <=> ~Unchecked(conf, cc))

\* The configuration without what the leader knows of the members' logs.
Shape(c) == [c EXCEPT !.Progress = [id \in DOMAIN @ |-> @[id].IsLearner]]

\* A server that restarts from the ConfState of the configuration it had gets that
\* configuration: assertConfStatesEquivalent does not panic.
RestoreIsExact ==
    Ok(conf) /\ conf.Voters[1] # {} =>
        LET c == Restore(ConfState(conf)) IN Ok(c) /\ Shape(c) = Shape(conf)

\* Whatever is decided before a change by a quorum is known to every quorum after
\* it: consecutive configurations never decide apart from each other.
QuorumsMeet ==
    [][Ok(conf') /\ conf.Voters[1] # {} =>
        \A P, Q \in SUBSET Node :
            IsJointQuorum(conf.Voters, P) /\ IsJointQuorum(conf'.Voters, Q)
                => P \cap Q # {}]_conf

\* A voter that stays a member is not taken for one that has nothing: its Progress
\* survives the change, whether it stays, is demoted or is removed and added again
\* (a restart, which forgets, leaves the shape as it is).
VotersKeepProgress ==
    [][Ok(conf') /\ Shape(conf') # Shape(conf) =>
        \A id \in JointIDs(conf.Voters) \cap Members(conf') :
            conf'.Progress[id].Match = conf.Progress[id].Match]_conf

\* JointConfig.VoteResult in every configuration that is reached, for all votes:
\* won exactly when those who granted are a quorum of both halves, lost exactly
\* when no answer still missing can change that.
VoteResultIsExact == Ok(conf) =>
    \A votes \in [Node -> Ballot] :
        LET granted == Votes(Node, votes, "granted")
            missing == Votes(Node, votes, "missing")
            result  == JointVoteResult(conf.Voters, votes)
        IN  /\ result = "VoteWon"  <=> IsJointQuorum(conf.Voters, granted)
            /\ result = "VoteLost" <=> ~IsJointQuorum(conf.Voters, granted \cup missing)
=============================================================================
