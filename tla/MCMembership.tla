---------------------------- MODULE MCMembership ----------------------------
(* A server that takes in a second one, and may leave the cluster to it.   *)
EXTENDS Membership

Add(id)     == [type |-> "AddNode", id |-> id]
Demote(id)  == [type |-> "AddLearnerNode", id |-> id]
Remove(id)  == [type |-> "RemoveNode", id |-> id]

\* Simple changes, a joint state that is left by itself, and one that the
\* application leaves.
MCProposals ==
    {Normal, V2("Auto", <<Add(2)>>), V2("Auto", <<Remove(1)>>),
     V2("Auto", <<Add(2), Remove(1)>>),
     V2("JointExplicit", <<Add(2), Demote(1)>>), V2("Auto", << >>)}
=============================================================================
