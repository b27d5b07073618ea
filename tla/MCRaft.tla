------------------------------- MODULE MCRaft -------------------------------
(***************************************************************************)
(* Raft with the bounds that make it finite: the terms, the log length and *)
(* the append queue are bounded, and each kind of external event (a crash, *)
(* a proposal, a heartbeat round, ...) has a budget for the whole run.     *)
(***************************************************************************)
EXTENDS Raft, TLC

CONSTANTS
    MaxTerm,     \* no server goes beyond this term
    MaxLog,      \* no log grows beyond this length
    MaxQueue,    \* Readys waiting for one append thread
    Budget,      \* [kind of event -> how often it may happen]
    Delivered,   \* the types of message that are not all lost
    Prompt       \* the servers that save their state before anyone else moves

VARIABLE used    \* [kind of event -> how often it has happened]

mcVars == <<vars, used>>

Event == {"campaign", "propose", "restart", "beat", "timeout", "tick",
          "transfer", "report", "forget", "snapshot"}

\* The budget of every kind of event that is not named in b is zero.
Only(b) == [k \in Event |-> IF k \in DOMAIN b THEN b[k] ELSE 0]

Spend(kind, A) ==
    /\ used[kind] < Budget[kind]
    /\ A
    /\ used' = [used EXCEPT ![kind] = @ + 1]

Free(A) == A /\ UNCHANGED used

Within(i) ==
    /\ raft'[i].Term <= MaxTerm
    /\ Len(raftLog'[i].ents) <= MaxLog
    /\ Len(appendQ'[i]) <= MaxQueue

MCLocal(i) ==
    \/ Spend("campaign", Campaign(i))
    \/ Spend("tick", Tick(i))
    \/ Spend("beat", Beat(i))
    \/ Spend("timeout", LeaderTimeout(i))
    \/ Spend("forget", ForgetLeader(i))
    \/ \E v \in Value : Spend("propose", Propose(i, v))
    \/ \E j \in Server :
        \/ Spend("transfer", TransferLeader(i, j))
        \/ Spend("report", ReportUnreachable(i, j))
        \/ \E failed \in BOOLEAN : Spend("report", ReportSnapshot(i, j, failed))

MCDurability(i) ==
    \/ Spend("restart", Restart(i))
    \/ \E k \in 1..disk[i].committed :
        \/ Spend("snapshot", CreateSnapshot(i, k))
        \/ Free(Compact(i, k))

(***************************************************************************)
(* A prompt server hands out and saves its Ready in one step, and steps    *)
(* its own responses, before anyone else moves. Without asynchronous       *)
(* writes this loses nothing that the others can see: until the Ready is   *)
(* saved none of its messages is out, so a crash before that is a crash    *)
(* before the step that caused it. With asynchronous writes a prompt       *)
(* server is one with a fast disk; the others are as slow as MaxQueue      *)
(* allows.                                                                 *)
(***************************************************************************)
Save(i) ==
    /\ HasReady(i)
    /\ disk' = [disk EXCEPT ![i] = Saved(@, StorageAppend(i))]
    /\ pend' = [pend EXCEPT ![i] = {}]
    /\ net'  = net \cup StorageAppend(i).resps
    /\ UNCHANGED <<raft, votes, trk, raftLog, appendQ, elected>>

\* A response to itself that i has saved and not yet stepped.
Owed(i, m) ==
    /\ m.from = i /\ m.to = i
    /\ \/ IsPoll(i, m) /\ votes[i][i] = "missing"
       \/ IsResp(i, m, "MsgAppResp") /\ m.index > trk[i][i].Match
Busy(i) == HasReady(i) \/ \E m \in net : Owed(i, m)

MCNext == \E i \in Server :
    /\ \A j \in Prompt \ {i} : ~Busy(j)
    /\ \/ MCDurability(i)
       \/ /\ i \in Prompt
          /\ Free(Save(i))
       \/ /\ i \notin Prompt
          /\ Free(Ready(i)) \/ Free(ProcessAppend(i))
       \/ /\ i \in Prompt => ~Busy(i)
          /\ MCLocal(i)
       \/ \E m \in net :
          /\ m.to = i /\ m.type \in Delivered
          /\ i \in Prompt => ~Busy(i) \/ (~HasReady(i) /\ Owed(i, m))
          /\ Free(Receive(i, m))
    /\ Within(i)

(***************************************************************************)
(* A second start, reached from the first: l has won term 1 with the votes *)
(* of all voters, and everyone has saved and committed its empty entry.    *)
(* The messages of that time are lost from then on.                        *)
(***************************************************************************)
FirstLog == [EmptyLog EXCEPT !.ents = <<[term |-> 1, data |-> NoData]>>,
                             !.committed = 1]

Leading(l) ==
    LET vote(i) == IF i \in Voters THEN l ELSE None
    IN  /\ raft = [i \in Server |->
                     [Term |-> 1, Vote |-> vote(i), lead |-> l,
                      state |-> IF i = l THEN "StateLeader" ELSE "StateFollower",
                      leadTransferee |-> None, timedOut |-> FALSE]]
        /\ votes   = [i \in Server |-> NoVotes]
        /\ trk     = [i \in Server |->
                        IF i # l THEN resetProgress(i, EmptyLog)
                        ELSE [j \in Server |->
                                [NewProgress(1, 2, TRUE) EXCEPT
                                    !.State = "StateReplicate",
                                    !.sentCommit = IF j = l THEN 0 ELSE 1]]]
        /\ raftLog = [i \in Server |-> FirstLog]
        /\ disk    = [i \in Server |->
                        [Term |-> 1, Vote |-> vote(i), committed |-> 1,
                         ents |-> FirstLog.ents, first |-> 1, snapshot |-> << >>]]
        /\ pend    = [i \in Server |-> {}]
        /\ appendQ = [i \in Server |-> << >>]
        /\ net = {} /\ elected = {<<1, l>>}

Unused == used = [k \in Event |-> 0]

LedInit == (\E l \in Voters : Leading(l)) /\ Unused
LedSpec == LedInit /\ [][MCNext]_mcVars

\* From either start.
MCInit == (Init \/ \E l \in Voters : Leading(l)) /\ Unused
MCSpec == MCInit /\ [][MCNext]_mcVars

-----------------------------------------------------------------------------
(* Values of the constants.                                                *)

CONSTANTS s1, s2, s3

AllTypes ==
    {"MsgVote", "MsgPreVote", "MsgVoteResp", "MsgPreVoteResp", "MsgApp", "MsgAppResp",
     "MsgSnap", "MsgHeartbeat", "MsgHeartbeatResp", "MsgTimeoutNow",
     "MsgTransferLeader", "MsgStorageAppendResp", "MsgProp"}

Trio     == {s1, s2, s3}
Pair     == {s1, s2}
LiveView == <<raft, votes, [i \in Server |-> IF Leads(i) THEN trk[i] ELSE << >>],
              raftLog, disk, pend, appendQ, net, elected, used>>
Symmetry     == Permutations(Trio)
PairSymmetry == Permutations(Pair)

ElectionBudget  == Only([campaign |-> 1, tick |-> 1, timeout |-> 1, transfer |-> 1])
LogBudget       == Only([campaign |-> 1, propose |-> 2, restart |-> 1])
CrashBudget     == Only([campaign |-> 2, propose |-> 1, restart |-> 1])
DurableBudget   == Only([campaign |-> 1, propose |-> 1])
SnapshotBudget  == Only([propose |-> 1, snapshot |-> 2, report |-> 2, beat |-> 1,
                         restart |-> 1, forget |-> 1])
=============================================================================
