-------------------------------- MODULE Raft --------------------------------
(***************************************************************************)
(* The raft state machine of raft.go, driven as rawnode.go drives it, on   *)
(* every server of a cluster with a fixed, possibly joint, configuration.  *)
(*                                                                         *)
(* One step of this module is one call of raft.Step (a message, a tick or  *)
(* a call of the RawNode interface), one Ready, one write of the append    *)
(* thread, or one crash with restart. The network keeps every message ever *)
(* sent and may deliver any of them at any time, again, or never, so loss, *)
(* duplication, delay and reordering need no actions of their own.         *)
(***************************************************************************)
EXTENDS Quorums, Progress, RaftLog

CONSTANTS
    Server,              \* every member: voters and learners
    Incoming, Outgoing,  \* the two halves of the joint configuration
    None,                \* raft.None, no server
    PreVote,             \* Config.PreVote
    CheckQuorum,         \* Config.CheckQuorum
    AsyncStorageWrites,  \* Config.AsyncStorageWrites
    DisableProposalForwarding,
    MaxEntsPerMsg        \* Config.MaxSizePerMsg, counted in entries

ASSUME ServerAssumption ==
    /\ IsFiniteSet(Server) /\ None \notin Server
    /\ Incoming \subseteq Server /\ Outgoing \subseteq Server
    /\ Incoming # {}

ASSUME OptionAssumption ==
    /\ {PreVote, CheckQuorum, AsyncStorageWrites,
        DisableProposalForwarding} \subseteq BOOLEAN
    /\ MaxEntsPerMsg \in Nat \ {0}

VARIABLES
    raft,     \* [i]: the scalar fields of struct raft
    votes,    \* [i][j]: trk.Votes
    trk,      \* [i][j]: trk.Progress
    raftLog,  \* [i]: the log as raft sees it, unstable entries included
    disk,     \* [i]: Storage: the HardState, the log and the snapshot index
    pend,     \* [i]: messages that wait for the next Ready to be written
    appendQ,  \* [i]: the MsgStorageAppends the append thread has to process
    net,      \* every message released to the transport so far
    elected   \* history: every <<term, server>> that became leader

vars == <<raft, votes, trk, raftLog, disk, pend, appendQ, net, elected>>

Config == <<Incoming, Outgoing>>
Voters == JointIDs(Config)

-----------------------------------------------------------------------------
(* Messages. Fields that a type does not use are left out.                 *)

Vote(type, from, to, term, lg, force) ==
    [type |-> type, from |-> from, to |-> to, term |-> term,
     index |-> lastIndex(lg), logTerm |-> lastTerm(lg), context |-> force]

\* voteRespMsgType and the two ways Step answers a (pre-)vote request.
RespType(type) == IF type = "MsgVote" THEN "MsgVoteResp" ELSE "MsgPreVoteResp"
VoteResp(type, from, to, term, reject) ==
    [type |-> type, from |-> from, to |-> to, term |-> term, reject |-> reject]

AppResp(from, to, term, index) ==
    [type |-> "MsgAppResp", from |-> from, to |-> to, term |-> term,
     index |-> index, reject |-> FALSE, rejectHint |-> 0, logTerm |-> 0]

Heartbeat(from, to, term, commit) ==
    [type |-> "MsgHeartbeat", from |-> from, to |-> to, term |-> term,
     commit |-> commit]

Plain(type, from, to, term) ==
    [type |-> type, from |-> from, to |-> to, term |-> term]

\* The append thread's acknowledgement of an applied snapshot. (That of the
\* entries is module LogStorage's subject.)
StorageAppendResp(i, term, snap) ==
    [type |-> "MsgStorageAppendResp", from |-> i, to |-> i, term |-> term,
     index |-> snap]

Prop(from, to, v) ==
    [type |-> "MsgProp", from |-> from, to |-> to, data |-> v]

(***************************************************************************)
(* raft.send with what RawNode does to its two queues. Responses that      *)
(* promise something (`after`, msgsAfterAppend) are released by the append *)
(* thread. The others (`now`, msgs) leave at once with asynchronous writes, *)
(* and without them also wait until the Ready that holds them is saved.    *)
(***************************************************************************)
\* Mutant: responses leave before the state they speak of is saved.
Send_Ungated(i, now, after) ==
    /\ net' = net \cup now \cup after
    /\ UNCHANGED pend

Send(i, now, after) ==
    /\ net'  = IF AsyncStorageWrites THEN net \cup now ELSE net
    /\ pend' = [pend EXCEPT ![i] = @ \cup after
                              \cup (IF AsyncStorageWrites THEN {} ELSE now)]

-----------------------------------------------------------------------------
(* reset and the become* transitions, on the scalar fields.                *)

\* Mutant: the vote is cleared even if the term stays the same.
reset_ClearVote(r, term) ==
    [r EXCEPT !.Term = term, !.Vote = None, !.lead = None,
              !.leadTransferee = None, !.timedOut = FALSE]

reset(r, term) ==
    [r EXCEPT !.Term = term, !.Vote = IF r.Term = term THEN @ ELSE None,
              !.lead = None, !.leadTransferee = None, !.timedOut = FALSE]

becomeFollower(r, term, lead) ==
    [reset(r, term) EXCEPT !.lead = lead, !.state = "StateFollower"]

becomeCandidate(r, i) ==
    [reset(r, r.Term + 1) EXCEPT !.Vote = i, !.state = "StateCandidate"]

becomePreCandidate(r) ==
    [r EXCEPT !.lead = None, !.state = "StatePreCandidate"]

becomeLeader(r, i) ==
    [reset(r, r.Term) EXCEPT !.lead = i, !.state = "StateLeader"]

NoVotes == [j \in Server |-> "missing"]

\* Mutant: Next is the last index rather than the one after it.
resetProgress_OffByOne(i, lg) ==
    [j \in Server |-> NewProgress(IF j = i THEN lastIndex(lg) ELSE 0,
                                  lastIndex(lg), FALSE)]

\* The Progress map that reset leaves: probe everyone after our last entry.
resetProgress(i, lg) ==
    [j \in Server |-> NewProgress(IF j = i THEN lastIndex(lg) ELSE 0,
                                  lastIndex(lg) + 1, FALSE)]

\* The same after becomeLeader: the leader trivially replicates to itself.
leaderProgress(i, lg) ==
    [resetProgress(i, lg) EXCEPT
        ![i] = [BecomeReplicate(@) EXCEPT !.RecentActive = TRUE]]

\* Server i's record becomes r; its vote and progress maps are reset when the
\* code went through reset, that is when `through` holds.
Become(i, r, through) ==
    /\ raft'  = [raft EXCEPT ![i] = r]
    /\ votes' = IF through THEN [votes EXCEPT ![i] = NoVotes] ELSE votes
    /\ trk'   = IF through
                THEN [trk EXCEPT ![i] = resetProgress(i, raftLog[i])] ELSE trk

promotable(i) == i \in Voters /\ raftLog[i].snap = 0

\* In Step: a follower that heard from a leader within the election timeout.
inLease(i) ==
    CheckQuorum /\ raft[i].lead # None /\ ~raft[i].timedOut

-----------------------------------------------------------------------------
(* Sending entries to one follower.                                        *)

NothingSent(pr) == [msgs |-> {}, pr |-> pr]

\* maybeSendSnapshot: the snapshot is the one Storage holds.
maybeSendSnapshot(i, to, pr) ==
    IF ~pr.RecentActive THEN NothingSent(pr)
    ELSE [msgs |-> {[type |-> "MsgSnap", from |-> i, to |-> to,
                     term |-> raft[i].Term, snapshot |-> disk[i].snapshot]},
          pr   |-> BecomeSnapshot(pr, Len(disk[i].snapshot))]

(***************************************************************************)
(* Up to atMost consecutive calls of maybeSendAppend, which stop when one  *)
(* sends nothing: what they send and the Progress they leave. Each message *)
(* carries at most MaxEntsPerMsg entries. A full window or the end of the  *)
(* log leaves an empty message, sent only if sendIfEmpty holds.            *)
(***************************************************************************)
maybeSendAppend(i, to, pr, lg, atMost, sendIfEmpty) ==
    LET prev  == pr.Next - 1
        left  == IF pr.Next > lastIndex(lg) THEN 0 ELSE lastIndex(lg) - prev
        room  == IF pr.State = "StateReplicate"
                 THEN MaxInflight - Len(pr.Inflights) ELSE 1
        n     == Least(atMost, Least(room,
                    (left + MaxEntsPerMsg - 1) \div MaxEntsPerMsg))
        End(k) == Least(prev + k * MaxEntsPerMsg, lastIndex(lg))
        App(p, end) == [type |-> "MsgApp", from |-> i, to |-> to,
                        term |-> raft[i].Term, index |-> p,
                        logTerm |-> TermAt(lg.ents, p),
                        entries |-> SubSeq(lg.ents, p + 1, end),
                        commit |-> lg.committed]
        Sent(msgs, count, ends) ==
            [msgs |-> msgs,
             pr   |-> SentCommit(SentEntries(pr, count, ends), lg.committed)]
    IN  IF IsPaused(pr) THEN NothingSent(pr)
        ELSE IF ~HasTerm(lg, prev) THEN maybeSendSnapshot(i, to, pr)
        ELSE IF n > 0 THEN
            Sent({App(End(k - 1), End(k)) : k \in 1..n}, End(n) - prev,
                 [k \in 1..n |-> End(k)])
        ELSE IF sendIfEmpty THEN Sent({App(prev, prev)}, 0, << >>)
        ELSE NothingSent(pr)

\* The calls for every follower in `targets`, given the Progress map prs.
SendAppends(i, prs, lg, targets, atMost, sendIfEmpty) ==
    [j \in Server |-> IF j \in targets
                      THEN maybeSendAppend(i, j, prs[j], lg, atMost, sendIfEmpty)
                      ELSE NothingSent(prs[j])]
bcastAppend(i, prs, lg) == SendAppends(i, prs, lg, Server \ {i}, 1, TRUE)

MsgsOf(out)     == UNION {out[j].msgs : j \in Server}
ProgressOf(out) == [j \in Server |-> out[j].pr]

\* raftLog.maybeCommit at trk.Committed(): only an entry of this term counts.
maybeCommit(lg, term, prs) ==
    LET index == JointCommittedIndex(Config, [j \in Server |-> prs[j].Match])
    IN  IF term # 0 /\ index > lg.committed /\ matchTerm(lg, index, term)
        THEN commitTo(lg, index) ELSE lg

appendEntry(lg, term, data) ==
    [lg EXCEPT !.ents = Append(@, [term |-> term, data |-> data])]

-----------------------------------------------------------------------------
(* Elections.                                                              *)

\* campaign, from the record r: ask every other voter, and promise ourselves
\* our own vote once it is durable.
campaign(i, r, pre, transfer) ==
    LET c    == IF pre THEN becomePreCandidate(r) ELSE becomeCandidate(r, i)
        term == r.Term + 1
        type == IF pre THEN "MsgPreVote" ELSE "MsgVote"
    IN  /\ raft'  = [raft EXCEPT ![i] = c]
        /\ votes' = [votes EXCEPT ![i] = NoVotes]
        /\ trk'   = IF pre THEN trk
                    ELSE [trk EXCEPT ![i] = resetProgress(i, raftLog[i])]
        /\ Send(i, {Vote(type, i, j, term, raftLog[i], transfer)
                        : j \in Voters \ {i}},
                   {VoteResp(RespType(type), i, i, term, FALSE)})

\* MsgHup, from tickElection or RawNode.Campaign.
Campaign(i) ==
    /\ raft[i].state # "StateLeader"
    /\ promotable(i)
    /\ campaign(i, raft[i], PreVote, FALSE)
    /\ UNCHANGED <<raftLog, disk, appendQ, elected>>

\* electionElapsed reaches electionTimeout: the lease on the leader expires.
Tick(i) ==
    /\ raft[i].state = "StateFollower" /\ raft[i].lead # None
    /\ ~raft[i].timedOut
    /\ raft' = [raft EXCEPT ![i].timedOut = TRUE]
    /\ UNCHANGED <<votes, trk, raftLog, disk, pend, appendQ, net, elected>>

\* We can vote for m.from if this repeats a vote, if we neither voted nor know
\* a leader in this term, or if the request is a pre-vote for a future term.
canVote(r, m) ==
    \/ r.Vote = m.from
    \/ r.Vote = None /\ r.lead = None
    \/ m.type = "MsgPreVote" /\ m.term > r.Term

\* MsgVote and MsgPreVote at our term or above, outside the leader's lease.
HandleVote(i, m) ==
    LET higher  == m.term > raft[i].Term
        adopt   == higher /\ m.type = "MsgVote"
        r       == IF adopt THEN becomeFollower(raft[i], m.term, None)
                   ELSE raft[i]
        grant   == canVote(r, m) /\ isUpToDate(raftLog[i], m.index, m.logTerm)
    IN  /\ m.type \in {"MsgVote", "MsgPreVote"}
        /\ m.term >= raft[i].Term
        /\ ~(higher /\ ~m.context /\ inLease(i))
        /\ Become(i, IF grant /\ m.type = "MsgVote"
                     THEN [r EXCEPT !.Vote = m.from, !.timedOut = FALSE]
                     ELSE r, adopt)
        /\ Send(i, {}, {VoteResp(RespType(m.type), i, m.from,
                                 IF grant THEN m.term ELSE r.Term, ~grant)})
        /\ UNCHANGED <<raftLog, disk, appendQ, elected>>

\* The response of our candidacy, and the tally once poll has recorded it.
IsPoll(i, m) ==
    \/ /\ raft[i].state = "StateCandidate" /\ m.type = "MsgVoteResp"
       /\ m.term = raft[i].Term
    \/ /\ raft[i].state = "StatePreCandidate" /\ m.type = "MsgPreVoteResp"
       /\ \/ m.term = raft[i].Term
          \/ m.term > raft[i].Term /\ ~m.reject

\* Mutant: a rejection counts as a grant.
Polled_AnyAnswer(i, m) == [votes[i] EXCEPT ![m.from] = "granted"]

\* poll: only the first answer of a server counts.
Polled(i, m) ==
    [votes[i] EXCEPT ![m.from] =
        IF @ # "missing" THEN @ ELSE IF m.reject THEN "rejected" ELSE "granted"]
Tally(i, m) == JointVoteResult(Config, Polled(i, m))

PollPending(i, m) ==
    /\ IsPoll(i, m) /\ Tally(i, m) = "VotePending"
    /\ votes' = [votes EXCEPT ![i] = Polled(i, m)]
    /\ UNCHANGED <<raft, trk, raftLog, disk, pend, appendQ, net, elected>>

PollLost(i, m) ==
    /\ IsPoll(i, m) /\ Tally(i, m) = "VoteLost"
    /\ Become(i, becomeFollower(raft[i], raft[i].Term, None), TRUE)
    /\ UNCHANGED <<raftLog, disk, pend, appendQ, net, elected>>

PollPreVoteWon(i, m) ==
    /\ IsPoll(i, m) /\ Tally(i, m) = "VoteWon"
    /\ raft[i].state = "StatePreCandidate"
    /\ campaign(i, raft[i], FALSE, FALSE)
    /\ UNCHANGED <<raftLog, disk, appendQ, elected>>

\* The new leader appends an empty entry of its term and broadcasts it.
PollWon(i, m) ==
    LET lg  == appendEntry(raftLog[i], raft[i].Term, NoData)
        out == bcastAppend(i, leaderProgress(i, raftLog[i]), lg)
    IN  /\ IsPoll(i, m) /\ Tally(i, m) = "VoteWon"
        /\ raft[i].state = "StateCandidate"
        /\ raft'    = [raft EXCEPT ![i] = becomeLeader(@, i)]
        /\ votes'   = [votes EXCEPT ![i] = NoVotes]
        /\ trk'     = [trk EXCEPT ![i] = ProgressOf(out)]
        /\ raftLog' = [raftLog EXCEPT ![i] = lg]
        /\ elected' = elected \cup {<<raft[i].Term, i>>}
        /\ Send(i, MsgsOf(out), {AppResp(i, i, raft[i].Term, lastIndex(lg))})
        /\ UNCHANGED <<disk, appendQ>>

\* Mutant: whoever shows us a higher term is taken for its leader.
StepDown_TrustSender(i, m) ==
    /\ m.type \in {"MsgAppResp", "MsgHeartbeatResp", "MsgVoteResp",
                   "MsgPreVoteResp"}
    /\ m.term > raft[i].Term
    /\ Become(i, becomeFollower(raft[i], m.term, m.from), TRUE)
    /\ UNCHANGED <<raftLog, disk, pend, appendQ, net, elected>>

\* A response, or a forwarded transfer request, of a higher term: we follow
\* that term with no leader, and the message has no further effect.
StepDown(i, m) ==
    /\ \/ m.type \in {"MsgAppResp", "MsgHeartbeatResp", "MsgVoteResp",
                      "MsgTransferLeader"}
       \/ m.type = "MsgPreVoteResp" /\ m.reject
    /\ m.term > raft[i].Term
    /\ Become(i, becomeFollower(raft[i], m.term, None), TRUE)
    /\ UNCHANGED <<raftLog, disk, pend, appendQ, net, elected>>

\* Messages of a lower term that are answered rather than ignored.
StepLowerTerm(i, m) ==
    /\ m.type \in {"MsgApp", "MsgHeartbeat", "MsgPreVote"}
    /\ m.term < raft[i].Term
    /\ m.type = "MsgPreVote" \/ CheckQuorum \/ PreVote
    /\ Send(i, {}, {IF m.type = "MsgPreVote"
                    THEN VoteResp("MsgPreVoteResp", i, m.from, raft[i].Term, TRUE)
                    ELSE AppResp(i, m.from, raft[i].Term, 0)})
    /\ UNCHANGED <<raft, votes, trk, raftLog, disk, appendQ, elected>>

-----------------------------------------------------------------------------
(* Followers: messages of the leader.                                      *)

\* Step, stepCandidate and stepFollower up to the handler: whoever sends
\* MsgApp, MsgHeartbeat or MsgSnap at our term or above is the leader.
FromLeader(i, m) ==
    /\ m.term >= raft[i].Term
    /\ ~(m.term = raft[i].Term /\ raft[i].state = "StateLeader")
Follows(i, m) == m.term = raft[i].Term /\ raft[i].state = "StateFollower"
Followed(i, m) ==
    IF Follows(i, m) THEN [raft[i] EXCEPT !.lead = m.from, !.timedOut = FALSE]
    ELSE becomeFollower(raft[i], m.term, m.from)

HandleAppendEntries(i, m) ==
    LET lg    == raftLog[i]
        match == matchTerm(lg, m.index, m.logTerm)
        hint  == findConflictByTerm(lg, Least(m.index, lastIndex(lg)), m.logTerm)
        resp(index) == AppResp(i, m.from, m.term, index)
    IN  /\ m.type = "MsgApp" /\ FromLeader(i, m)
        /\ Become(i, Followed(i, m), ~Follows(i, m))
        /\ \/ /\ m.index < lg.committed
              /\ Send(i, {}, {resp(lg.committed)})
              /\ UNCHANGED raftLog
           \/ /\ m.index >= lg.committed /\ match
              /\ raftLog' = [raftLog EXCEPT ![i] =
                               maybeAppend(lg, m.index, m.entries, m.commit)]
              /\ Send(i, {}, {resp(m.index + Len(m.entries))})
           \/ /\ m.index >= lg.committed /\ ~match
              /\ Send(i, {}, {[resp(m.index) EXCEPT
                                 !.reject = TRUE, !.rejectHint = hint,
                                 !.logTerm = KnownTerm(lg, hint)]})
              /\ UNCHANGED raftLog
        /\ UNCHANGED <<disk, appendQ, elected>>

HandleHeartbeat(i, m) ==
    /\ m.type = "MsgHeartbeat" /\ FromLeader(i, m)
    /\ Become(i, Followed(i, m), ~Follows(i, m))
    /\ raftLog' = [raftLog EXCEPT ![i] = commitTo(@, m.commit)]
    /\ Send(i, {Plain("MsgHeartbeatResp", i, m.from, m.term)}, {})
    /\ UNCHANGED <<disk, appendQ, elected>>

\* handleSnapshot: obsolete, a fast-forward of the commit index, or restored.
HandleSnapshot(i, m) ==
    LET lg    == raftLog[i]
        index == Len(m.snapshot)
        match == matchTerm(lg, index, TermAt(m.snapshot, index))
        resp(k) == {AppResp(i, m.from, m.term, k)}
    IN  /\ m.type = "MsgSnap" /\ FromLeader(i, m)
        /\ \/ /\ index <= lg.committed
              /\ Become(i, Followed(i, m), ~Follows(i, m))
              /\ Send(i, {}, resp(lg.committed))
              /\ UNCHANGED raftLog
           \/ /\ index > lg.committed /\ match
              /\ Become(i, Followed(i, m), ~Follows(i, m))
              /\ raftLog' = [raftLog EXCEPT ![i] = commitTo(@, index)]
              /\ Send(i, {}, resp(index))
           \/ /\ index > lg.committed /\ ~match
              /\ raft'    = [raft EXCEPT ![i] = Followed(i, m)]
              /\ votes'   = [votes EXCEPT ![i] = NoVotes]
              /\ trk'     = [trk EXCEPT ![i] =
                               [j \in Server |-> NewProgress(0, index, TRUE)]]
              /\ raftLog' = [raftLog EXCEPT ![i] = restoreLog(m.snapshot)]
              /\ Send(i, {}, resp(index))
        /\ UNCHANGED <<disk, appendQ, elected>>

\* A transfer never uses pre-vote; hup refuses when we are not promotable.
HandleTimeoutNow(i, m) ==
    LET higher == m.term > raft[i].Term
        r == IF higher THEN becomeFollower(raft[i], m.term, None) ELSE raft[i]
    IN  /\ m.type = "MsgTimeoutNow" /\ m.term >= raft[i].Term
        /\ r.state = "StateFollower"
        /\ IF promotable(i) THEN campaign(i, r, FALSE, TRUE)
           ELSE Become(i, r, higher) /\ UNCHANGED <<pend, net>>
        /\ UNCHANGED <<raftLog, disk, appendQ, elected>>

ForgetLeader(i) ==
    /\ raft[i].state = "StateFollower" /\ raft[i].lead # None
    /\ raft' = [raft EXCEPT ![i].lead = None]
    /\ UNCHANGED <<votes, trk, raftLog, disk, pend, appendQ, net, elected>>

-----------------------------------------------------------------------------
(* Leaders.                                                                *)

Leads(i) == raft[i].state = "StateLeader"

\* stepLeader gets a response of its own term from a member.
IsResp(i, m, type) == m.type = type /\ Leads(i) /\ m.term = raft[i].Term

Active(i, j) == [trk[i][j] EXCEPT !.RecentActive = TRUE]

HandleAppendReject(i, m) ==
    LET j     == m.from
        pr    == Active(i, j)
        probe == IF m.logTerm > 0
                 THEN findConflictByTerm(raftLog[i], m.rejectHint, m.logTerm)
                 ELSE m.rejectHint
        decr  == MaybeDecrTo(pr, m.index, probe)
        back  == IF pr.State = "StateReplicate" THEN BecomeProbe(decr) ELSE decr
        out   == IF IsGenuine(pr, m.index)
                 THEN maybeSendAppend(i, j, back, raftLog[i], 1, TRUE)
                 ELSE NothingSent(pr)
    IN  /\ IsResp(i, m, "MsgAppResp") /\ m.reject
        /\ trk' = [trk EXCEPT ![i][j] = out.pr]
        /\ Send(i, out.msgs, {})
        /\ UNCHANGED <<raft, votes, raftLog, disk, appendQ, elected>>

\* The Progress an ack moves back to replication, if it does.
Acked(pr, index, first) ==
    LET up == MaybeUpdate(pr, index)
    IN  IF up.State = "StateProbe" THEN BecomeReplicate(up)
        ELSE IF up.State = "StateSnapshot" /\ up.Match + 1 >= first
             THEN BecomeReplicate(BecomeProbe(up))
        ELSE IF up.State = "StateReplicate"
             THEN [up EXCEPT !.Inflights = FreeLE(@, index)]
        ELSE up

\* An ack that neither advances Match nor ends a probe only marks j active.
HandleAppendAck(i, m) ==
    LET j     == m.from
        pr    == Active(i, j)
        prs   == [trk[i] EXCEPT ![j] = Acked(pr, m.index, raftLog[i].first)]
        lg    == maybeCommit(raftLog[i], raft[i].Term, prs)
        first == IF lg.committed > raftLog[i].committed THEN Server \ {i}
                 ELSE IF CanBumpCommit(prs[j], lg.committed) THEN {j} \ {i}
                 ELSE {}
        out   == SendAppends(i, prs, lg, first, 1, TRUE)
        more  == SendAppends(i, ProgressOf(out), lg, {j} \ {i}, MaxInflight, FALSE)
        done  == j = raft[i].leadTransferee /\ prs[j].Match = lastIndex(lg)
        news  == \/ IsNews(pr, m.index)
                 \/ pr.Match = m.index /\ pr.State = "StateProbe"
    IN  /\ IsResp(i, m, "MsgAppResp") /\ ~m.reject
        /\ \/ /\ news
              /\ trk'     = [trk EXCEPT ![i] = ProgressOf(more)]
              /\ raftLog' = [raftLog EXCEPT ![i] = lg]
              /\ Send(i, MsgsOf(out) \cup MsgsOf(more)
                         \cup (IF done THEN {Plain("MsgTimeoutNow", i, j,
                                                   raft[i].Term)} ELSE {}), {})
           \/ /\ ~news
              /\ trk' = [trk EXCEPT ![i][j] = pr]
              /\ UNCHANGED <<raftLog, pend, net>>
        /\ UNCHANGED <<raft, votes, disk, appendQ, elected>>

HandleHeartbeatResp(i, m) ==
    LET j   == m.from
        pr  == [Active(i, j) EXCEPT !.MsgAppFlowPaused = FALSE]
        out == IF pr.Match < lastIndex(raftLog[i]) \/ pr.State = "StateProbe"
               THEN maybeSendAppend(i, j, pr, raftLog[i], 1, TRUE)
               ELSE NothingSent(pr)
    IN  /\ IsResp(i, m, "MsgHeartbeatResp")
        /\ trk' = [trk EXCEPT ![i][j] = out.pr]
        /\ Send(i, out.msgs, {})
        /\ UNCHANGED <<raft, votes, raftLog, disk, appendQ, elected>>

\* Mutant: the commit index is sent as it is.
Beat_Uncut(i) ==
    /\ Leads(i)
    /\ Send(i, {Heartbeat(i, j, raft[i].Term, raftLog[i].committed)
                  : j \in Server \ {i}}, {})
    /\ UNCHANGED <<raft, votes, trk, raftLog, disk, appendQ, elected>>

\* MsgBeat: to each member the commit index, cut at what it is known to have.
Beat(i) ==
    LET commit(j) == Least(trk[i][j].Match, raftLog[i].committed)
    IN  /\ Leads(i)
        /\ trk' = [trk EXCEPT ![i] = [j \in Server |->
                     IF j = i THEN @[j] ELSE SentCommit(@[j], commit(j))]]
        /\ Send(i, {Heartbeat(i, j, raft[i].Term, commit(j))
                      : j \in Server \ {i}}, {})
        /\ UNCHANGED <<raft, votes, raftLog, disk, appendQ, elected>>

QuorumActive(i) ==
    JointVoteResult(Config, [j \in Server |->
        IF trk[i][j].RecentActive THEN "granted" ELSE "rejected"]) = "VoteWon"

\* Mutant: a leader without an active quorum goes on following itself.
LeaderTimeout_KeepLead(i) ==
    /\ Leads(i) /\ ~QuorumActive(i)
    /\ Become(i, becomeFollower(raft[i], raft[i].Term, i), TRUE)
    /\ UNCHANGED <<raftLog, disk, pend, appendQ, net, elected>>

\* tickHeartbeat at the election timeout: MsgCheckQuorum, then the end of the
\* time a leadership transfer is given.
LeaderTimeout(i) ==
    LET lost == CheckQuorum /\ ~QuorumActive(i)
        idle == [j \in Server |-> IF j = i \/ ~CheckQuorum THEN trk[i][j]
                                  ELSE [trk[i][j] EXCEPT !.RecentActive = FALSE]]
    IN  /\ Leads(i)
        /\ \/ /\ lost
              /\ Become(i, becomeFollower(raft[i], raft[i].Term, None), TRUE)
           \/ /\ ~lost
              /\ raft' = [raft EXCEPT ![i].leadTransferee = None]
              /\ trk'  = [trk EXCEPT ![i] = idle]
              /\ UNCHANGED votes
        /\ UNCHANGED <<raftLog, disk, pend, appendQ, net, elected>>

\* MsgProp, proposed here or forwarded to us: append it as the leader, pass it
\* on as a follower that knows one; everything else drops it.
StepProp(i, from, v) ==
    LET lg  == appendEntry(raftLog[i], raft[i].Term, v)
        out == bcastAppend(i, trk[i], lg)
    IN  /\ \/ /\ Leads(i) /\ raft[i].leadTransferee = None
              /\ raftLog' = [raftLog EXCEPT ![i] = lg]
              /\ trk' = [trk EXCEPT ![i] = ProgressOf(out)]
              /\ Send(i, MsgsOf(out), {AppResp(i, i, raft[i].Term, lastIndex(lg))})
           \/ /\ raft[i].state = "StateFollower" /\ raft[i].lead # None
              /\ ~DisableProposalForwarding
              /\ Send(i, {Prop(from, raft[i].lead, v)}, {})
              /\ UNCHANGED <<raftLog, trk>>
        /\ UNCHANGED <<raft, votes, disk, appendQ, elected>>

Propose(i, v)    == StepProp(i, i, v)
HandleProp(i, m) == m.type = "MsgProp" /\ StepProp(i, m.from, m.data)

\* MsgTransferLeader at the leader, for the voter x.
leaderTransfer(i, x) ==
    LET out == IF trk[i][x].Match = lastIndex(raftLog[i])
               THEN [NothingSent(trk[i][x]) EXCEPT
                       !.msgs = {Plain("MsgTimeoutNow", i, x, raft[i].Term)}]
               ELSE maybeSendAppend(i, x, trk[i][x], raftLog[i], 1, TRUE)
    IN  /\ Leads(i) /\ x \in Voters /\ raft[i].leadTransferee # x
        /\ \/ /\ x = i
              /\ raft' = [raft EXCEPT ![i].leadTransferee = None]
              /\ UNCHANGED <<trk, pend, net>>
           \/ /\ x # i
              /\ raft' = [raft EXCEPT ![i].leadTransferee = x,
                                      ![i].timedOut = FALSE]
              /\ trk'  = [trk EXCEPT ![i][x] = out.pr]
              /\ Send(i, out.msgs, {})
        /\ UNCHANGED <<votes, raftLog, disk, appendQ, elected>>

\* RawNode.TransferLeader; a follower forwards the request in x's name.
TransferLeader(i, x) ==
    \/ leaderTransfer(i, x)
    \/ /\ raft[i].state = "StateFollower" /\ raft[i].lead # None
       /\ Send(i, {Plain("MsgTransferLeader", x, raft[i].lead, raft[i].Term)}, {})
       /\ UNCHANGED <<raft, votes, trk, raftLog, disk, appendQ, elected>>

HandleTransferLeader(i, m) ==
    /\ m.type = "MsgTransferLeader" /\ m.term = raft[i].Term
    /\ leaderTransfer(i, m.from)

\* MsgUnreachable and MsgSnapStatus, reported by the application.
ReportUnreachable(i, j) ==
    /\ Leads(i) /\ j # i /\ trk[i][j].State = "StateReplicate"
    /\ trk' = [trk EXCEPT ![i][j] = BecomeProbe(@)]
    /\ UNCHANGED <<raft, votes, raftLog, disk, pend, appendQ, net, elected>>

ReportSnapshot(i, j, failed) ==
    LET pr == IF failed THEN [trk[i][j] EXCEPT !.PendingSnapshot = 0]
              ELSE trk[i][j]
    IN  /\ Leads(i) /\ trk[i][j].State = "StateSnapshot"
        /\ trk' = [trk EXCEPT ![i][j] =
                     [BecomeProbe(pr) EXCEPT !.MsgAppFlowPaused = TRUE]]
        /\ UNCHANGED <<raft, votes, raftLog, disk, pend, appendQ, net, elected>>

-----------------------------------------------------------------------------
(* RawNode and the append thread.                                          *)

\* What the last accepted Ready holds: the tail of the queue, or the disk.
Accepted(i) == IF appendQ[i] = << >> THEN disk[i]
               ELSE appendQ[i][Len(appendQ[i])]

\* The unstable snapshot, unless an earlier Ready has handed it out.
nextUnstableSnapshot(i) ==
    IF \/ raftLog[i].snap <= Len(disk[i].snapshot)
       \/ \E k \in 1..Len(appendQ[i]) :
            Len(appendQ[i][k].snapshot) = raftLog[i].snap
    THEN << >> ELSE SubSeq(raftLog[i].ents, 1, raftLog[i].snap)

(***************************************************************************)
(* The MsgStorageAppend of a Ready: the HardState, the log, the snapshot   *)
(* and the messages that wait for them. An item holds the whole log, since *)
(* the writes before it leave the disk equal to the log up to the first    *)
(* entry of this one.                                                      *)
(***************************************************************************)
StorageAppend(i) ==
    LET snap == nextUnstableSnapshot(i)
    IN  [Term |-> raft[i].Term, Vote |-> raft[i].Vote,
         committed |-> raftLog[i].committed, ents |-> raftLog[i].ents,
         snapshot |-> snap,
         resps |-> pend[i] \cup
                     (IF snap = << >> THEN {}
                      ELSE {StorageAppendResp(i, raft[i].Term, Len(snap))})]

HasReady(i) ==
    LET item == StorageAppend(i)
        last == Accepted(i)
    IN  \/ item.resps # {} \/ item.ents # last.ents
        \/ <<item.Term, item.Vote, item.committed>>
             # <<last.Term, last.Vote, last.committed>>

\* What Storage holds once the append thread has saved item m.
Saved(d, m) ==
    [Term |-> m.Term, Vote |-> m.Vote, committed |-> m.committed,
     ents |-> m.ents,
     first    |-> IF m.snapshot = << >> THEN d.first ELSE Len(m.snapshot) + 1,
     snapshot |-> IF m.snapshot = << >> THEN d.snapshot ELSE m.snapshot]

\* Without asynchronous writes the next Ready waits for Advance.
Ready(i) ==
    /\ HasReady(i)
    /\ AsyncStorageWrites \/ appendQ[i] = << >>
    /\ appendQ' = [appendQ EXCEPT ![i] = Append(@, StorageAppend(i))]
    /\ pend'    = [pend EXCEPT ![i] = {}]
    /\ UNCHANGED <<raft, votes, trk, raftLog, disk, net, elected>>

\* The append thread saves the oldest item, then releases its responses.
ProcessAppend(i) ==
    /\ appendQ[i] # << >>
    /\ disk'    = [disk EXCEPT ![i] = Saved(@, appendQ[i][1])]
    /\ appendQ' = [appendQ EXCEPT ![i] = Tail(@)]
    /\ net'     = net \cup appendQ[i][1].resps
    /\ UNCHANGED <<raft, votes, trk, raftLog, pend, elected>>

\* appliedSnap, at whatever term: the snapshot is in Storage, and from now on
\* Storage says where the log begins.
HandleStorageAppendResp(i, m) ==
    /\ m.type = "MsgStorageAppendResp" /\ m.index = raftLog[i].snap
    /\ raftLog' = [raftLog EXCEPT ![i].snap = 0, ![i].first = disk[i].first]
    /\ UNCHANGED <<raft, votes, trk, disk, pend, appendQ, net, elected>>

\* The application snapshots the state it has applied, and compacts the log
\* behind the snapshot. It applies nothing that Storage does not hold.
CreateSnapshot(i, k) ==
    /\ k > Len(disk[i].snapshot)
    /\ k <= disk[i].committed /\ k <= Len(disk[i].ents)
    /\ disk' = [disk EXCEPT ![i].snapshot = SubSeq(disk[i].ents, 1, k)]
    /\ UNCHANGED <<raft, votes, trk, raftLog, pend, appendQ, net, elected>>

Compact(i, k) ==
    /\ k >= disk[i].first /\ k <= Len(disk[i].snapshot)
    /\ disk'    = [disk EXCEPT ![i].first = k + 1]
    /\ raftLog' = [raftLog EXCEPT ![i].first =
                     IF raftLog[i].snap = 0 THEN k + 1 ELSE @]
    /\ UNCHANGED <<raft, votes, trk, pend, appendQ, net, elected>>

\* A crash, and newRaft on what Storage holds.
Restart(i) ==
    LET d  == disk[i]
        lg == [ents |-> d.ents, first |-> d.first, committed |-> d.committed,
               snap |-> 0]
    IN  /\ raft'    = [raft EXCEPT ![i] =
                         [Term |-> d.Term, Vote |-> d.Vote,
                          state |-> "StateFollower", lead |-> None,
                          leadTransferee |-> None, timedOut |-> FALSE]]
        /\ votes'   = [votes EXCEPT ![i] = NoVotes]
        /\ trk'     = [trk EXCEPT ![i] = resetProgress(i, lg)]
        /\ raftLog' = [raftLog EXCEPT ![i] = lg]
        /\ pend'    = [pend EXCEPT ![i] = {}]
        /\ appendQ' = [appendQ EXCEPT ![i] = << >>]
        /\ UNCHANGED <<disk, net, elected>>

-----------------------------------------------------------------------------
(* The specification. A cluster starts with empty logs at term 0.          *)

Init ==
    /\ raft    = [i \in Server |->
                    [Term |-> 0, Vote |-> None, state |-> "StateFollower",
                     lead |-> None, leadTransferee |-> None, timedOut |-> FALSE]]
    /\ votes   = [i \in Server |-> NoVotes]
    /\ trk     = [i \in Server |-> resetProgress(i, EmptyLog)]
    /\ raftLog = [i \in Server |-> EmptyLog]
    /\ disk    = [i \in Server |-> [Term |-> 0, Vote |-> None, committed |-> 0,
                                    ents |-> << >>, first |-> 1, snapshot |-> << >>]]
    /\ pend    = [i \in Server |-> {}]
    /\ appendQ = [i \in Server |-> << >>]
    /\ net = {} /\ elected = {}

\* One call of raft.Step with a message m that the transport hands to i.
Receive(i, m) ==
    \/ HandleVote(i, m)
    \/ PollPending(i, m) \/ PollLost(i, m) \/ PollPreVoteWon(i, m) \/ PollWon(i, m)
    \/ StepDown(i, m) \/ StepLowerTerm(i, m)
    \/ HandleAppendEntries(i, m) \/ HandleHeartbeat(i, m) \/ HandleSnapshot(i, m)
    \/ HandleTimeoutNow(i, m)
    \/ HandleAppendReject(i, m) \/ HandleAppendAck(i, m) \/ HandleHeartbeatResp(i, m)
    \/ HandleProp(i, m) \/ HandleTransferLeader(i, m)
    \/ HandleStorageAppendResp(i, m)

\* A call of the RawNode interface, or a timer.
Local(i) ==
    \/ Campaign(i) \/ Tick(i) \/ Beat(i) \/ LeaderTimeout(i) \/ ForgetLeader(i)
    \/ \E v \in Value : Propose(i, v)
    \/ \E j \in Server : \/ TransferLeader(i, j) \/ ReportUnreachable(i, j)
                         \/ \E failed \in BOOLEAN : ReportSnapshot(i, j, failed)

Durability(i) ==
    \/ Ready(i) \/ ProcessAppend(i) \/ Restart(i)
    \/ \E k \in 1..disk[i].committed : CreateSnapshot(i, k) \/ Compact(i, k)

Next == \E i \in Server :
    Local(i) \/ Durability(i) \/ \E m \in net : m.to = i /\ Receive(i, m)

Spec == Init /\ [][Next]_vars

-----------------------------------------------------------------------------
(* Types.                                                                  *)

StateType == {"StateFollower", "StateCandidate", "StatePreCandidate",
              "StateLeader"}

RaftType == [Term : Nat, Vote : Server \cup {None}, state : StateType,
             lead : Server \cup {None}, leadTransferee : Server \cup {None},
             timedOut : BOOLEAN]

VoteMsg ==
    [type : {"MsgVote", "MsgPreVote"}, from : Server, to : Server, term : Nat,
     index : Nat, logTerm : Nat, context : BOOLEAN]
VoteRespMsg ==
    [type : {"MsgVoteResp", "MsgPreVoteResp"}, from : Server, to : Server,
     term : Nat, reject : BOOLEAN]
AppMsg ==
    [type : {"MsgApp"}, from : Server, to : Server, term : Nat, index : Nat,
     logTerm : Nat, entries : Seq(Entry), commit : Nat]
AppRespMsg ==
    [type : {"MsgAppResp"}, from : Server, to : Server, term : Nat,
     index : Nat, reject : BOOLEAN, rejectHint : Nat, logTerm : Nat]
SnapMsg ==
    [type : {"MsgSnap"}, from : Server, to : Server, term : Nat,
     snapshot : Seq(Entry)]
HeartbeatMsg ==
    [type : {"MsgHeartbeat"}, from : Server, to : Server, term : Nat,
     commit : Nat]
PlainMsg ==
    [type : {"MsgHeartbeatResp", "MsgTimeoutNow", "MsgTransferLeader"},
     from : Server, to : Server, term : Nat]
StorageMsg ==
    [type : {"MsgStorageAppendResp"}, from : Server, to : Server, term : Nat,
     index : Nat]
PropMsg ==
    [type : {"MsgProp"}, from : Server, to : Server, data : Value]

Message == VoteMsg \cup VoteRespMsg \cup AppMsg \cup AppRespMsg \cup SnapMsg
             \cup HeartbeatMsg \cup PlainMsg \cup StorageMsg \cup PropMsg

AppendItem == [Term : Nat, Vote : Server \cup {None}, committed : Nat,
               ents : Seq(Entry), snapshot : Seq(Entry), resps : SUBSET Message]
DiskType   == [Term : Nat, Vote : Server \cup {None}, committed : Nat,
               ents : Seq(Entry), first : Nat \ {0}, snapshot : Seq(Entry)]

\* Every field of struct raft, of Storage and of every message has its type.
TypeOK ==
    /\ raft    \in [Server -> RaftType]
    /\ votes   \in [Server -> [Server -> Ballot]]
    /\ trk     \in [Server -> [Server -> ProgressType]]
    /\ raftLog \in [Server -> LogType]
    /\ disk    \in [Server -> DiskType]
    /\ pend    \in [Server -> SUBSET Message]
    /\ appendQ \in [Server -> Seq(AppendItem)]
    /\ net     \in SUBSET Message
    /\ elected \in SUBSET (Nat \X Server)

-----------------------------------------------------------------------------
(* Elections.                                                              *)

\* At most one server ever wins the election of a term, whatever crashes,
\* delays and repetitions happen to the votes (Step, campaign, poll).
ElectionSafety == \A e, f \in elected : e[1] = f[1] => e[2] = f[2]

\* r.lead is never a guess: it names the server that won r.Term. stepFollower
\* relies on it to forward proposals, and inLease to ignore candidates.
LeadIsElected ==
    \A i \in Server : raft[i].lead # None =>
        <<raft[i].Term, raft[i].lead>> \in elected

\* send panics on a MsgTransferLeader that already carries a term, which is
\* what a follower that knows a leader would forward: no such follower gets one.
NoForwardPanic ==
    \A m \in net : m.type = "MsgTransferLeader" =>
        ~ /\ m.term = raft[m.to].Term
          /\ raft[m.to].state = "StateFollower" /\ raft[m.to].lead # None

\* What a restart starts from never goes back: the saved term does not
\* decrease and the saved vote does not change within a term (MustSync).
DurableVote ==
    [][\A i \in Server :
        /\ disk'[i].Term >= disk[i].Term
        /\ disk'[i].Term = disk[i].Term /\ disk[i].Vote # None
             => disk'[i].Vote = disk[i].Vote]_vars

-----------------------------------------------------------------------------
(* Logs.                                                                   *)

PrefixUpTo(ents, k) == SubSeq(ents, 1, k)
SameUpTo(s, t, k) ==
    Len(s) >= k /\ Len(t) >= k /\ PrefixUpTo(s, k) = PrefixUpTo(t, k)

\* Two logs, in memory or on disk, that agree on the term at an index agree
\* on everything up to it: the check of handleAppendEntries is by induction.
LogMatching ==
    LET logs == {raftLog[i].ents : i \in Server} \cup {disk[i].ents : i \in Server}
    IN  \A s, t \in logs : \A k \in 1..Least(Len(s), Len(t)) :
            s[k].term = t[k].term => SameUpTo(s, t, k)

\* A leader's log holds every entry that a server of its term or an earlier
\* one has committed: isUpToDate keeps the others from being elected.
LeaderCompleteness ==
    \A i, j \in Server :
        raft[i].state = "StateLeader" /\ raft[j].Term <= raft[i].Term
            => SameUpTo(raftLog[i].ents, raftLog[j].ents, raftLog[j].committed)

\* No two servers ever commit different entries at the same index.
StateMachineSafety ==
    \A i, j \in Server :
        SameUpTo(raftLog[i].ents, raftLog[j].ents,
                 Least(raftLog[i].committed, raftLog[j].committed))

\* raftLog.committed is "the highest log position that is known to be in
\* stable storage on a quorum of nodes" (log.go).
CommittedOnQuorumDisks ==
    \A i \in Server :
        IsJointQuorum(Config, {j \in Server :
            SameUpTo(disk[j].ents, raftLog[i].ents, raftLog[i].committed)})

\* The panics of commitTo and loadState are unreachable: the commit index is
\* never beyond the log, in memory or on disk, nor behind its first index.
CommitInRange ==
    \A i \in Server :
        /\ raftLog[i].committed <= lastIndex(raftLog[i])
        /\ raftLog[i].first <= raftLog[i].committed + 1
        /\ disk[i].committed <= Len(disk[i].ents)
        /\ disk[i].first <= disk[i].committed + 1

-----------------------------------------------------------------------------
(* Replication.                                                            *)

\* "Match is the index up to which the follower's log is known to match the
\* leader's", and durably so, until the follower has joined a later term.
MatchIsDurable ==
    \A i, j \in Server :
        raft[i].state = "StateLeader" /\ i # j /\ disk[j].Term <= raft[i].Term
            => SameUpTo(disk[j].ents, raftLog[i].ents, trk[i][j].Match)

\* The bookkeeping of a follower in flight: Match < Next, nothing is sent
\* beyond the log, and the window holds, in order and within its limit, the
\* last indexes of the messages in (Match, Next).
ProgressInv ==
    \A i, j \in Server : raft[i].state = "StateLeader" =>
        LET pr == trk[i][j]
        IN  /\ pr.Match < pr.Next /\ pr.Next <= lastIndex(raftLog[i]) + 1
            /\ Len(pr.Inflights) <= MaxInflight
            /\ \A k \in DOMAIN pr.Inflights :
                /\ pr.Inflights[k] > pr.Match /\ pr.Inflights[k] < pr.Next
                /\ \A l \in 1..(k - 1) : pr.Inflights[l] < pr.Inflights[k]
=============================================================================
