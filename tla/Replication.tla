---------------------------- MODULE Replication ----------------------------
(***************************************************************************)
(* One leader brings one follower up to date over a network that loses,    *)
(* duplicates and reorders: maybeSendAppend message by message, with the   *)
(* size limits of Config, the states of Progress, the ring buffer of       *)
(* Inflights, heartbeats, snapshots and the application's reports.         *)
(*                                                                         *)
(* The leader has just been elected and stays leader, and its own log and  *)
(* the follower's are written as soon as they change: elections and disks  *)
(* are module Raft's subject. The other followers are one peer, whose acks *)
(* move the commit index (three voters). The payload of an entry is its    *)
(* size.                                                                   *)
(***************************************************************************)
EXTENDS RaftLog, Progress, FiniteSets

CONSTANTS
    Term,               \* the leader's term
    Starts,             \* logs in which an election can leave the two servers
    MaxSizePerMsg,      \* Config.MaxSizePerMsg
    MaxInflightBytes,   \* Config.MaxInflightBytes, 0 for no limit
    MaxLog,             \* bound: entries of the leader's log
    MaxFaults           \* bound: faults of the network

ASSUME ReplicationAssumption ==
    /\ Value \subseteq Nat /\ Term \in Nat \ {0}
    /\ {MaxSizePerMsg, MaxInflightBytes, MaxLog, MaxFaults} \subseteq Nat

(***************************************************************************)
(* What an election in Term leaves behind: entries of earlier terms, two   *)
(* logs that match (Raft's LogMatching), and a leader that has what the    *)
(* follower knows to be committed (LeaderCompleteness).                    *)
(***************************************************************************)
OldLog == [ents : Seq([term : 1..(Term - 1), data : Nat]),
           first : Nat \ {0}, committed : Nat, snap : {0}]

Common(a, b, n) == n <= Len(a) /\ n <= Len(b) /\ \A k \in 1..n : a[k] = b[k]

ValidStart(st) ==
    /\ \A lg \in {st.lead, st.fol} :
        lg \in OldLog /\ lg.first <= lg.committed + 1 /\ lg.committed <= Len(lg.ents)
    /\ \A i \in 1..Len(st.fol.ents) :
        i <= Len(st.lead.ents) /\ st.fol.ents[i].term = st.lead.ents[i].term
            => Common(st.fol.ents, st.lead.ents, i)
    /\ Common(st.fol.ents, st.lead.ents, st.fol.committed)

ASSUME StartAssumption == \A st \in Starts : ValidStart(st)

VARIABLES
    lead,      \* the leader: log, snapshot (the index of Storage's), peer (its Match)
    fol,       \* the follower's log
    pr,        \* the leader's Progress for the follower
    ring,      \* pr.Inflights as the code keeps it
    toF, toL,  \* messages on their way to the follower, to the leader
    reports,   \* ReportSnapshot calls that are due: whether the transfer failed
    faults     \* faults so far

vars == <<lead, fol, pr, ring, toF, toL, reports, faults>>

Ring == INSTANCE Inflights WITH size <- MaxInflight, maxBytes <- MaxInflightBytes

-----------------------------------------------------------------------------
(* Sending.                                                                *)

payloadsSize(ents) ==
    LET Sum[k \in 0..Len(ents)] == IF k = 0 THEN 0 ELSE Sum[k - 1] + ents[k].data
    IN  Sum[Len(ents)]

\* The encoding of an entry adds a byte to its payload.
entsSize(ents) == payloadsSize(ents) + Len(ents)

\* limitSize: at least one entry, then as many as fit.
limitSize(ents) ==
    LET fits == {n \in 1..Len(ents) : n = 1 \/ entsSize(SubSeq(ents, 1, n)) <= MaxSizePerMsg}
    IN  SubSeq(ents, 1, Cardinality(fits))

(***************************************************************************)
(* maybeSendAppend, maybeSendSnapshot included: from what the leader knows *)
(* and has sent so far to the same after one more call.                    *)
(***************************************************************************)
maybeSendAppend(l, s, sendIfEmpty) ==
    LET prev == s.pr.Next - 1
        ents == IF s.pr.State = "StateReplicate" /\ Ring!Full(s.ring) THEN << >>
                ELSE limitSize(SubSeq(l.log.ents, s.pr.Next, lastIndex(l.log)))
        n    == Len(ents)
        app  == [type |-> "MsgApp", index |-> prev, logTerm |-> TermAt(l.log.ents, prev),
                 entries |-> ents, commit |-> l.log.committed]
        snap == [type |-> "MsgSnap", snapshot |-> SubSeq(l.log.ents, 1, l.snapshot)]
        in   == IF n > 0 /\ s.pr.State = "StateReplicate"
                THEN Ring!Add(s.ring, prev + n, payloadsSize(ents)) ELSE s.ring
        sent == SentCommit(SentEntries(s.pr, n, IF n > 0 THEN <<prev + n>> ELSE << >>),
                           l.log.committed)
    IN  IF IsPaused(s.pr) THEN s
        ELSE IF HasTerm(l.log, prev) THEN
            IF n = 0 /\ ~sendIfEmpty THEN s
            ELSE [pr |-> IF s.pr.State = "StateReplicate"
                         THEN [sent EXCEPT !.MsgAppFlowPaused = Ring!Full(in)] ELSE sent,
                  ring |-> in, out |-> Append(s.out, app)]
        ELSE IF ~s.pr.RecentActive THEN s
        ELSE [pr |-> BecomeSnapshot(s.pr, l.snapshot), ring |-> Ring!reset(s.ring),
              out |-> Append(s.out, snap)]

sendAppend(l, s) == maybeSendAppend(l, s, TRUE)

\* for r.maybeSendAppend(to, false) {}: once a call sends nothing, neither do
\* the ones after it.
sendMore(l, s) ==
    LET After[k \in 0..MaxLog] == IF k = 0 THEN s ELSE maybeSendAppend(l, After[k - 1], FALSE)
    IN  After[MaxLog]

Now(p, in) == [pr |-> p, ring |-> in, out |-> << >>]

Sent(s) == pr' = s.pr /\ ring' = s.ring /\ toF' = toF \o s.out

\* maybeCommit at the middle one of three matched indexes, the leader's own being
\* the highest.
maybeCommit(l, match) ==
    LET index == Greatest(l.peer, match)
    IN  IF index > l.log.committed /\ matchTerm(l.log, index, Term)
        THEN [l EXCEPT !.log = commitTo(l.log, index)] ELSE l

-----------------------------------------------------------------------------
(* The leader.                                                             *)

\* becomeLeader and bcastAppend: Progress starts at the end of the old log, to
\* which an empty entry is appended.
Init ==
    \E st \in Starts :
        LET old == st.lead
            l   == [log |-> [ents |-> Append(old.ents, [term |-> Term, data |-> 0]),
                             first |-> old.first, committed |-> old.committed, snap |-> 0],
                    snapshot |-> old.first - 1, peer |-> 0]
            s   == sendAppend(l, Now(NewProgress(0, Len(old.ents) + 1, FALSE), Ring!NewInflights))
        IN  /\ lead = l /\ fol = st.fol
            /\ pr = s.pr /\ ring = s.ring /\ toF = s.out /\ toL = << >>
            /\ reports = {} /\ faults = 0

\* MsgProp
Propose(v) ==
    LET l == [lead EXCEPT !.log.ents = Append(@, [term |-> Term, data |-> v])]
    IN  /\ lastIndex(lead.log) < MaxLog
        /\ lead' = l /\ Sent(sendAppend(l, Now(pr, ring)))
        /\ UNCHANGED <<fol, toL, reports, faults>>

\* MsgAppResp of the peer, which is always up to date: a new commit index goes
\* out to the follower.
PeerAck ==
    LET l == maybeCommit([lead EXCEPT !.peer = lastIndex(lead.log)], pr.Match)
    IN  /\ lead.peer < lastIndex(lead.log)
        /\ lead' = l
        /\ IF l.log.committed > lead.log.committed THEN Sent(sendAppend(l, Now(pr, ring)))
           ELSE UNCHANGED <<pr, ring, toF>>
        /\ UNCHANGED <<fol, toL, reports, faults>>

IsBeat(m) == m.type \in {"MsgHeartbeat", "MsgHeartbeatResp"}

\* MsgBeat; a heartbeat interval is longer than the way there and back.
Beat ==
    LET commit == Least(pr.Match, lead.log.committed)
    IN  /\ \A k \in 1..Len(toF) : ~IsBeat(toF[k])
        /\ \A k \in 1..Len(toL) : ~IsBeat(toL[k])
        /\ toF' = Append(toF, [type |-> "MsgHeartbeat", commit |-> commit])
        /\ pr' = SentCommit(pr, commit)
        /\ UNCHANGED <<lead, fol, ring, toL, reports, faults>>

\* The application has applied all that is committed, makes a snapshot of it and
\* compacts its log: as far as that, or not at all.
Compact ==
    /\ lead.snapshot < lead.log.committed
    /\ \E first \in {lead.log.first, lead.log.committed + 1} :
        lead' = [lead EXCEPT !.snapshot = lead.log.committed, !.log.first = first]
    /\ UNCHANGED <<fol, pr, ring, toF, toL, reports, faults>>

Active == [pr EXCEPT !.RecentActive = TRUE]

\* stepLeader, MsgAppResp with Reject.
HandleAppendReject(m) ==
    LET probe == IF m.logTerm > 0 THEN findConflictByTerm(lead.log, m.rejectHint, m.logTerm)
                 ELSE m.rejectHint
        decr  == MaybeDecrTo(Active, m.index, probe)
        back  == IF pr.State = "StateReplicate" THEN Now(BecomeProbe(decr), Ring!reset(ring))
                 ELSE Now(decr, ring)
    IN  /\ m.type = "MsgAppResp" /\ m.reject
        /\ Sent(IF IsGenuine(Active, m.index) THEN sendAppend(lead, back) ELSE Now(Active, ring))
        /\ UNCHANGED lead

\* The Progress that an ack moves on.
Acked(up, index) ==
    CASE up.State = "StateProbe" -> Now(BecomeReplicate(up), Ring!reset(ring))
      [] up.State = "StateSnapshot" /\ up.Match + 1 >= lead.log.first ->
            Now(BecomeReplicate(BecomeProbe(up)), Ring!reset(ring))
      [] up.State = "StateReplicate" ->
            Now([up EXCEPT !.Inflights = FreeLE(@, index)], Ring!FreeLE(ring, index))
      [] OTHER -> Now(up, ring)

\* stepLeader, MsgAppResp that is an ack.
HandleAppendAck(m) ==
    LET s    == Acked(MaybeUpdate(Active, m.index), m.index)
        l    == maybeCommit(lead, s.pr.Match)
        bump == \/ l.log.committed > lead.log.committed
                \/ CanBumpCommit(s.pr, l.log.committed)
    IN  /\ m.type = "MsgAppResp" /\ ~m.reject
        /\ \/ /\ IsNews(pr, m.index) \/ (pr.Match = m.index /\ pr.State = "StateProbe")
              /\ lead' = l
              /\ Sent(sendMore(l, IF bump THEN sendAppend(l, s) ELSE s))
           \/ /\ ~IsNews(pr, m.index) /\ ~(pr.Match = m.index /\ pr.State = "StateProbe")
              /\ Sent(Now(Active, ring)) /\ UNCHANGED lead

\* Mutant: the answer to a heartbeat does not end the pause.
HandleHeartbeatResp_StayPaused(m) ==
    /\ m.type = "MsgHeartbeatResp"
    /\ Sent(IF pr.Match < lastIndex(lead.log) \/ pr.State = "StateProbe"
            THEN sendAppend(lead, Now(Active, ring)) ELSE Now(Active, ring))
    /\ UNCHANGED lead

HandleHeartbeatResp(m) ==
    LET s == Now([Active EXCEPT !.MsgAppFlowPaused = FALSE], ring)
    IN  /\ m.type = "MsgHeartbeatResp"
        /\ Sent(IF pr.Match < lastIndex(lead.log) \/ pr.State = "StateProbe"
                THEN sendAppend(lead, s) ELSE s)
        /\ UNCHANGED lead

\* MsgSnapStatus: the transport has delivered a snapshot, or lost it. The report
\* can be late: it may meet another snapshot, or none.
ReportSnapshot(failed) ==
    LET p == IF failed THEN [pr EXCEPT !.PendingSnapshot = 0] ELSE pr
    IN  /\ failed \in reports /\ reports' = reports \ {failed}
        /\ \/ /\ pr.State = "StateSnapshot"
              /\ pr' = [BecomeProbe(p) EXCEPT !.MsgAppFlowPaused = TRUE]
              /\ ring' = Ring!reset(ring)
           \/ pr.State # "StateSnapshot" /\ UNCHANGED <<pr, ring>>
        /\ UNCHANGED <<lead, fol, toF, toL, faults>>

-----------------------------------------------------------------------------
(* The follower.                                                           *)

Ack(index) == [type |-> "MsgAppResp", reject |-> FALSE, index |-> index]

HandleAppendEntries(m) ==
    LET hint == findConflictByTerm(fol, Least(m.index, lastIndex(fol)), m.logTerm)
    IN  /\ m.type = "MsgApp"
        /\ \/ /\ m.index < fol.committed
              /\ toL' = Append(toL, Ack(fol.committed)) /\ UNCHANGED fol
           \/ /\ m.index >= fol.committed /\ matchTerm(fol, m.index, m.logTerm)
              /\ fol' = maybeAppend(fol, m.index, m.entries, m.commit)
              /\ toL' = Append(toL, Ack(m.index + Len(m.entries)))
           \/ /\ m.index >= fol.committed /\ ~matchTerm(fol, m.index, m.logTerm)
              /\ toL' = Append(toL, [type |-> "MsgAppResp", reject |-> TRUE, index |-> m.index,
                                     rejectHint |-> hint, logTerm |-> KnownTerm(fol, hint)])
              /\ UNCHANGED fol

HandleHeartbeat(m) ==
    /\ m.type = "MsgHeartbeat"
    /\ fol' = commitTo(fol, m.commit)
    /\ toL' = Append(toL, [type |-> "MsgHeartbeatResp"])

\* handleSnapshot and restore: obsolete, already in the log, or restored.
HandleSnapshot(m) ==
    LET sindex == Len(m.snapshot)
    IN  /\ m.type = "MsgSnap"
        /\ \/ /\ sindex <= fol.committed
              /\ toL' = Append(toL, Ack(fol.committed)) /\ UNCHANGED fol
           \/ /\ sindex > fol.committed /\ matchTerm(fol, sindex, TermAt(m.snapshot, sindex))
              /\ fol' = commitTo(fol, sindex)
              /\ toL' = Append(toL, Ack(sindex))
           \/ /\ sindex > fol.committed /\ ~matchTerm(fol, sindex, TermAt(m.snapshot, sindex))
              /\ fol' = [restoreLog(m.snapshot) EXCEPT !.snap = 0]
              /\ toL' = Append(toL, Ack(sindex))

-----------------------------------------------------------------------------
(* The network: in order and complete, but for MaxFaults faults.           *)

Without(q, k) == SubSeq(q, 1, k - 1) \o SubSeq(q, k + 1, Len(q))

FollowerSteps(m) == HandleAppendEntries(m) \/ HandleHeartbeat(m) \/ HandleSnapshot(m)
LeaderSteps(m)   == HandleAppendReject(m) \/ HandleAppendAck(m) \/ HandleHeartbeatResp(m)

Outcome(q, failed) == IF \E k \in 1..Len(q) : q[k].type = "MsgSnap" THEN {failed} ELSE {}

DeliverToFollower ==
    /\ toF # << >> /\ FollowerSteps(Head(toF))
    /\ toF' = Tail(toF) /\ reports' = reports \cup Outcome(<<Head(toF)>>, FALSE)
    /\ UNCHANGED <<lead, pr, ring, faults>>

\* What the leader sends in answer goes behind what is on its way already.
DeliverToLeader ==
    /\ toL # << >> /\ LeaderSteps(Head(toL)) /\ toL' = Tail(toL)
    /\ UNCHANGED <<fol, reports, faults>>

Fault == faults < MaxFaults /\ faults' = faults + 1

\* One message is lost.
Lose(k) ==
    /\ Fault
    /\ \/ /\ k <= Len(toF) /\ toF' = Without(toF, k) /\ UNCHANGED toL
          /\ reports' = reports \cup Outcome(<<toF[k]>>, TRUE)
       \/ /\ k <= Len(toL) /\ toL' = Without(toL, k) /\ UNCHANGED <<toF, reports>>
    /\ UNCHANGED <<lead, fol, pr, ring>>

\* The connection breaks: all that was on its way to the follower is lost, and
\* the application reports the follower as unreachable, or has not noticed yet.
Break ==
    /\ Fault /\ toF # << >> /\ toF' = << >>
    /\ reports' = reports \cup Outcome(toF, TRUE)
    /\ \/ pr.State = "StateReplicate" /\ pr' = BecomeProbe(pr) /\ ring' = Ring!reset(ring)
       \/ UNCHANGED <<pr, ring>>
    /\ UNCHANGED <<lead, fol, toL>>

\* A message overtakes others, and arrives again later.
Overtake(k) ==
    /\ Fault
    /\ \/ /\ k <= Len(toF) /\ FollowerSteps(toF[k])
          /\ UNCHANGED <<lead, pr, ring, toF, reports>>
       \/ k <= Len(toL) /\ LeaderSteps(toL[k]) /\ UNCHANGED <<fol, toL, reports>>

Next ==
    \/ \E v \in Value : Propose(v)
    \/ PeerAck \/ Compact \/ Beat \/ \E failed \in BOOLEAN : ReportSnapshot(failed)
    \/ DeliverToFollower \/ DeliverToLeader
    \/ Break \/ \E k \in 1..(Len(toF) + Len(toL)) : Lose(k) \/ Overtake(k)

(***************************************************************************)
(* Fairness: the clock ticks on, the network delivers what it has not      *)
(* lost, and the application reports the outcome of snapshots, as node.go  *)
(* asks for. Nobody has to propose, and the peer may be silent.            *)
(***************************************************************************)
Fairness ==
    /\ WF_vars(Beat) /\ WF_vars(DeliverToFollower)
    /\ []<>(toL = << >>) \/ []<><<DeliverToLeader>>_vars   \* WF_vars(DeliverToLeader)
    /\ WF_vars(\E failed \in BOOLEAN : ReportSnapshot(failed))

Spec == Init /\ [][Next]_vars /\ Fairness

-----------------------------------------------------------------------------
(* Properties.                                                             *)

\* The leader never believes that the follower has what it does not have, in
\* whatever order acks and rejections arrive: Match is what commits.
MatchIsReal ==
    /\ pr.Match <= lastIndex(fol) /\ pr.Match < pr.Next
    /\ SubSeq(fol.ents, 1, pr.Match) = SubSeq(lead.log.ents, 1, pr.Match)

\* The ring buffer holds the window as Progress sees it, though it rotates, grows
\* and is reset; its running total is exact.
RingIsWindow ==
    LET w == Ring!Window(ring)
    IN  /\ pr.Inflights = [k \in 1..Len(w) |-> w[k].index]
        /\ ring.bytes = Ring!TotalBytes(w)

\* In StateReplicate the window covers exactly what is sent and not acked: it ends
\* at Next - 1, all of it is beyond Match, and only its last message may go beyond
\* the limits.
WindowIsOutstanding ==
    LET w == Ring!Window(ring)
    IN  /\ pr.State = "StateReplicate" =>
            /\ pr.Next - 1 = IF w = << >> THEN pr.Match ELSE w[Len(w)].index
            /\ \A k \in 1..Len(w) : w[k].index > IF k = 1 THEN pr.Match ELSE w[k - 1].index
        /\ pr.State # "StateReplicate" => w = << >>
        /\ Len(w) <= MaxInflight
        /\ w # << >> /\ MaxInflightBytes # 0 =>
            Ring!TotalBytes(SubSeq(w, 1, Len(w) - 1)) < MaxInflightBytes

\* The follower ends up with the leader's log and commit index, and is replicated
\* to with an empty window, whatever was lost, doubled or late before: neither a
\* paused probe, nor a full window whose messages are all lost, nor a snapshot
\* stalls the flow.
CaughtUp ==
    /\ fol.ents = lead.log.ents /\ fol.committed = lastIndex(lead.log)
    /\ pr.Match = lastIndex(lead.log) /\ pr.State = "StateReplicate" /\ ring.count = 0
EventuallyCaughtUp == <>[]CaughtUp
=============================================================================
