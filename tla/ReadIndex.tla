----------------------------- MODULE ReadIndex -----------------------------
(***************************************************************************)
(* Linearizable reads (read_only.go and the read paths of raft.go) with    *)
(* ReadOnlySafe: a leader answers a read with the commit index it had when *)
(* the read reached it, once a quorum has answered a heartbeat sent since. *)
(*                                                                         *)
(* Reads are asked of any server, forwarded to the leader it believes in,  *)
(* postponed by a leader that has committed nothing in its term, and       *)
(* answered to the server that asked. Around them is as much of raft as    *)
(* can make an answer stale: elections that depose a leader without its    *)
(* knowledge, replication and commit, restarts. An election and the        *)
(* delivery of an append are one step each (module Raft has their          *)
(* messages); an entry is its term; what is appended is written.           *)
(* Messages are delivered in any order, late or not at all. The context of *)
(* a read, an opaque name to raft, is here a fact about the read: the      *)
(* highest index that any server knew committed when it was asked.         *)
(***************************************************************************)
EXTENDS Quorums, Sequences, Functions

CONSTANTS
    Server, None,
    Voters,       \* the joint configuration: <<incoming, outgoing>>
    MaxTerm,      \* bound: terms
    MaxLog,       \* bound: entries of a log
    MaxReads,     \* bound: reads a leader accepts in a term
    MaxNet,       \* bound: messages on their way
    MaxWork       \* bound: reads asked and restarts

ASSUME ReadIndexAssumption ==
    /\ IsFiniteSet(Server) /\ None \notin Server
    /\ Voters[1] # {} /\ JointIDs(Voters) \subseteq Server
    /\ {MaxTerm, MaxLog, MaxReads, MaxNet, MaxWork} \subseteq Nat

VARIABLES
    srv,        \* per server: the fields of raft, raftLog and readOnly
    net,        \* messages on their way
    readStates, \* what the step hands an application, which the next Ready clears
    highest,    \* history: the highest index any server has known committed
    work        \* reads asked and restarts so far

vars == <<srv, net, readStates, highest, work>>

larger(a, b)  == IF a > b THEN a ELSE b
smaller(a, b) == IF a < b THEN a ELSE b

Leading(s) == s.state = "StateLeader"

-----------------------------------------------------------------------------
(* State of one server.                                                    *)

\* Mutant: the acknowledgements of the heartbeats survive a change of term.
reset_KeepAcks(s, term) ==
    [s EXCEPT !.Term = term, !.lead = None, !.Match = [j \in Server |-> 0],
              !.unconfirmedReads = <<>>, !.confirmedReads = 0]

\* reset, newReadOnly included. pendingReadIndexMessages is left alone. A
\* server's own Match is read when it leads: becomeLeader sets it.
reset(s, term) ==
    [s EXCEPT !.Term = term, !.lead = None, !.Match = [j \in Server |-> 0],
              !.acks = [j \in Server |-> 0],
              !.unconfirmedReads = <<>>, !.confirmedReads = 0]

becomeFollower(s, term, lead) ==
    [reset(s, term) EXCEPT !.state = "StateFollower", !.lead = lead]

\* becomeLeader, the empty entry of the new term included.
becomeLeader(i, s, term) ==
    [reset(s, term) EXCEPT !.state = "StateLeader", !.lead = i,
                           !.Match[i] = Len(s.log), !.log = Append(s.log, term)]

newRaft == [Term |-> 0, state |-> "StateFollower", lead |-> None,
            log |-> <<>>, committed |-> 0, Match |-> [j \in Server |-> 0],
            acks |-> [j \in Server |-> 0],
            unconfirmedReads |-> <<>>, confirmedReads |-> 0,
            pendingReadIndexMessages |-> <<>>]

commitTo(s, c) == [s EXCEPT !.committed = larger(s.committed, smaller(c, Len(s.log)))]

\* Mutant: the entry at the commit index may be of any term.
committedEntryInCurrentTerm_AnyTerm(s) == s.committed > 0

committedEntryInCurrentTerm(s) ==
    s.committed > 0 /\ s.log[s.committed] = s.Term

\* MajorityConfig.IsSingleton with no outgoing half.
IsSingleton == Cardinality(Voters[1]) = 1 /\ Voters[2] = {}

-----------------------------------------------------------------------------
(* readOnly. A position counts the reads accepted since the last reset.    *)

heartbeatCtx(s) ==
    IF s.unconfirmedReads = <<>> THEN 0
    ELSE s.confirmedReads + Len(s.unconfirmedReads)

recvAck(s, from, ctx) == [s EXCEPT !.acks[from] = larger(@, ctx)]

newConfirmedReads(s) == JointCommittedIndex(Voters, s.acks)

\* How many reads maybeAdvance releases.
confirmable(s) == larger(0, newConfirmedReads(s) - s.confirmedReads)

maybeAdvance(s) ==
    [s EXCEPT !.unconfirmedReads = SubSeq(@, confirmable(s) + 1, Len(@)),
              !.confirmedReads = @ + confirmable(s)]

\* Heartbeats with the context c, to all others.
bcastHeartbeatWithCtx(i, s, c) ==
    {[type |-> "MsgHeartbeat", from |-> i, to |-> j, Term |-> s.Term,
      ctx |-> c] :
        j \in JointIDs(Voters) \ {i}}

\* sendMsgReadIndexResponse for each of reqs: what the leader keeps, what it sends.
Accepted(i, s, reqs) ==
    LET new == [k \in DOMAIN reqs |-> [req |-> reqs[k], index |-> s.committed]]
        t   == [s EXCEPT !.unconfirmedReads = @ \o new]
        pos == s.confirmedReads + Len(s.unconfirmedReads)
    IN  [srv |-> recvAck(t, i, heartbeatCtx(t)),
         net |-> UNION {bcastHeartbeatWithCtx(i, s, pos + k) : k \in DOMAIN reqs}]

\* responseToReadIndexReq: to this application, or to the server that asked.
Local(i, req) == req.from \in {None, i}

readStatesOf(i, rs) == {[ctx |-> r.req.ctx, index |-> r.index] :
                            r \in {q \in Range(rs) : Local(i, q.req)}}

responsesOf(i, s, rs) ==
    {[type |-> "MsgReadIndexResp", from |-> i, to |-> r.req.from, Term |-> s.Term,
      index |-> r.index, ctx |-> r.req.ctx] :
        r \in {q \in Range(rs) : ~Local(i, q.req)}}

\* Mutant: the postponed reads stay when the first entry commits.
releasePendingReadIndexMessages_Keep(i, s) == [srv |-> s, net |-> {}]

releasePendingReadIndexMessages(i, s) ==
    IF s.pendingReadIndexMessages = <<>> \/ ~committedEntryInCurrentTerm(s)
    THEN [srv |-> s, net |-> {}]
    ELSE Accepted(i, [s EXCEPT !.pendingReadIndexMessages = <<>>],
                  s.pendingReadIndexMessages)

-----------------------------------------------------------------------------
(* Steps. Server i becomes s: it has received used, sends msgs and gives   *)
(* its application answers.                                                *)

\* The messages that matter: Step ignores one of a lower term than its receiver's.
Live(msgs) == {m \in msgs : m.type = "MsgReadIndex" \/ m.Term >= srv'[m.to].Term}

Became(i, s, used, msgs, answers) ==
    /\ srv' = [srv EXCEPT ![i] = s]
    /\ net' = Live((net \ used) \cup msgs)
    /\ Cardinality(net') <= MaxNet
    /\ readStates' = answers
    /\ highest' = larger(highest, s.committed)

\* MsgReadIndex at a leader.
AcceptRead(i, s, req, used) ==
    LET rs == <<[req |-> req, index |-> s.committed]>>
        a  == Accepted(i, s, <<req>>)
    IN  CASE IsSingleton -> Became(i, s, used, responsesOf(i, s, rs), readStatesOf(i, rs))
          [] ~IsSingleton /\ ~committedEntryInCurrentTerm(s) ->
                Became(i, [s EXCEPT !.pendingReadIndexMessages = Append(@, req)], used, {}, {})
          [] OTHER -> Became(i, a.srv, used, a.net, {})

\* MsgReadIndex at a follower: forwarded to the leader it knows, or dropped.
ForwardRead(i, s, req, used) ==
    Became(i, s, used,
           IF s.lead = None THEN {}
           ELSE {[type |-> "MsgReadIndex", to |-> s.lead, ctx |-> req.ctx,
                  from |-> IF req.from = None THEN i ELSE req.from]},
           {})

StepRead(i, req, used) ==
    IF Leading(srv[i])
    THEN /\ Len(srv[i].pendingReadIndexMessages) + srv[i].confirmedReads
                + Len(srv[i].unconfirmedReads) < MaxReads
         /\ AcceptRead(i, srv[i], req, used)
    ELSE ForwardRead(i, srv[i], req, used)

\* RawNode.ReadIndex
ReadIndex(i) ==
    /\ work < MaxWork /\ work' = work + 1
    /\ StepRead(i, [from |-> None, ctx |-> highest], {})

\* A forwarded read. It carries no term.
RecvReadIndex(m) ==
    /\ m.type = "MsgReadIndex"
    /\ StepRead(m.to, [from |-> m.from, ctx |-> m.ctx], {m})
    /\ UNCHANGED work

\* The head of Step: a higher term makes a follower.
Termed(m) ==
    LET s == srv[m.to]
    IN  IF m.Term > s.Term
        THEN becomeFollower(s, m.Term, IF m.type = "MsgHeartbeat" THEN m.from ELSE None)
        ELSE s

\* MsgHeartbeat at a follower: handleHeartbeat. Its commitTo(m.Commit) is left to
\* Replicate: a heartbeat never carries more than the leader has committed, and a
\* follower's commit index answers no read.
RecvHeartbeat(m) ==
    /\ m.type = "MsgHeartbeat"
    /\ LET s == [Termed(m) EXCEPT !.lead = m.from]
       IN  Became(m.to, s, {m},
                  {[type |-> "MsgHeartbeatResp", from |-> m.to, to |-> m.from,
                    Term |-> s.Term, ctx |-> m.ctx]}, {})
    /\ UNCHANGED work

\* MsgHeartbeatResp at the leader of the message's term.
RecvHeartbeatResp(m) ==
    /\ m.type = "MsgHeartbeatResp"
    /\ LET i == m.to
           s == Termed(m)
           t == recvAck(s, m.from, m.ctx)
           rs == SubSeq(t.unconfirmedReads, 1, confirmable(t))
       IN  IF Leading(s) /\ m.ctx # 0
           THEN Became(i, maybeAdvance(t), {m}, responsesOf(i, t, rs), readStatesOf(i, rs))
           ELSE Became(i, s, {m}, {}, {})
    /\ UNCHANGED work

\* MsgReadIndexResp at a follower.
RecvReadIndexResp(m) ==
    /\ m.type = "MsgReadIndexResp"
    /\ Became(m.to, Termed(m), {m}, {},
              IF Leading(Termed(m)) THEN {} ELSE {[ctx |-> m.ctx, index |-> m.index]})
    /\ UNCHANGED work

-----------------------------------------------------------------------------
(* The cluster around the reads.                                           *)

\* MsgBeat at a leader. A heartbeat without a context confirms no read: left out.
Tick(i) ==
    /\ Leading(srv[i])
    /\ heartbeatCtx(srv[i]) # 0
    /\ \A m \in net : m.type \notin {"MsgHeartbeat", "MsgHeartbeatResp"}
    /\ Became(i, srv[i], {}, bcastHeartbeatWithCtx(i, srv[i], heartbeatCtx(srv[i])), {})
    /\ UNCHANGED work

\* isUpToDate: the log of the candidate is at least as good as the voter's.
UpToDate(a, b) ==
    LET lastTerm(log) == IF log = <<>> THEN 0 ELSE log[Len(log)]
    IN  \/ lastTerm(a) > lastTerm(b)
        \/ lastTerm(a) = lastTerm(b) /\ Len(a) >= Len(b)

\* Server i wins an election of the next term with the votes of Q.
Elect(i, Q) ==
    LET term == srv[i].Term + 1
    IN  /\ term <= MaxTerm
        /\ Len(srv[i].log) < MaxLog
        /\ i \in Q
        /\ IsJointQuorum(Voters, Q)
        /\ \A j \in Q : /\ srv[j].Term < term
                        /\ UpToDate(srv[i].log, srv[j].log)
        /\ srv' = [j \in Server |->
                     CASE j = i -> becomeLeader(i, srv[i], term)
                       [] j \in Q \ {i} -> becomeFollower(srv[j], term, None)
                       [] OTHER -> srv[j]]
        /\ net' = Live(net)
        /\ readStates' = {}
        /\ UNCHANGED <<highest, work>>

\* The leader appends a proposal.
Propose(i) ==
    /\ Leading(srv[i])
    /\ Len(srv[i].log) < MaxLog
    /\ Became(i, [srv[i] EXCEPT !.log = Append(@, srv[i].Term)], {}, {}, {})
    /\ UNCHANGED work

\* MsgApp at follower j of leader i, with the whole log.
Appended(i, j) ==
    LET s == IF srv[i].Term > srv[j].Term
             THEN becomeFollower(srv[j], srv[i].Term, i)
             ELSE [srv[j] EXCEPT !.lead = i]
    IN  commitTo([s EXCEPT !.log = srv[i].log], srv[i].committed)

\* MsgAppResp of j at leader i: MaybeUpdate, maybeCommit and what a commit releases.
Acknowledged(i, j) ==
    LET s == [srv[i] EXCEPT !.Match[j] = Len(srv[i].log)]
        c == JointCommittedIndex(Voters, s.Match)
    IN  IF c > s.committed /\ s.log[c] = s.Term
        THEN releasePendingReadIndexMessages(i, commitTo(s, c))
        ELSE [srv |-> s, net |-> {}]

\* Server j appends the log of leader i and acknowledges it; the leader
\* acknowledges its own write (j = i).
Replicate(i, j) ==
    LET a == Acknowledged(i, j)
    IN  /\ Leading(srv[i])
        /\ srv[j].Term <= srv[i].Term
        /\ srv' = [k \in Server |-> CASE k = i -> a.srv
                                      [] k = j /\ k # i -> Appended(i, j)
                                      [] OTHER -> srv[k]]
        /\ net' = Live(net \cup a.net)
        /\ Cardinality(net') <= MaxNet
        /\ highest' = larger(highest, a.srv.committed)
        /\ readStates' = {}
        /\ UNCHANGED work

Lose(m) ==
    /\ net' = net \ {m}
    /\ readStates' = {}
    /\ UNCHANGED <<srv, highest, work>>

\* A crash, then newRaft and loadState: the commit index that was last written may
\* be an older one, since MustSync (rawnode.go) does not ask for a HardState that
\* only moves it. The bootstrap is on disk.
Restart(i) ==
    /\ work < MaxWork /\ work' = work + 1
    /\ \E c \in 1..srv[i].committed :
         srv' = [srv EXCEPT ![i] = [newRaft EXCEPT !.Term = srv[i].Term,
                                                   !.log = srv[i].log, !.committed = c]]
    /\ readStates' = {}
    /\ UNCHANGED <<net, highest>>

-----------------------------------------------------------------------------
\* RawNode.Bootstrap: every server starts in term 1 with the configuration
\* committed, here as one entry.
Bootstrap ==
    [newRaft EXCEPT !.Term = 1, !.log = <<1>>, !.committed = 1]

Init ==
    /\ srv = [i \in Server |-> Bootstrap]
    /\ net = {} /\ readStates = {}
    /\ highest = 1 /\ work = 0

Next ==
    \/ \E i \in Server :
         \/ \E Q \in SUBSET JointIDs(Voters) : Elect(i, Q)
         \/ \E j \in JointIDs(Voters) : Replicate(i, j)
         \/ ReadIndex(i) \/ Tick(i) \/ Propose(i) \/ Restart(i)
    \/ \E m \in net :
         \/ RecvReadIndex(m) \/ RecvHeartbeat(m) \/ RecvHeartbeatResp(m)
         \/ RecvReadIndexResp(m) \/ Lose(m)

Spec == Init /\ [][Next]_vars

-----------------------------------------------------------------------------
(***************************************************************************)
(* A read never sees the past: the index a server hands its application    *)
(* for a read is at least every index that some server knew committed when *)
(* the read was asked, whoever has been leader meanwhile.                  *)
(***************************************************************************)
ReadIsFresh == \A r \in readStates : r.index >= r.ctx

(***************************************************************************)
(* maybeAdvance slices unconfirmedReads by positions that come back from   *)
(* the network: they never exceed what this leader has accepted.           *)
(***************************************************************************)
ConfirmedWereAsked ==
    \A i \in Server : Leading(srv[i]) =>
        /\ confirmable(srv[i]) <= Len(srv[i].unconfirmedReads)
        /\ \A j \in Server :
             srv[i].acks[j] <= srv[i].confirmedReads + Len(srv[i].unconfirmedReads)

(***************************************************************************)
(* No read is forgotten: a leader that has committed an entry of its term  *)
(* holds no postponed read, those of an earlier leadership included.       *)
(***************************************************************************)
PostponedAreReleased ==
    \A i \in Server :
        Leading(srv[i]) /\ committedEntryInCurrentTerm(srv[i]) =>
            srv[i].pendingReadIndexMessages = <<>>

=============================================================================
