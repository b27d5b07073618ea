----------------------------- MODULE Membership -----------------------------
(***************************************************************************)
(* A cluster that changes its own configuration: how raft.go uses package  *)
(* confchange. A change is an entry of the log, a server acts by it when   *)
(* its application applies it, and until then by an older configuration;   *)
(* servers are thus in different configurations at the same time. What     *)
(* keeps them together is pendingConfIndex (a leader lets one change into  *)
(* its log at a time), hup (no campaign over a change that is known        *)
(* committed and not applied) and the automatic end of joint states.       *)
(*                                                                         *)
(* Elections, appends and their acknowledgements are one step each: their  *)
(* messages are module Raft's subject. Snapshots are left out: a server    *)
(* that restarts has the configuration it was bootstrapped with and        *)
(* applies its log again.                                                  *)
(***************************************************************************)
EXTENDS ConfChange

CONSTANTS
    Bootstrapped,       \* the voters the cluster begins with
    Proposals,          \* the changes an application may propose
    StepDownOnRemoval,  \* Config.StepDownOnRemoval
    MaxTerm,            \* bound: terms
    MaxLog,             \* bound: entries of a log
    MaxRestarts         \* bound: restarts

ASSUME MembershipAssumption ==
    /\ Bootstrapped \subseteq Node /\ Bootstrapped # {}
    /\ StepDownOnRemoval \in BOOLEAN
    /\ {MaxTerm, MaxLog, MaxRestarts} \subseteq Nat

VARIABLES
    srv,       \* per server: the fields of raft, raftLog and the configuration
    elected,   \* history: the pairs <<term, leader>>
    restarts   \* restarts so far

vars == <<srv, elected, restarts>>

larger(a, b)  == IF a > b THEN a ELSE b
smaller(a, b) == IF a < b THEN a ELSE b

\* An entry is a term with a ConfChangeV2, or with none.
Normal           == V2("none", << >>)
Entry(term, cc)  == [term |-> term, cc |-> cc]
IsConfChange(e)  == e.cc # Normal

Leading(s)   == s.state = "StateLeader"
Member(i, s) == i \in Members(s.conf)

-----------------------------------------------------------------------------
(* State of one server.                                                    *)

\* The voters that Bootstrap adds. Its entries are left out: the application has set
\* its Storage up by hand, with this ConfState, as bootstrap.go recommends.
FirstConf ==
    [EmptyConfig EXCEPT !.Voters = <<Bootstrapped, {}>>,
                        !.Progress = [id \in Bootstrapped |-> [IsLearner |-> FALSE, Match |-> 0]]]

newRaft == [Term |-> 0, state |-> "StateFollower", log |-> << >>,
            committed |-> 0,   \* raftLog.committed
            saved |-> 0,       \* HardState.Commit on disk
            applied |-> 0,     \* raftLog.applied
            switched |-> 0,    \* the index of the last change that conf includes
            conf |-> FirstConf, pendingConfIndex |-> 0]

\* A server's own Match is read when it leads: becomeLeader sets it.
reset(s, term) ==
    [s EXCEPT !.Term = term, !.pendingConfIndex = 0,
              !.conf.Progress = [id \in DOMAIN @ |-> [@[id] EXCEPT !.Match = 0]]]

becomeFollower(s, term) == [reset(s, term) EXCEPT !.state = "StateFollower"]

\* appendEntry: written together with the commit index of the time.
appendEntry(s, cc) ==
    [s EXCEPT !.log = Append(@, Entry(s.Term, cc)), !.saved = s.committed]

becomeLeader(i, s, term) ==
    appendEntry([reset(s, term) EXCEPT
                    !.state = "StateLeader", !.conf.Progress[i].Match = Len(s.log),
                    !.pendingConfIndex = Len(s.log)], Normal)

Acked(s) == [id \in Node |-> IF id \in Members(s.conf) THEN s.conf.Progress[id].Match ELSE 0]

maybeCommit(s) ==
    LET c == JointCommittedIndex(s.conf.Voters, Acked(s))
    IN  IF c > s.committed /\ c <= Len(s.log) /\ s.log[c].term = s.Term
        THEN [s EXCEPT !.committed = c] ELSE s

-----------------------------------------------------------------------------
(* Proposals.                                                              *)

\* Mutant: a change is let in while another one waits.
refused_Pending(s, cc) == ~Admitted(s.conf, cc)

\* stepLeader, MsgProp: the failedCheck.
refused(s, cc) == s.pendingConfIndex > s.applied \/ ~Admitted(s.conf, cc)

\* A change that fails the check becomes an empty entry.
proposed(s, cc) ==
    IF cc = Normal \/ refused(s, cc) THEN appendEntry(s, Normal)
    ELSE [appendEntry(s, cc) EXCEPT !.pendingConfIndex = Len(s.log) + 1]

-----------------------------------------------------------------------------
Became(i, s) ==
    /\ srv' = [srv EXCEPT ![i] = s]
    /\ UNCHANGED <<elected, restarts>>

\* The application proposes what the configuration it knows, the leader's own,
\* could take if it were applied at once, or what the leader's check refuses.
\* What the check lets through besides is the subject of module MCConfChange.
Propose(i, cc) ==
    /\ Leading(srv[i]) /\ Member(i, srv[i])
    /\ cc = Normal \/ refused(srv[i], cc) \/ Ok(applyConfChange(srv[i].conf, cc))
    /\ Len(srv[i].log) < MaxLog
    /\ Became(i, proposed(srv[i], cc))

\* Mutant: servers campaign whatever they have still to apply.
hasUnappliedConfChanges_No(s) == FALSE

hasUnappliedConfChanges(s) ==
    \E k \in s.applied + 1 .. s.committed : IsConfChange(s.log[k])

promotable(i, s) == Member(i, s) /\ ~s.conf.Progress[i].IsLearner

UpToDate(a, b) ==
    LET lastTerm(log) == IF log = << >> THEN 0 ELSE log[Len(log)].term
    IN  \/ lastTerm(a) > lastTerm(b)
        \/ lastTerm(a) = lastTerm(b) /\ Len(a) >= Len(b)

\* hup and the election it starts: server i wins the next term with the votes
\* of Q, a quorum of the configuration i is in. Voters do not look at theirs.
Elect(i, Q) ==
    LET term == srv[i].Term + 1
    IN  /\ term <= MaxTerm /\ Len(srv[i].log) < MaxLog
        /\ ~Leading(srv[i])
        /\ promotable(i, srv[i])
        /\ ~hasUnappliedConfChanges(srv[i])
        /\ Q \subseteq JointIDs(srv[i].conf.Voters) /\ i \in Q
        /\ JointVoteResult(srv[i].conf.Voters,
              [id \in Node |-> IF id \in Q THEN "granted" ELSE "missing"]) = "VoteWon"
        /\ \A j \in Q : srv[j].Term < term /\ UpToDate(srv[i].log, srv[j].log)
        /\ srv' = [j \in Node |->
                     CASE j = i -> becomeLeader(i, srv[i], term)
                       [] j \in Q \ {i} -> becomeFollower(srv[j], term)
                       [] OTHER -> srv[j]]
        /\ elected' = elected \cup {<<term, i>>}
        /\ UNCHANGED restarts

\* MsgApp at j: the log of leader i and its commit index, written together.
appended(i, j) ==
    LET s == IF srv[i].Term > srv[j].Term THEN becomeFollower(srv[j], srv[i].Term)
             ELSE srv[j]
        c == larger(s.committed, srv[i].committed)
    IN  [s EXCEPT !.log = srv[i].log, !.committed = c, !.saved = c]

\* Server j, which leader i has in its configuration, appends and acknowledges
\* the leader's log; for j = i the leader's own acknowledgement.
Replicate(i, j) ==
    /\ Leading(srv[i]) /\ Member(j, srv[i])
    /\ srv[j].Term <= srv[i].Term
    /\ srv' = [k \in Node |->
                 CASE k = i ->
                        maybeCommit([srv[i] EXCEPT !.conf.Progress[j].Match = Len(srv[i].log)])
                   [] k = j /\ k # i -> appended(i, j)
                   [] OTHER -> srv[k]]
    /\ UNCHANGED <<elected, restarts>>

-----------------------------------------------------------------------------
(* Applying.                                                               *)

\* switchToConfig: a leader that is no voter any more may step down; one that
\* goes on may have more committed by the new quorums.
switchToConfig(i, s) ==
    LET out == ~Member(i, s) \/ s.conf.Progress[i].IsLearner
    IN  CASE ~Leading(s) -> s
          [] Leading(s) /\ out  -> IF StepDownOnRemoval THEN becomeFollower(s, s.Term) ELSE s
          [] Leading(s) /\ ~out -> maybeCommit(s)

\* The application, which has the committed entries up to k, calls
\* ApplyConfChange for the change at k. An error is a panic.
ApplyConfChange(i) ==
    LET s == srv[i]
    IN  \E k \in s.switched + 1 .. s.committed :
          /\ IsConfChange(s.log[k])
          /\ \A n \in s.switched + 1 .. k - 1 : ~IsConfChange(s.log[n])
          /\ LET c == applyConfChange(s.conf, s.log[k].cc)
                 t == [s EXCEPT !.switched = k, !.conf = c]
             IN  Became(i, IF Ok(c) THEN switchToConfig(i, t) ELSE t)

\* Mutant: the entry that entered the joint state is not enough to leave it.
wantsAutoLeave_Later(s) ==
    s.conf.AutoLeave /\ s.applied > s.pendingConfIndex /\ Leading(s)

wantsAutoLeave(s) ==
    s.conf.AutoLeave /\ s.applied >= s.pendingConfIndex /\ Leading(s)

\* appliedTo, when the application is done with the entries up to k.
AppliedTo(i) ==
    \E k \in srv[i].applied + 1 .. srv[i].committed :
        LET s == [srv[i] EXCEPT !.applied = k]
        IN  /\ \A n \in s.switched + 1 .. k : ~IsConfChange(s.log[n])
            /\ wantsAutoLeave(s) => Len(s.log) < MaxLog
            /\ Became(i, IF wantsAutoLeave(s) /\ Member(i, s)
                         THEN proposed(s, V2("Auto", << >>)) ELSE s)

\* A crash: the commit index is the one last written, or a later one.
Restart(i) ==
    /\ restarts < MaxRestarts
    /\ restarts' = restarts + 1
    /\ \E c \in srv[i].saved .. srv[i].committed :
         srv' = [srv EXCEPT ![i] = [newRaft EXCEPT
                    !.Term = srv[i].Term, !.log = srv[i].log, !.committed = c, !.saved = c]]
    /\ UNCHANGED elected

-----------------------------------------------------------------------------
Running == \A i \in Node : Ok(srv[i].conf)

Init ==
    /\ srv = [i \in Node |-> newRaft]
    /\ elected = {} /\ restarts = 0

Next ==
    /\ Running
    /\ \E i \in Node :
         \/ \E Q \in SUBSET Node : Elect(i, Q)
         \/ \E cc \in Proposals : Propose(i, cc)
         \/ \E j \in Node : Replicate(i, j)
         \/ ApplyConfChange(i) \/ AppliedTo(i) \/ Restart(i)

Spec == Init /\ [][Next]_vars

-----------------------------------------------------------------------------
(* Properties.                                                             *)

(***************************************************************************)
(* applyConfChange never panics: a change that a leader lets into the log, *)
(* and that its own configuration could take, fits the one that each       *)
(* server is in when it applies it. Config.DisableConfChangeValidation     *)
(* (raft.go:265) is more careful: the leader's configuration "may not be   *)
(* the most recent" one, and a change that passes may be "invalid when it  *)
(* is being applied". As long as the validation is on, pendingConfIndex    *)
(* keeps that from happening: while a change is in the log that the leader *)
(* has not applied, in its own term or an earlier one, no other gets in.   *)
(***************************************************************************)
NoRefusedChange == Running

(***************************************************************************)
(* No term has two leaders, although candidates count by the configuration *)
(* that each of them happens to be in.                                     *)
(***************************************************************************)
OneLeaderPerTerm == \A e, f \in elected : e[1] = f[1] => e = f

(***************************************************************************)
(* No two servers have different entries committed at one index, whatever  *)
(* configurations committed them.                                          *)
(***************************************************************************)
CommittedAgree ==
    \A i, j \in Node :
        \A k \in 1 .. smaller(srv[i].committed, srv[j].committed) :
            srv[i].log[k] = srv[j].log[k]

(***************************************************************************)
(* A joint state that ends by itself does end: a leader in it that has     *)
(* applied its log has proposed the end, in the term it was entered or any *)
(* later one. Not so a leader that is no member any more: its proposals    *)
(* are dropped, and it leads on unless StepDownOnRemoval is set.           *)
(***************************************************************************)
AutoLeaveIsProposed ==
    \A i \in Node :
        Leading(srv[i]) /\ srv[i].conf.AutoLeave /\ Member(i, srv[i]) =>
            srv[i].applied < Len(srv[i].log)
=============================================================================
