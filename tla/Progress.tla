------------------------------ MODULE Progress ------------------------------
(***************************************************************************)
(* tracker.Progress: the leader's view of one follower, as a record, and   *)
(* its transitions as operators from a record to a record. The sliding     *)
(* window of in-flight MsgApps is the sequence of their last indexes, in   *)
(* sending order; its ring buffer is the subject of module Inflights.      *)
(***************************************************************************)
EXTENDS Integers, Sequences

CONSTANT MaxInflight          \* Config.MaxInflightMsgs

ASSUME MaxInflightAssumption == MaxInflight \in Nat \ {0}

ProgressState == {"StateProbe", "StateReplicate", "StateSnapshot"}

ProgressType == [Match : Nat, Next : Nat \ {0}, sentCommit : Nat,
                 State : ProgressState, PendingSnapshot : Nat,
                 RecentActive : BOOLEAN, MsgAppFlowPaused : BOOLEAN,
                 Inflights : Seq(Nat)]

Least(a, b)    == IF a < b THEN a ELSE b
Greatest(a, b) == IF a > b THEN a ELSE b

\* A zero Progress that probes at next, as reset and confchange.Restore make it.
NewProgress(match, next, active) ==
    [Match |-> match, Next |-> next, sentCommit |-> 0, State |-> "StateProbe",
     PendingSnapshot |-> 0, RecentActive |-> active,
     MsgAppFlowPaused |-> FALSE, Inflights |-> << >>]

Full(q) == Len(q) = MaxInflight

\* Inflights.FreeLE: free the messages before the first one beyond `to`.
\* Mutant: the acked message itself stays in the window.
FreeLE_Strict(q, to) ==
    LET left == {k \in 1..Len(q) : q[k] >= to}
    IN  IF left = {} THEN << >>
        ELSE SubSeq(q, CHOOSE k \in left : \A j \in left : k <= j, Len(q))

FreeLE(q, to) ==
    LET beyond == {k \in 1..Len(q) : q[k] > to}
    IN  IF beyond = {} THEN << >>
        ELSE SubSeq(q, CHOOSE k \in beyond : \A j \in beyond : k <= j, Len(q))

ResetState(pr, state) ==
    [pr EXCEPT !.MsgAppFlowPaused = FALSE, !.PendingSnapshot = 0,
               !.State = state, !.Inflights = << >>]

\* Mutant: a snapshot that was sent counts as received.
BecomeProbe_TrustSnapshot(pr) ==
    LET match == Greatest(pr.Match, pr.PendingSnapshot)
    IN  [ResetState(pr, "StateProbe") EXCEPT
            !.Match = match, !.Next = match + 1, !.sentCommit = Least(@, match)]

BecomeProbe(pr) ==
    LET next == IF pr.State = "StateSnapshot"
                THEN Greatest(pr.Match + 1, pr.PendingSnapshot + 1)
                ELSE pr.Match + 1
    IN  [ResetState(pr, "StateProbe") EXCEPT
            !.Next = next, !.sentCommit = Least(@, next - 1)]

BecomeReplicate(pr) ==
    [ResetState(pr, "StateReplicate") EXCEPT !.Next = pr.Match + 1]

BecomeSnapshot(pr, snapshoti) ==
    [ResetState(pr, "StateSnapshot") EXCEPT
        !.PendingSnapshot = snapshoti, !.Next = snapshoti + 1,
        !.sentCommit = snapshoti]

IsPaused(pr) == pr.State = "StateSnapshot" \/ pr.MsgAppFlowPaused

(***************************************************************************)
(* SentEntries for a batch of MsgApps that carry n entries in all and end  *)
(* at the indexes of the sequence ends; an empty message is <<>> with n=0. *)
(***************************************************************************)
SentEntries(pr, n, ends) ==
    IF pr.State = "StateReplicate"
    THEN [pr EXCEPT !.Next = @ + n, !.Inflights = @ \o ends,
                    !.MsgAppFlowPaused = Full(pr.Inflights \o ends)]
    ELSE [pr EXCEPT !.MsgAppFlowPaused = @ \/ n > 0]

SentCommit(pr, commit) == [pr EXCEPT !.sentCommit = commit]

CanBumpCommit(pr, index) == index > pr.sentCommit /\ pr.sentCommit < pr.Next - 1

\* MaybeUpdate: whether the ack is news, and the record it leaves.
IsNews(pr, n) == n > pr.Match
MaybeUpdate(pr, n) ==
    IF IsNews(pr, n)
    THEN [pr EXCEPT !.Match = n, !.Next = Greatest(@, n + 1),
                    !.MsgAppFlowPaused = FALSE]
    ELSE pr

\* MaybeDecrTo: whether the rejection is genuine, and the record it leaves.
IsGenuine(pr, rejected) ==
    IF pr.State = "StateReplicate" THEN rejected > pr.Match
                                   ELSE rejected = pr.Next - 1
MaybeDecrTo(pr, rejected, matchHint) ==
    LET next == IF pr.State = "StateReplicate" THEN pr.Match + 1
                ELSE Greatest(Least(rejected, matchHint + 1), pr.Match + 1)
    IN  IF ~IsGenuine(pr, rejected) THEN pr
        ELSE [pr EXCEPT
                !.Next = next, !.sentCommit = Least(@, next - 1),
                !.MsgAppFlowPaused = @ /\ pr.State = "StateReplicate"]
=============================================================================
