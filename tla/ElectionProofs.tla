--------------------------- MODULE ElectionProofs ---------------------------
(***************************************************************************)
(* Type correctness and election safety of module Raft, for clusters of    *)
(* any size, any joint configuration and every choice of the options,      *)
(* asynchronous storage writes included.                                   *)
(*                                                                         *)
(* Type correctness is shown first: lemmas on the operators of Progress    *)
(* and RaftLog, then one step per action.                                  *)
(*                                                                         *)
(* Election safety follows a vote from raft.Vote through the queue of the  *)
(* append thread to the disk: a grant is released only after the disk that *)
(* backs it, and Term and Vote only move forward along that way, so no     *)
(* server ever lets out two grants of one term. Two winners of a term      *)
(* would have had one from a common member of their majorities.            *)
(*                                                                         *)
(* The last part shows that whatever a server takes for a leader is the    *)
(* winner of the term.                                                     *)
(***************************************************************************)
EXTENDS Raft, QuorumProofs, SequenceTheorems

USE ServerAssumption, OptionAssumption, MaxInflightAssumption, MaxUint64Assumption

-----------------------------------------------------------------------------
(* Progress.                                                               *)

(***************************************************************************)
(* The transitions of a Progress leave a Progress: in particular Next is   *)
(* never 0, so that Next-1 is an index (Progress.Next).                    *)
(***************************************************************************)
LEMMA NewProgressType ==
    ASSUME NEW match \in Nat, NEW next \in Nat \ {0}, NEW active \in BOOLEAN
    PROVE  NewProgress(match, next, active) \in ProgressType
<1>. QED
  BY DEF NewProgress, ProgressType, ProgressState

\* FreeLE leaves a window of indexes.
LEMMA FreeLEType ==
    ASSUME NEW q \in Seq(Nat), NEW to \in Nat
    PROVE  FreeLE(q, to) \in Seq(Nat)
<1>. DEFINE beyond == {k \in 1..Len(q) : q[k] > to}
            k == CHOOSE k \in beyond : \A j \in beyond : k <= j
<1>1. CASE beyond = {}
  BY <1>1 DEF FreeLE
<1>2. CASE beyond # {}
  <2>1. \E x \in beyond : \A j \in beyond : x <= j
    <3>1. beyond \subseteq Nat
      OBVIOUS
    <3>. HIDE DEF beyond
    <3>. QED
      BY <1>2, <3>1, LeastExists
  <2>2. k \in 1..Len(q)
    BY <2>1
  <2>3. FreeLE(q, to) = SubSeq(q, k, Len(q))
    BY <1>2 DEF FreeLE
  <2>. HIDE DEF k
  <2>. QED
    BY <2>2, <2>3
<1>. QED
  BY <1>1, <1>2

\* The Become* transitions, SentCommit, MaybeUpdate and MaybeDecrTo keep a
\* Progress well-formed: Next, above all, never drops to 0.
LEMMA ProgressTransitions ==
    ASSUME NEW pr \in ProgressType, NEW n \in Nat, NEW k \in Nat
    PROVE  /\ BecomeProbe(pr) \in ProgressType
           /\ BecomeReplicate(pr) \in ProgressType
           /\ BecomeSnapshot(pr, n) \in ProgressType
           /\ SentCommit(pr, n) \in ProgressType
           /\ MaybeUpdate(pr, n) \in ProgressType
           /\ MaybeDecrTo(pr, n, k) \in ProgressType
<1>1. << >> \in Seq(Nat) /\ pr.Match + 1 \in Nat \ {0} /\ n + 1 \in Nat \ {0}
  BY DEF ProgressType
<1>2. BecomeProbe(pr) \in ProgressType
  <2>. DEFINE next == IF pr.State = "StateSnapshot"
                      THEN Greatest(pr.Match + 1, pr.PendingSnapshot + 1)
                      ELSE pr.Match + 1
  <2>1. next \in Nat \ {0} /\ Least(pr.sentCommit, next - 1) \in Nat
    BY DEF Greatest, Least, ProgressType
  <2>. HIDE DEF next
  <2>. QED
    BY <1>1, <2>1 DEF BecomeProbe, ResetState, ProgressType, ProgressState, next
<1>3. BecomeReplicate(pr) \in ProgressType
  BY <1>1 DEF BecomeReplicate, ResetState, ProgressType, ProgressState
<1>4. BecomeSnapshot(pr, n) \in ProgressType
  BY <1>1 DEF BecomeSnapshot, ResetState, ProgressType, ProgressState
<1>5. SentCommit(pr, n) \in ProgressType
  BY DEF SentCommit, ProgressType
<1>6. MaybeUpdate(pr, n) \in ProgressType
  <2>1. Greatest(pr.Next, n + 1) \in Nat \ {0}
    BY DEF Greatest, ProgressType
  <2>. QED
    BY <2>1 DEF MaybeUpdate, ProgressType
<1>7. MaybeDecrTo(pr, n, k) \in ProgressType
  <2>. DEFINE next == IF pr.State = "StateReplicate" THEN pr.Match + 1
                      ELSE Greatest(Least(n, k + 1), pr.Match + 1)
  <2>1. next \in Nat \ {0} /\ Least(pr.sentCommit, next - 1) \in Nat
    BY DEF Greatest, Least, ProgressType
  <2>. HIDE DEF next
  <2>. QED
    BY <2>1 DEF MaybeDecrTo, ProgressType, next
<1>. QED
  BY <1>2, <1>3, <1>4, <1>5, <1>6, <1>7

\* SentEntries keeps a Progress well-formed.
LEMMA SentEntriesType ==
    ASSUME NEW pr \in ProgressType, NEW n \in Int, pr.Next + n \in Nat \ {0},
           NEW ends \in Seq(Nat)
    PROVE  SentEntries(pr, n, ends) \in ProgressType
<1>1. pr.Inflights \in Seq(Nat) /\ pr.Inflights \o ends \in Seq(Nat)
  BY DEF ProgressType
<1>2. Full(pr.Inflights \o ends) \in BOOLEAN
  BY DEF Full
<1>. QED
  BY <1>1, <1>2 DEF SentEntries, ProgressType

\* What stepLeader does to a Progress on an ack keeps it well-formed.
LEMMA AckedType ==
    ASSUME NEW pr \in ProgressType, NEW index \in Nat, NEW first \in Nat
    PROVE  Acked(pr, index, first) \in ProgressType
<1>. DEFINE up == MaybeUpdate(pr, index)
<1>1. up \in ProgressType
  BY ProgressTransitions
<1>2. BecomeReplicate(up) \in ProgressType /\ BecomeReplicate(BecomeProbe(up)) \in ProgressType
  BY <1>1, ProgressTransitions
<1>3. [up EXCEPT !.Inflights = FreeLE(@, index)] \in ProgressType
  <2>1. up.Inflights \in Seq(Nat)
    BY <1>1 DEF ProgressType
  <2>2. FreeLE(up.Inflights, index) \in Seq(Nat)
    BY <2>1, FreeLEType
  <2>. HIDE DEF up
  <2>. QED
    BY <1>1, <2>2 DEF ProgressType
<1>. QED
  BY <1>1, <1>2, <1>3 DEF Acked

-----------------------------------------------------------------------------
(* RaftLog.                                                                *)

(***************************************************************************)
(* What the log answers is an index or a term, and what its updates leave  *)
(* is a log (log.go).                                                      *)
(***************************************************************************)
LEMMA LogReads ==
    ASSUME NEW lg \in LogType
    PROVE  /\ lg.ents \in Seq(Entry) /\ lg.committed \in Nat /\ lg.snap \in Nat
           /\ lastIndex(lg) \in Nat /\ lastTerm(lg) \in Nat
           /\ \A i \in Nat : i <= lastIndex(lg) => TermAt(lg.ents, i) \in Nat
           /\ \A i \in Nat : KnownTerm(lg, i) \in Nat
<1>1. lg.ents \in Seq(Entry) /\ lg.committed \in Nat /\ lg.snap \in Nat
  BY DEF LogType
<1>2. lastIndex(lg) \in Nat
  BY <1>1 DEF lastIndex
<1>3. \A k \in Nat : k <= lastIndex(lg) => TermAt(lg.ents, k) \in Nat
  <2>. TAKE k \in Nat
  <2>. HAVE k <= lastIndex(lg)
  <2>1. k # 0 => lg.ents[k] \in Entry
    BY <1>1 DEF lastIndex
  <2>. QED
    BY <2>1 DEF TermAt, Entry
<1>. QED
  BY <1>1, <1>2, <1>3 DEF lastTerm, KnownTerm, HasTerm

\* findConflictByTerm returns an index at or below the one it starts from.
LEMMA FindConflictByTermType ==
    ASSUME NEW lg \in LogType, NEW index \in Nat, NEW term \in Nat
    PROVE  findConflictByTerm(lg, index, term) \in 0..index
<1>. DEFINE Fits(k) == k = 0 \/ ~HasTerm(lg, k) \/ TermAt(lg.ents, k) <= term
            S == {k \in 0..index : Fits(k)}
<1>1. S \subseteq Nat /\ S # {} /\ \A k \in S : k <= index
  <2>1. 0 \in S
    OBVIOUS
  <2>. QED
    BY <2>1
<1>2. PICK x \in S : \A y \in S : y <= x
  <2>. HIDE DEF S
  <2>. QED
    BY <1>1, GreatestExists
<1>3. x \in 0..index /\ Fits(x) /\ \A j \in (x + 1)..index : ~Fits(j)
  BY <1>2
<1>4. findConflictByTerm(lg, index, term)
        = CHOOSE k \in 0..index : Fits(k) /\ \A j \in (k + 1)..index : ~Fits(j)
  BY DEF findConflictByTerm
<1>. HIDE DEF Fits
<1>. QED
  BY <1>3, <1>4

\* commitTo changes only the commit index, and never lowers it.
LEMMA CommitToType ==
    ASSUME NEW lg \in LogType, NEW k \in Nat
    PROVE  /\ commitTo(lg, k) \in LogType
           /\ commitTo(lg, k).ents = lg.ents /\ commitTo(lg, k).snap = lg.snap
           /\ commitTo(lg, k).committed >= lg.committed
<1>. QED
  BY DEF commitTo, LogType

\* appendEntry makes the log one entry longer.
LEMMA AppendEntryType ==
    ASSUME NEW lg \in LogType, NEW term \in Nat, NEW data \in Value \cup {NoData}
    PROVE  /\ appendEntry(lg, term, data) \in LogType
           /\ lastIndex(appendEntry(lg, term, data)) = lastIndex(lg) + 1
           /\ appendEntry(lg, term, data).snap = lg.snap
           /\ appendEntry(lg, term, data).committed = lg.committed
<1>1. [term |-> term, data |-> data] \in Entry
  BY DEF Entry
<1>2. lg.ents \in Seq(Entry)
  BY DEF LogType
<1>3. /\ Append(lg.ents, [term |-> term, data |-> data]) \in Seq(Entry)
      /\ Len(Append(lg.ents, [term |-> term, data |-> data])) = Len(lg.ents) + 1
  BY <1>1, <1>2
<1>. QED
  BY <1>3 DEF appendEntry, LogType, lastIndex

(***************************************************************************)
(* maybeAppend keeps everything up to the entry it was told to follow: the *)
(* first conflict lies right behind an entry of the log.                   *)
(***************************************************************************)
LEMMA MaybeAppendType ==
    ASSUME NEW lg \in LogType, NEW prev \in Nat, NEW ents \in Seq(Entry),
           NEW committed \in Nat, HasTerm(lg, prev)
    PROVE  LET new == maybeAppend(lg, prev, ents, committed)
           IN  /\ new \in LogType /\ new.snap = lg.snap
               /\ new.committed >= lg.committed
               /\ lastIndex(new) >= prev
<1>. DEFINE c  == Conflicts(lg, prev, ents)
            ci == findConflict(lg, prev, ents)
            appended == IF ci = 0 THEN lg.ents
                        ELSE SubSeq(lg.ents, 1, ci - 1)
                               \o SubSeq(ents, ci - prev, Len(ents))
            cut == [lg EXCEPT !.ents = appended]
            upTo == IF committed < prev + Len(ents) THEN committed ELSE prev + Len(ents)
<1>1. lg.ents \in Seq(Entry) /\ Len(lg.ents) \in Nat /\ Len(ents) \in Nat
  BY DEF LogType
<1>2. prev <= Len(lg.ents)
  BY DEF HasTerm, lastIndex
<1>3. appended \in Seq(Entry) /\ Len(appended) >= prev
  <2>1. CASE c = {}
    <3>1. ci = 0
      BY <2>1 DEF findConflict
    <3>. HIDE DEF ci
    <3>. QED
      BY <1>1, <1>2, <3>1
  <2>2. CASE c # {}
    <3>. DEFINE k == CHOOSE k \in c : \A j \in c : k <= j
    <3>1. c \subseteq 1..Len(ents)
      BY DEF Conflicts
    <3>2. \E x \in c : \A j \in c : x <= j
      <4>1. c \subseteq Nat
        BY <1>1, <3>1
      <4>. HIDE DEF c
      <4>. QED
        BY <2>2, <4>1, LeastExists
    <3>3. k \in c /\ \A j \in c : k <= j
      <4>. HIDE DEF c
      <4>. QED
        BY <3>2
    <3>4. k \in 1..Len(ents) /\ ci = prev + k
      BY <2>2, <3>1, <3>3 DEF findConflict
    <3>5. prev + k - 1 <= Len(lg.ents)
      <4>1. CASE k = 1
        <5>. HIDE DEF k
        <5>. QED
          BY <1>1, <1>2, <4>1
      <4>2. CASE k # 1
        <5>1. k - 1 \in 1..Len(ents) /\ k - 1 \notin c
          BY <1>1, <3>3, <3>4, <4>2
        <5>2. HasTerm(lg, prev + (k - 1))
          BY <5>1 DEF Conflicts, matchTerm
        <5>. HIDE DEF k
        <5>. QED
          BY <1>1, <3>4, <5>2 DEF HasTerm, lastIndex
      <4>. QED
        BY <4>1, <4>2
    <3>. HIDE DEF k, ci
    <3>6. /\ SubSeq(lg.ents, 1, ci - 1) \in Seq(Entry)
          /\ Len(SubSeq(lg.ents, 1, ci - 1)) = prev + k - 1
      BY <1>1, <3>4, <3>5
    <3>7. /\ SubSeq(ents, ci - prev, Len(ents)) \in Seq(Entry)
          /\ Len(SubSeq(ents, ci - prev, Len(ents))) \in Nat
      BY <1>1, <3>4
    <3>8. ci # 0
      BY <3>4
    <3>. QED
      BY <3>4, <3>6, <3>7, <3>8
  <2>. QED
    BY <2>1, <2>2
<1>4. upTo \in Nat
  BY <1>1
<1>5. maybeAppend(lg, prev, ents, committed) = commitTo(cut, upTo)
  BY DEF maybeAppend
<1>. HIDE DEF appended, upTo
<1>6. /\ cut \in LogType /\ cut.ents = appended
      /\ cut.snap = lg.snap /\ cut.committed = lg.committed
  BY <1>3 DEF LogType
<1>. HIDE DEF cut
<1>7. /\ commitTo(cut, upTo) \in LogType
      /\ commitTo(cut, upTo).ents = appended /\ commitTo(cut, upTo).snap = lg.snap
      /\ commitTo(cut, upTo).committed >= lg.committed
  BY <1>4, <1>6, CommitToType
<1>. QED
  BY <1>3, <1>5, <1>7 DEF lastIndex

(***************************************************************************)
(* The quorum's index is an index: raftLog.maybeCommit leaves a log whose  *)
(* entries it did not touch.                                               *)
(***************************************************************************)
LEMMA MaybeCommitType ==
    ASSUME NEW lg \in LogType, NEW term \in Nat, NEW prs \in [Server -> ProgressType]
    PROVE  /\ maybeCommit(lg, term, prs) \in LogType
           /\ maybeCommit(lg, term, prs).ents = lg.ents
           /\ maybeCommit(lg, term, prs).snap = lg.snap
           /\ maybeCommit(lg, term, prs).committed >= lg.committed
<1>. DEFINE acked == [j \in Server |-> prs[j].Match]
            index == JointCommittedIndex(Config, acked)
<1>1. \A j \in Server : acked[j] \in Nat
  BY DEF ProgressType
<1>2. ASSUME NEW c \in SUBSET Server PROVE MajorityCommittedIndex(c, acked) \in Nat
  <2>. HIDE DEF acked
  <2>1. CASE c = {}
    BY <2>1 DEF MajorityCommittedIndex
  <2>2. CASE c # {}
    <3>1. IsFiniteSet(c) /\ \A j \in c : acked[j] \in Nat
      BY <1>1, FS_Subset
    <3>2. MajorityCommittedIndex(c, acked) \in {acked[id] : id \in c}
      BY <2>2, <3>1, MajorityCommitted
    <3>. QED
      BY <3>1, <3>2
  <2>. QED
    BY <2>1, <2>2
<1>3. index \in Nat
  <2>. HIDE DEF acked
  <2>1. Config[1] \in SUBSET Server /\ Config[2] \in SUBSET Server
    BY DEF Config
  <2>. QED
    BY <1>2, <2>1 DEF JointCommittedIndex
<1>4. maybeCommit(lg, term, prs) \in {commitTo(lg, index), lg}
  BY DEF maybeCommit
<1>5. lg.committed \in Nat
  BY DEF LogType
<1>. HIDE DEF index
<1>6. CASE maybeCommit(lg, term, prs) = lg
  BY <1>5, <1>6
<1>7. CASE maybeCommit(lg, term, prs) = commitTo(lg, index)
  BY <1>3, <1>7, CommitToType
<1>. QED
  BY <1>4, <1>6, <1>7

-----------------------------------------------------------------------------
(* Messages.                                                               *)

(***************************************************************************)
(* The type of a message says which fields it has, and the constructors    *)
(* make messages.                                                          *)
(***************************************************************************)
LEMMA MessageKinds ==
    ASSUME NEW m \in Message
    PROVE  /\ m.type \in {"MsgVote", "MsgPreVote"} => m \in VoteMsg
           /\ m.type \in {"MsgVoteResp", "MsgPreVoteResp"} => m \in VoteRespMsg
           /\ m.type = "MsgApp" => m \in AppMsg
           /\ m.type = "MsgAppResp" => m \in AppRespMsg
           /\ m.type = "MsgSnap" => m \in SnapMsg
           /\ m.type = "MsgHeartbeat" => m \in HeartbeatMsg
           /\ m.type \in {"MsgHeartbeatResp", "MsgTimeoutNow", "MsgTransferLeader"}
                => m \in PlainMsg
           /\ m.type = "MsgStorageAppendResp" => m \in StorageMsg
           /\ m.type = "MsgProp" => m \in PropMsg
<1>. QED
  BY DEF Message, VoteMsg, VoteRespMsg, AppMsg, AppRespMsg, SnapMsg, HeartbeatMsg,
         PlainMsg, StorageMsg, PropMsg

\* The constructors of this model build messages.
LEMMA MessageTypes ==
    ASSUME NEW from \in Server, NEW to \in Server, NEW term \in Nat,
           NEW b \in BOOLEAN
    PROVE  /\ \A lg \in LogType : \A t \in {"MsgVote", "MsgPreVote"} :
                Vote(t, from, to, term, lg, b) \in Message
           /\ \A t \in {"MsgVote", "MsgPreVote"} :
                VoteResp(RespType(t), from, to, term, b) \in Message
           /\ VoteResp("MsgPreVoteResp", from, to, term, b) \in Message
           /\ \A k \in Nat : /\ AppResp(from, to, term, k) \in Message
                            /\ Heartbeat(from, to, term, k) \in Message
                            /\ StorageAppendResp(from, term, k) \in Message
           /\ \A t \in {"MsgHeartbeatResp", "MsgTimeoutNow", "MsgTransferLeader"} :
                Plain(t, from, to, term) \in Message
           /\ \A v \in Value : Prop(from, to, v) \in Message
<1>1. \A lg \in LogType : lastIndex(lg) \in Nat /\ lastTerm(lg) \in Nat
  BY LogReads
<1>2. \A lg \in LogType : \A t \in {"MsgVote", "MsgPreVote"} : Vote(t, from, to, term, lg, b) \in Message
  BY <1>1 DEF Vote, Message, VoteMsg
<1>3. /\ \A t \in {"MsgVote", "MsgPreVote"} :
            VoteResp(RespType(t), from, to, term, b) \in Message
      /\ VoteResp("MsgPreVoteResp", from, to, term, b) \in Message
  BY DEF VoteResp, RespType, Message, VoteRespMsg
<1>4. \A k \in Nat : AppResp(from, to, term, k) \in Message
  BY DEF AppResp, Message, AppRespMsg
<1>5. \A k \in Nat : Heartbeat(from, to, term, k) \in Message /\ StorageAppendResp(from, term, k) \in Message
  BY DEF Heartbeat, StorageAppendResp, Message, HeartbeatMsg, StorageMsg
<1>6. \A t \in {"MsgHeartbeatResp", "MsgTimeoutNow", "MsgTransferLeader"} :
        Plain(t, from, to, term) \in Message
  BY DEF Plain, Message, PlainMsg
<1>7. \A v \in Value : Prop(from, to, v) \in Message
  BY DEF Prop, Message, PropMsg
<1>. QED
  BY <1>2, <1>3, <1>4, <1>5, <1>6, <1>7

(***************************************************************************)
(* maybeSendAppend sends messages and leaves a Progress: the entries of    *)
(* every MsgApp lie within the log, and Next moves to the one behind them. *)
(***************************************************************************)
SendResult == [msgs : SUBSET Message, pr : ProgressType]

\* maybeSendAppend sends messages and leaves a well-formed Progress.
LEMMA MaybeSendAppendType ==
    ASSUME TypeOK, NEW i \in Server, NEW to \in Server, NEW pr \in ProgressType,
           NEW lg \in LogType, NEW atMost \in Nat, NEW sendIfEmpty
    PROVE  maybeSendAppend(i, to, pr, lg, atMost, sendIfEmpty) \in SendResult
<1>. DEFINE prev == pr.Next - 1
            last == lastIndex(lg)
            left == IF pr.Next > last THEN 0 ELSE last - prev
            room == IF pr.State = "StateReplicate"
                    THEN MaxInflight - Len(pr.Inflights) ELSE 1
            n == Least(atMost, Least(room, (left + MaxEntsPerMsg - 1) \div MaxEntsPerMsg))
            End(k) == Least(prev + k * MaxEntsPerMsg, last)
            App(p, end) == [type |-> "MsgApp", from |-> i, to |-> to,
                            term |-> raft[i].Term, index |-> p,
                            logTerm |-> TermAt(lg.ents, p),
                            entries |-> SubSeq(lg.ents, p + 1, end),
                            commit |-> lg.committed]
            Sent(msgs, count, ends) ==
                [msgs |-> msgs,
                 pr   |-> SentCommit(SentEntries(pr, count, ends), lg.committed)]
<1>1. raft[i].Term \in Nat /\ disk[i].snapshot \in Seq(Entry)
  BY DEF TypeOK, RaftType, DiskType
<1>2. prev \in Nat /\ pr.Next = prev + 1 /\ Len(pr.Inflights) \in Nat
  BY DEF ProgressType
<1>3. last \in Nat /\ lg.committed \in Nat /\ lg.ents \in Seq(Entry) /\ last = Len(lg.ents)
  BY LogReads DEF lastIndex
<1>4. NothingSent(pr) \in SendResult
  BY DEF NothingSent, SendResult
<1>5. maybeSendSnapshot(i, to, pr) \in SendResult
  <2>1. BecomeSnapshot(pr, Len(disk[i].snapshot)) \in ProgressType
    <3>1. Len(disk[i].snapshot) \in Nat
      BY <1>1
    <3>. QED
      BY <3>1, ProgressTransitions
  <2>2. [type |-> "MsgSnap", from |-> i, to |-> to, term |-> raft[i].Term,
         snapshot |-> disk[i].snapshot] \in Message
    BY <1>1 DEF Message, SnapMsg
  <2>. QED
    BY <1>4, <2>1, <2>2 DEF maybeSendSnapshot, SendResult
<1>6. ASSUME NEW p \in Nat, NEW e \in Nat, p <= last, e <= last
      PROVE  App(p, e) \in Message
  <2>1. TermAt(lg.ents, p) \in Nat
    BY <1>6, LogReads
  <2>2. SubSeq(lg.ents, p + 1, e) \in Seq(Entry)
    BY <1>3, <1>6
  <2>. QED
    BY <1>1, <1>3, <2>1, <2>2 DEF Message, AppMsg
<1>7. ASSUME NEW msgs \in SUBSET Message, NEW count \in Int,
             pr.Next + count \in Nat \ {0}, NEW ends \in Seq(Nat)
      PROVE  Sent(msgs, count, ends) \in SendResult
  <2>1. SentEntries(pr, count, ends) \in ProgressType
    BY <1>7, SentEntriesType
  <2>2. SentCommit(SentEntries(pr, count, ends), lg.committed) \in ProgressType
    BY <1>3, <2>1, ProgressTransitions
  <2>. QED
    BY <2>2 DEF SendResult
<1>8. \A k \in Nat : End(k) \in Nat /\ End(k) <= last
  <2>. TAKE k \in Nat
  <2>1. k * MaxEntsPerMsg \in Nat
    OBVIOUS
  <2>. QED
    BY <1>2, <1>3, <2>1 DEF Least
<1>9. n \in Int
  BY <1>2, <1>3 DEF Least
<1>10. ASSUME n > 0
       PROVE  Sent({App(End(k - 1), End(k)) : k \in 1..n}, End(n) - prev,
                   [k \in 1..n |-> End(k)]) \in SendResult
  <2>. HIDE DEF n, End, Sent, App, prev, last
  <2>1. n \in Nat
    BY <1>9, <1>10
  <2>2. \A k \in 1..n : k \in Nat /\ k - 1 \in Nat
    BY <2>1
  <2>3. {App(End(k - 1), End(k)) : k \in 1..n} \in SUBSET Message
    BY <1>6, <1>8, <2>2
  <2>4. End(n) - prev \in Int /\ pr.Next + (End(n) - prev) \in Nat \ {0}
    <3>1. End(n) \in Nat
      BY <1>8, <2>1
    <3>. QED
      BY <1>2, <3>1
  <2>5. [k \in 1..n |-> End(k)] \in Seq(Nat)
    BY <1>8, <2>1, <2>2
  <2>. QED
    BY <1>7, <2>3, <2>4, <2>5
<1>11. ASSUME HasTerm(lg, prev) PROVE Sent({App(prev, prev)}, 0, << >>) \in SendResult
  <2>1. prev <= last
    BY <1>11 DEF HasTerm
  <2>2. {App(prev, prev)} \in SUBSET Message
    BY <1>2, <1>6, <2>1
  <2>3. << >> \in Seq(Nat) /\ pr.Next + 0 \in Nat \ {0}
    BY <1>2
  <2>4. 0 \in Int
    OBVIOUS
  <2>. HIDE DEF Sent, App, prev
  <2>. QED
    BY <1>7, <2>2, <2>3, <2>4, Zenon
<1>12. maybeSendAppend(i, to, pr, lg, atMost, sendIfEmpty)
         = IF IsPaused(pr) THEN NothingSent(pr)
           ELSE IF ~HasTerm(lg, prev) THEN maybeSendSnapshot(i, to, pr)
           ELSE IF n > 0 THEN
               Sent({App(End(k - 1), End(k)) : k \in 1..n}, End(n) - prev,
                    [k \in 1..n |-> End(k)])
           ELSE IF sendIfEmpty THEN Sent({App(prev, prev)}, 0, << >>)
           ELSE NothingSent(pr)
  BY DEF maybeSendAppend
<1>. HIDE DEF Sent, App, End, n, prev
<1>. QED
  BY <1>4, <1>5, <1>10, <1>11, <1>12

\* The same for a round of sends to several followers.
LEMMA SendAppendsType ==
    ASSUME TypeOK, NEW i \in Server, NEW prs \in [Server -> ProgressType],
           NEW lg \in LogType, NEW targets, NEW atMost \in Nat, NEW sendIfEmpty
    PROVE  LET out == SendAppends(i, prs, lg, targets, atMost, sendIfEmpty)
           IN  /\ MsgsOf(out) \in SUBSET Message
               /\ ProgressOf(out) \in [Server -> ProgressType]
<1>. DEFINE out == SendAppends(i, prs, lg, targets, atMost, sendIfEmpty)
<1>1. \A j \in Server : maybeSendAppend(i, j, prs[j], lg, atMost, sendIfEmpty) \in SendResult
  BY MaybeSendAppendType
<1>2. \A j \in Server : NothingSent(prs[j]) \in SendResult
  BY DEF NothingSent, SendResult
<1>3. \A j \in Server : out[j] \in SendResult
  BY <1>1, <1>2 DEF SendAppends
<1>. HIDE DEF out
<1>4. \A j \in Server : out[j].msgs \in SUBSET Message /\ out[j].pr \in ProgressType
  BY <1>3 DEF SendResult
<1>5. MsgsOf(out) \in SUBSET Message /\ ProgressOf(out) \in [Server -> ProgressType]
  BY <1>4 DEF MsgsOf, ProgressOf
<1>. QED
  BY <1>5 DEF out

\* Send puts messages, and nothing else, in the two queues.
LEMMA SendType ==
    ASSUME TypeOK, NEW i \in Server, NEW now \in SUBSET Message,
           NEW after \in SUBSET Message, Send(i, now, after)
    PROVE  net' \in SUBSET Message /\ pend' \in [Server -> SUBSET Message]
<1>1. net \in SUBSET Message /\ pend \in [Server -> SUBSET Message]
  BY DEF TypeOK
<1>. QED
  BY <1>1 DEF Send

-----------------------------------------------------------------------------
(* Transitions of the scalar fields.                                       *)

\* reset and the become* transitions keep struct raft well-formed.
LEMMA RecordTypes ==
    ASSUME NEW r \in RaftType, NEW term \in Nat, NEW i \in Server,
           NEW lead \in Server \cup {None}
    PROVE  /\ becomeFollower(r, term, lead) \in RaftType
           /\ becomeCandidate(r, i) \in RaftType
           /\ becomePreCandidate(r) \in RaftType
           /\ becomeLeader(r, i) \in RaftType
<1>1. r.Term \in Nat /\ r.Term + 1 \in Nat
  BY DEF RaftType
<1>2. \A t \in Nat : reset(r, t) \in RaftType
  BY DEF reset, RaftType
<1>. QED
  BY <1>1, <1>2, ZenonT(30) DEF becomeFollower, becomeCandidate, becomePreCandidate,
                    becomeLeader, RaftType, StateType

\* The Progress maps that reset and becomeLeader make are well-formed.
LEMMA ProgressMapTypes ==
    ASSUME NEW i \in Server, NEW lg \in LogType
    PROVE  /\ resetProgress(i, lg) \in [Server -> ProgressType]
           /\ leaderProgress(i, lg) \in [Server -> ProgressType]
<1>1. lastIndex(lg) \in Nat
  BY LogReads
<1>2. resetProgress(i, lg) \in [Server -> ProgressType]
  <2>1. \A j \in Server : NewProgress(IF j = i THEN lastIndex(lg) ELSE 0,
                                     lastIndex(lg) + 1, FALSE) \in ProgressType
    <3>. TAKE j \in Server
    <3>. DEFINE match == IF j = i THEN lastIndex(lg) ELSE 0
                next == lastIndex(lg) + 1
    <3>1. match \in Nat /\ next \in Nat \ {0} /\ FALSE \in BOOLEAN
      BY <1>1
    <3>. HIDE DEF match, next
    <3>2. NewProgress(match, next, FALSE) \in ProgressType
      BY <3>1, NewProgressType
    <3>. QED
      BY <3>2 DEF match, next
  <2>. QED
    BY <2>1 DEF resetProgress
<1>3. BecomeReplicate(resetProgress(i, lg)[i]) \in ProgressType
  BY <1>2, ProgressTransitions
<1>4. [BecomeReplicate(resetProgress(i, lg)[i]) EXCEPT !.RecentActive = TRUE] \in ProgressType
  BY <1>3 DEF ProgressType
<1>. QED
  BY <1>2, <1>4 DEF leaderProgress

\* ResetVotes leaves an empty poll.
LEMMA NoVotesType == NoVotes \in [Server -> Ballot]
<1>. QED
  BY DEF NoVotes, Ballot

\* Become keeps struct raft and the two maps of the tracker well-formed.
LEMMA BecomeType ==
    ASSUME TypeOK, NEW i \in Server, NEW r \in RaftType, NEW through,
           Become(i, r, through)
    PROVE  /\ raft'  \in [Server -> RaftType]
           /\ votes' \in [Server -> [Server -> Ballot]]
           /\ trk'   \in [Server -> [Server -> ProgressType]]
<1>1. /\ raft \in [Server -> RaftType] /\ votes \in [Server -> [Server -> Ballot]]
      /\ trk \in [Server -> [Server -> ProgressType]] /\ raftLog[i] \in LogType
  BY DEF TypeOK
<1>2. raft' \in [Server -> RaftType]
  BY <1>1 DEF Become
<1>3. votes' \in [Server -> [Server -> Ballot]]
  BY <1>1, NoVotesType DEF Become
<1>4. trk' \in [Server -> [Server -> ProgressType]]
  BY <1>1, ProgressMapTypes DEF Become
<1>. QED
  BY <1>2, <1>3, <1>4

\* campaign keeps everything it changes well-formed.
LEMMA CampaignTypes ==
    ASSUME TypeOK, NEW i \in Server, NEW r \in RaftType, NEW pre \in BOOLEAN,
           NEW transfer \in BOOLEAN, campaign(i, r, pre, transfer)
    PROVE  /\ raft'  \in [Server -> RaftType]
           /\ votes' \in [Server -> [Server -> Ballot]]
           /\ trk'   \in [Server -> [Server -> ProgressType]]
           /\ net' \in SUBSET Message /\ pend' \in [Server -> SUBSET Message]
<1>. DEFINE c    == IF pre THEN becomePreCandidate(r) ELSE becomeCandidate(r, i)
            type == IF pre THEN "MsgPreVote" ELSE "MsgVote"
            asks == {Vote(type, i, j, r.Term + 1, raftLog[i], transfer) : j \in Voters \ {i}}
            own  == {VoteResp(RespType(type), i, i, r.Term + 1, FALSE)}
<1>1. /\ raft \in [Server -> RaftType] /\ votes \in [Server -> [Server -> Ballot]]
      /\ trk \in [Server -> [Server -> ProgressType]] /\ raftLog[i] \in LogType
  BY DEF TypeOK
<1>2. c \in RaftType
  BY RecordTypes
<1>3. raft' \in [Server -> RaftType]
  <2>1. raft' = [raft EXCEPT ![i] = c]
    BY DEF campaign
  <2>. HIDE DEF c
  <2>. QED
    BY <1>1, <1>2, <2>1
<1>4. votes' \in [Server -> [Server -> Ballot]]
  BY <1>1, NoVotesType DEF campaign
<1>5. trk' \in [Server -> [Server -> ProgressType]]
  BY <1>1, ProgressMapTypes DEF campaign
<1>6. asks \in SUBSET Message /\ own \in SUBSET Message
  <2>1. r.Term + 1 \in Nat /\ type \in {"MsgVote", "MsgPreVote"}
    BY DEF RaftType
  <2>2. Voters \subseteq Server
    BY DEF Voters, JointIDs, Config
  <2>. HIDE DEF type
  <2>3. \A j \in Server : Vote(type, i, j, r.Term + 1, raftLog[i], transfer) \in Message
    BY <1>1, <2>1, MessageTypes
  <2>4. VoteResp(RespType(type), i, i, r.Term + 1, FALSE) \in Message
    BY <1>1, <2>1, MessageTypes
  <2>. QED
    BY <2>2, <2>3, <2>4
<1>7. Send(i, asks, own)
  BY DEF campaign
<1>. HIDE DEF asks, own
<1>8. net' \in SUBSET Message /\ pend' \in [Server -> SUBSET Message]
  BY <1>6, <1>7, SendType
<1>. QED
  BY <1>3, <1>4, <1>5, <1>8

-----------------------------------------------------------------------------
(* The inductive invariant.                                                *)

(***************************************************************************)
(* The unstable snapshot lies within the log: the next Ready can hand it   *)
(* out. Nothing cuts the log below the commit index that came with it.     *)
(***************************************************************************)
LogOK(lg) == lg \in LogType /\ lg.snap <= lg.committed /\ lg.snap <= Len(lg.ents)

IndType == TypeOK /\ \A i \in Server : LogOK(raftLog[i])

\* Replacing one server's log by a sound one keeps all logs sound.
LEMMA LogUpdate ==
    ASSUME IndType, NEW i \in Server, NEW lg, LogOK(lg),
           raftLog' = [raftLog EXCEPT ![i] = lg]
    PROVE  /\ raftLog' \in [Server -> LogType]
           /\ \A j \in Server : LogOK(raftLog'[j])
<1>1. raftLog \in [Server -> LogType] /\ \A j \in Server : LogOK(raftLog[j])
  BY DEF IndType, TypeOK
<1>2. lg \in LogType
  BY DEF LogOK
<1>3. \A j \in Server : raftLog'[j] = IF j = i THEN lg ELSE raftLog[j]
  BY <1>1
<1>. QED
  BY <1>1, <1>2, <1>3

\* Every operation on raftLog keeps the unstable snapshot within the log.
LEMMA LogUpdates ==
    ASSUME NEW lg, LogOK(lg)
    PROVE  /\ \A k \in Nat : LogOK(commitTo(lg, k))
           /\ \A term \in Nat : \A data \in Value \cup {NoData} :
                LogOK(appendEntry(lg, term, data))
           /\ \A term \in Nat : \A prs \in [Server -> ProgressType] :
                LogOK(maybeCommit(lg, term, prs))
           /\ \A prev \in Nat : \A ents \in Seq(Entry) : \A committed \in Nat :
                HasTerm(lg, prev) /\ prev >= lg.committed
                    => LogOK(maybeAppend(lg, prev, ents, committed))
           /\ \A k \in Nat : LogOK([lg EXCEPT !.first = k + 1])
<1>1. lg \in LogType /\ lg.snap <= lg.committed /\ lg.snap <= Len(lg.ents)
  BY DEF LogOK
<1>2. lg.ents \in Seq(Entry) /\ lg.committed \in Nat /\ lg.snap \in Nat
  BY <1>1, LogReads
<1>3. \A k \in Nat : LogOK(commitTo(lg, k))
  <2>. TAKE k \in Nat
  <2>1. /\ commitTo(lg, k) \in LogType
        /\ commitTo(lg, k).ents = lg.ents /\ commitTo(lg, k).snap = lg.snap
        /\ commitTo(lg, k).committed >= lg.committed
    BY <1>1, CommitToType
  <2>2. commitTo(lg, k).committed \in Nat
    BY <2>1, LogReads
  <2>. QED
    BY <1>1, <1>2, <2>1, <2>2 DEF LogOK
<1>4. ASSUME NEW term \in Nat, NEW data \in Value \cup {NoData}
      PROVE  LogOK(appendEntry(lg, term, data))
  <2>1. /\ appendEntry(lg, term, data) \in LogType
        /\ Len(appendEntry(lg, term, data).ents) = Len(lg.ents) + 1
        /\ appendEntry(lg, term, data).snap = lg.snap
        /\ appendEntry(lg, term, data).committed = lg.committed
    BY <1>1, AppendEntryType DEF lastIndex
  <2>2. Len(lg.ents) \in Nat
    BY <1>2
  <2>. QED
    BY <1>1, <1>2, <2>1, <2>2 DEF LogOK
<1>5. ASSUME NEW term \in Nat, NEW prs \in [Server -> ProgressType]
      PROVE  LogOK(maybeCommit(lg, term, prs))
  <2>1. /\ maybeCommit(lg, term, prs) \in LogType
        /\ maybeCommit(lg, term, prs).ents = lg.ents
        /\ maybeCommit(lg, term, prs).snap = lg.snap
        /\ maybeCommit(lg, term, prs).committed >= lg.committed
    BY <1>1, MaybeCommitType
  <2>2. maybeCommit(lg, term, prs).committed \in Nat
    BY <2>1, LogReads
  <2>. QED
    BY <1>1, <1>2, <2>1, <2>2 DEF LogOK
<1>6. ASSUME NEW prev \in Nat, NEW ents \in Seq(Entry), NEW committed \in Nat,
             HasTerm(lg, prev), prev >= lg.committed
      PROVE  LogOK(maybeAppend(lg, prev, ents, committed))
  <2>. DEFINE new == maybeAppend(lg, prev, ents, committed)
  <2>1. /\ new \in LogType /\ new.snap = lg.snap
        /\ new.committed >= lg.committed /\ Len(new.ents) >= prev
    BY <1>1, <1>6, MaybeAppendType DEF lastIndex
  <2>. HIDE DEF new
  <2>2. new.committed \in Nat /\ new.ents \in Seq(Entry)
    BY <2>1, LogReads
  <2>3. Len(new.ents) \in Nat
    BY <2>2
  <2>4. LogOK(new)
    BY <1>1, <1>2, <1>6, <2>1, <2>2, <2>3 DEF LogOK
  <2>. QED
    BY <2>4 DEF new
<1>7. \A k \in Nat : LogOK([lg EXCEPT !.first = k + 1])
  BY <1>1, <1>2 DEF LogOK, LogType
<1>. QED
  BY <1>3, <1>4, <1>5, <1>6, <1>7

-----------------------------------------------------------------------------
(* Elections preserve it.                                                  *)

\* What the invariant says of one server.
LEMMA ServerFacts ==
    ASSUME IndType, NEW i \in Server
    PROVE  /\ raft[i] \in RaftType /\ raft[i].Term \in Nat
           /\ raftLog[i] \in LogType /\ LogOK(raftLog[i])
           /\ trk[i] \in [Server -> ProgressType]
           /\ votes[i] \in [Server -> Ballot]
           /\ disk[i] \in DiskType /\ appendQ[i] \in Seq(AppendItem)
           /\ pend[i] \in SUBSET Message
<1>. QED
  BY DEF IndType, TypeOK, RaftType

\* A message other than MsgProp carries a term.
LEMMA MessageTerm ==
    ASSUME NEW m \in Message
    PROVE  /\ m.from \in Server /\ m.to \in Server
           /\ m.type # "MsgProp" => m.term \in Nat
<1>. QED
  BY DEF Message, VoteMsg, VoteRespMsg, AppMsg, AppRespMsg, SnapMsg, HeartbeatMsg,
         PlainMsg, StorageMsg, PropMsg

\* MsgHup preserves the invariant.
LEMMA CampaignStep ==
    ASSUME IndType, NEW i \in Server, NEW r \in RaftType, NEW pre \in BOOLEAN,
           NEW transfer \in BOOLEAN, campaign(i, r, pre, transfer),
           UNCHANGED <<raftLog, disk, appendQ, elected>>
    PROVE  IndType'
<1>1. TypeOK
  BY DEF IndType
<1>. QED
  BY <1>1, CampaignTypes DEF IndType, TypeOK

\* MsgVote and MsgPreVote preserve the invariant.
LEMMA HandleVoteStep ==
    ASSUME IndType, NEW i \in Server, NEW m \in Message, HandleVote(i, m)
    PROVE  IndType'
<1>. DEFINE adopt == m.term > raft[i].Term /\ m.type = "MsgVote"
            r     == IF adopt THEN becomeFollower(raft[i], m.term, None) ELSE raft[i]
            grant == canVote(r, m) /\ isUpToDate(raftLog[i], m.index, m.logTerm)
            new   == IF grant /\ m.type = "MsgVote"
                     THEN [r EXCEPT !.Vote = m.from, !.timedOut = FALSE] ELSE r
            resp  == VoteResp(RespType(m.type), i, m.from,
                              IF grant THEN m.term ELSE r.Term, ~grant)
<1>1. TypeOK /\ raft[i] \in RaftType
  BY ServerFacts DEF IndType
<1>2. m.from \in Server /\ m.term \in Nat /\ m.type \in {"MsgVote", "MsgPreVote"}
  BY MessageTerm DEF HandleVote
<1>3. r \in RaftType
  BY <1>1, <1>2, RecordTypes
<1>4. Become(i, new, adopt) /\ Send(i, {}, {resp}) /\ UNCHANGED <<raftLog, disk, appendQ, elected>>
  BY DEF HandleVote
<1>. HIDE DEF r, adopt
<1>5. new \in RaftType
  BY <1>2, <1>3 DEF RaftType
<1>6. {resp} \in SUBSET Message /\ {} \in SUBSET Message
  <2>1. r.Term \in Nat /\ (IF grant THEN m.term ELSE r.Term) \in Nat /\ (~grant) \in BOOLEAN
    BY <1>2, <1>3 DEF RaftType
  <2>. HIDE DEF grant
  <2>2. resp \in Message
    BY <1>2, <2>1, MessageTypes
  <2>. QED
    BY <2>2
<1>. HIDE DEF new, resp, grant
<1>7. net' \in SUBSET Message /\ pend' \in [Server -> SUBSET Message]
  BY <1>1, <1>4, <1>6, SendType
<1>8. /\ raft'  \in [Server -> RaftType] /\ votes' \in [Server -> [Server -> Ballot]]
      /\ trk'   \in [Server -> [Server -> ProgressType]]
  BY <1>1, <1>4, <1>5, BecomeType
<1>. QED
  BY <1>4, <1>7, <1>8 DEF IndType, TypeOK

\* A vote response of our candidacy preserves the invariant.
LEMMA PollSteps ==
    ASSUME IndType, NEW i \in Server, NEW m \in Message,
           \/ PollPending(i, m) \/ PollLost(i, m)
           \/ PollPreVoteWon(i, m) \/ PollWon(i, m)
    PROVE  IndType'
<1>1. /\ TypeOK /\ raft[i] \in RaftType /\ raft[i].Term \in Nat
      /\ raftLog[i] \in LogType /\ LogOK(raftLog[i]) /\ votes[i] \in [Server -> Ballot]
  BY ServerFacts DEF IndType
<1>2. m \in VoteRespMsg
  BY MessageKinds DEF PollPending, PollLost, PollPreVoteWon, PollWon, IsPoll
<1>3. CASE PollPending(i, m)
  <2>1. Polled(i, m) \in [Server -> Ballot]
    BY <1>1, <1>2 DEF Polled, Ballot, VoteRespMsg
  <2>2. votes' \in [Server -> [Server -> Ballot]]
    BY <1>1, <1>3, <2>1 DEF PollPending, TypeOK
  <2>. QED
    BY <1>3, <2>2 DEF PollPending, IndType, TypeOK
<1>4. CASE PollLost(i, m)
  <2>1. becomeFollower(raft[i], raft[i].Term, None) \in RaftType
    BY <1>1, RecordTypes
  <2>2. /\ raft'  \in [Server -> RaftType] /\ votes' \in [Server -> [Server -> Ballot]]
        /\ trk'   \in [Server -> [Server -> ProgressType]]
    BY <1>1, <1>4, <2>1, BecomeType DEF PollLost
  <2>. QED
    BY <1>4, <2>2 DEF PollLost, IndType, TypeOK
<1>5. CASE PollPreVoteWon(i, m)
  BY <1>1, <1>5, CampaignStep DEF PollPreVoteWon
<1>6. CASE PollWon(i, m)
  <2>. DEFINE lg  == appendEntry(raftLog[i], raft[i].Term, NoData)
              out == bcastAppend(i, leaderProgress(i, raftLog[i]), lg)
              own == AppResp(i, i, raft[i].Term, lastIndex(lg))
  <2>1. lg \in LogType /\ LogOK(lg)
    BY <1>1, LogUpdates DEF LogOK
  <2>2. /\ raft' = [raft EXCEPT ![i] = becomeLeader(@, i)]
        /\ votes' = [votes EXCEPT ![i] = NoVotes]
        /\ trk' = [trk EXCEPT ![i] = ProgressOf(out)]
        /\ raftLog' = [raftLog EXCEPT ![i] = lg]
        /\ elected' = elected \cup {<<raft[i].Term, i>>}
        /\ Send(i, MsgsOf(out), {own})
        /\ UNCHANGED <<disk, appendQ>>
    BY <1>6 DEF PollWon
  <2>. HIDE DEF lg
  <2>3. MsgsOf(out) \in SUBSET Message /\ ProgressOf(out) \in [Server -> ProgressType]
    BY <1>1, <2>1, ProgressMapTypes, SendAppendsType DEF bcastAppend
  <2>4. {own} \in SUBSET Message
    <3>1. lastIndex(lg) \in Nat
      BY <2>1, LogReads
    <3>2. own \in Message
      BY <1>1, <3>1, MessageTypes
    <3>. QED
      BY <3>2
  <2>. HIDE DEF out, own
  <2>5. net' \in SUBSET Message /\ pend' \in [Server -> SUBSET Message]
    BY <1>1, <2>2, <2>3, <2>4, SendType
  <2>6. raft' \in [Server -> RaftType]
    <3>1. becomeLeader(raft[i], i) \in RaftType
      BY <1>1, RecordTypes
    <3>. QED
      BY <1>1, <2>2, <3>1 DEF TypeOK
  <2>7. votes' \in [Server -> [Server -> Ballot]] /\ trk' \in [Server -> [Server -> ProgressType]]
    BY <1>1, <2>2, <2>3, NoVotesType DEF TypeOK
  <2>8. elected' \in SUBSET (Nat \X Server)
    BY <1>1, <2>2 DEF TypeOK
  <2>9. /\ raftLog' \in [Server -> LogType]
        /\ \A j \in Server : LogOK(raftLog'[j])
    BY <2>1, <2>2, LogUpdate
  <2>. QED
    BY <2>2, <2>5, <2>6, <2>7, <2>8, <2>9 DEF IndType, TypeOK
<1>. QED
  BY <1>3, <1>4, <1>5, <1>6

\* A response of a higher term preserves the invariant.
LEMMA StepDownStep ==
    ASSUME IndType, NEW i \in Server, NEW m \in Message, StepDown(i, m)
    PROVE  IndType'
<1>1. TypeOK /\ raft[i] \in RaftType /\ m.term \in Nat
  BY ServerFacts, MessageTerm DEF IndType, StepDown
<1>2. becomeFollower(raft[i], m.term, None) \in RaftType
  BY <1>1, RecordTypes
<1>3. /\ raft'  \in [Server -> RaftType] /\ votes' \in [Server -> [Server -> Ballot]]
      /\ trk'   \in [Server -> [Server -> ProgressType]]
  BY <1>1, <1>2, BecomeType DEF StepDown
<1>. QED
  BY <1>3 DEF StepDown, IndType, TypeOK

\* A message of a lower term preserves the invariant.
LEMMA StepLowerTermStep ==
    ASSUME IndType, NEW i \in Server, NEW m \in Message, StepLowerTerm(i, m)
    PROVE  IndType'
<1>. DEFINE resp == IF m.type = "MsgPreVote"
                    THEN VoteResp("MsgPreVoteResp", i, m.from, raft[i].Term, TRUE)
                    ELSE AppResp(i, m.from, raft[i].Term, 0)
<1>1. TypeOK /\ raft[i].Term \in Nat /\ m.from \in Server
  BY ServerFacts, MessageTerm DEF IndType
<1>2. resp \in Message
  BY <1>1, MessageTypes
<1>3. Send(i, {}, {resp})
  BY DEF StepLowerTerm
<1>. HIDE DEF resp
<1>4. net' \in SUBSET Message /\ pend' \in [Server -> SUBSET Message]
  BY <1>1, <1>2, <1>3, SendType
<1>. QED
  BY <1>4 DEF StepLowerTerm, IndType, TypeOK

-----------------------------------------------------------------------------
(* So do the handlers of a follower.                                       *)

\* Following the sender of a leader's message keeps struct raft well-formed.
LEMMA FollowedType ==
    ASSUME IndType, NEW i \in Server, NEW m \in Message, m.type # "MsgProp"
    PROVE  Followed(i, m) \in RaftType
<1>1. raft[i] \in RaftType /\ m.from \in Server /\ m.term \in Nat
  BY ServerFacts, MessageTerm
<1>2. [raft[i] EXCEPT !.lead = m.from, !.timedOut = FALSE] \in RaftType
  BY <1>1 DEF RaftType
<1>. QED
  BY <1>1, <1>2, RecordTypes DEF Followed

\* handleAppendEntries preserves the invariant: entries are cut only above
\* the commit index, so never below the unstable snapshot.
LEMMA HandleAppendEntriesStep ==
    ASSUME IndType, NEW i \in Server, NEW m \in Message, HandleAppendEntries(i, m)
    PROVE  IndType'
<1>. DEFINE lg == raftLog[i]
            match == matchTerm(lg, m.index, m.logTerm)
            hint  == findConflictByTerm(lg, Least(m.index, lastIndex(lg)), m.logTerm)
            ack(k) == AppResp(i, m.from, m.term, k)
            nack   == [ack(m.index) EXCEPT !.reject = TRUE, !.rejectHint = hint,
                                           !.logTerm = KnownTerm(lg, hint)]
<1>1. TypeOK /\ LogOK(lg) /\ lg \in LogType /\ lg.committed \in Nat /\ lastIndex(lg) \in Nat
  BY ServerFacts, LogReads DEF IndType
<1>2. /\ m.from \in Server /\ m.term \in Nat /\ m.index \in Nat /\ m.logTerm \in Nat
      /\ m.entries \in Seq(Entry) /\ m.commit \in Nat /\ m.index + Len(m.entries) \in Nat
  <2>1. m \in AppMsg
    BY MessageKinds DEF HandleAppendEntries
  <2>. QED
    BY <2>1 DEF AppMsg
<1>3. /\ raft'  \in [Server -> RaftType] /\ votes' \in [Server -> [Server -> Ballot]]
      /\ trk'   \in [Server -> [Server -> ProgressType]]
  <2>1. Followed(i, m) \in RaftType
    BY FollowedType DEF HandleAppendEntries
  <2>. QED
    BY <1>1, <2>1, BecomeType DEF HandleAppendEntries
<1>4. \A k \in Nat : {ack(k)} \in SUBSET Message
  BY <1>2, MessageTypes
<1>5. {nack} \in SUBSET Message
  <2>1. Least(m.index, lastIndex(lg)) \in Nat
    BY <1>1, <1>2 DEF Least
  <2>2. hint \in Nat
    <3>1. hint \in 0..Least(m.index, lastIndex(lg))
      BY <1>1, <1>2, <2>1, FindConflictByTermType
    <3>. HIDE DEF hint
    <3>. QED
      BY <2>1, <3>1
  <2>3. KnownTerm(lg, hint) \in Nat
    BY <1>1, <2>2, LogReads
  <2>. HIDE DEF hint, lg
  <2>. QED
    BY <1>2, <2>2, <2>3, ZenonT(30) DEF AppResp, Message, AppRespMsg
<1>6. \/ Send(i, {}, {ack(lg.committed)}) /\ raftLog' = raftLog
      \/ /\ m.index >= lg.committed /\ match
         /\ raftLog' = [raftLog EXCEPT ![i] = maybeAppend(lg, m.index, m.entries, m.commit)]
         /\ Send(i, {}, {ack(m.index + Len(m.entries))})
      \/ Send(i, {}, {nack}) /\ raftLog' = raftLog
  BY DEF HandleAppendEntries
<1>. HIDE DEF ack, nack
<1>7. net' \in SUBSET Message /\ pend' \in [Server -> SUBSET Message]
  BY <1>1, <1>2, <1>4, <1>5, <1>6, SendType
<1>8. (raftLog' \in [Server -> LogType]) /\ (\A j \in Server : LogOK(raftLog'[j]))
  <2>1. CASE raftLog' = raftLog
    BY <2>1 DEF IndType, TypeOK
  <2>2. CASE /\ m.index >= lg.committed /\ match
             /\ raftLog' = [raftLog EXCEPT ![i] =
                              maybeAppend(lg, m.index, m.entries, m.commit)]
    <3>1. LogOK(maybeAppend(lg, m.index, m.entries, m.commit))
      BY <1>1, <1>2, <2>2, LogUpdates DEF matchTerm
    <3>. QED
      BY <2>2, <3>1, LogUpdate
  <2>. QED
    BY <1>6, <2>1, <2>2
<1>. QED
  BY <1>3, <1>7, <1>8 DEF HandleAppendEntries, IndType, TypeOK

\* handleHeartbeat preserves the invariant.
LEMMA HandleHeartbeatStep ==
    ASSUME IndType, NEW i \in Server, NEW m \in Message, HandleHeartbeat(i, m)
    PROVE  IndType'
<1>1. TypeOK /\ LogOK(raftLog[i]) /\ raftLog \in [Server -> LogType]
  BY ServerFacts DEF IndType, TypeOK
<1>2. m.from \in Server /\ m.term \in Nat /\ m.commit \in Nat
  <2>1. m \in HeartbeatMsg
    BY MessageKinds DEF HandleHeartbeat
  <2>. QED
    BY <2>1 DEF HeartbeatMsg
<1>3. /\ raft'  \in [Server -> RaftType] /\ votes' \in [Server -> [Server -> Ballot]]
      /\ trk'   \in [Server -> [Server -> ProgressType]]
  <2>1. Followed(i, m) \in RaftType
    BY FollowedType DEF HandleHeartbeat
  <2>. QED
    BY <1>1, <2>1, BecomeType DEF HandleHeartbeat
<1>4. net' \in SUBSET Message /\ pend' \in [Server -> SUBSET Message]
  <2>1. Plain("MsgHeartbeatResp", i, m.from, m.term) \in Message
    BY <1>2, MessageTypes
  <2>2. {Plain("MsgHeartbeatResp", i, m.from, m.term)} \in SUBSET Message /\ {} \in SUBSET Message
    BY <2>1
  <2>. QED
    BY <1>1, <2>2, SendType DEF HandleHeartbeat
<1>5. raftLog' \in [Server -> LogType] /\ \A j \in Server : LogOK(raftLog'[j])
  <2>1. LogOK(commitTo(raftLog[i], m.commit))
    BY <1>1, <1>2, LogUpdates
  <2>2. raftLog' = [raftLog EXCEPT ![i] = commitTo(raftLog[i], m.commit)]
    BY DEF HandleHeartbeat
  <2>. QED
    BY <2>1, <2>2, LogUpdate
<1>. QED
  BY <1>3, <1>4, <1>5 DEF HandleHeartbeat, IndType, TypeOK

\* handleSnapshot preserves the invariant.
LEMMA HandleSnapshotStep ==
    ASSUME IndType, NEW i \in Server, NEW m \in Message, HandleSnapshot(i, m)
    PROVE  IndType'
<1>. DEFINE lg == raftLog[i]
            index == Len(m.snapshot)
            resp(k) == {AppResp(i, m.from, m.term, k)}
<1>1. TypeOK /\ LogOK(lg) /\ lg \in LogType /\ lg.committed \in Nat
  BY ServerFacts, LogReads DEF IndType
<1>2. /\ m.from \in Server /\ m.term \in Nat
      /\ m.snapshot \in Seq(Entry) /\ index \in Nat
  <2>1. m \in SnapMsg
    BY MessageKinds DEF HandleSnapshot
  <2>. QED
    BY <2>1 DEF SnapMsg
<1>3. \A k \in Nat : resp(k) \in SUBSET Message
  BY <1>2, MessageTypes
<1>4. Followed(i, m) \in RaftType
  BY FollowedType DEF HandleSnapshot
<1>5. \E k \in Nat : Send(i, {}, resp(k))
  BY <1>1, <1>2 DEF HandleSnapshot
<1>. HIDE DEF resp
<1>6. net' \in SUBSET Message /\ pend' \in [Server -> SUBSET Message]
  BY <1>1, <1>3, <1>5, SendType
<1>7. CASE /\ Become(i, Followed(i, m), ~Follows(i, m))
           /\ UNCHANGED raftLog
           /\ UNCHANGED <<disk, appendQ, elected>>
  <2>1. /\ raft'  \in [Server -> RaftType] /\ votes' \in [Server -> [Server -> Ballot]]
        /\ trk'   \in [Server -> [Server -> ProgressType]]
    BY <1>1, <1>4, <1>7, BecomeType
  <2>. QED
    BY <1>6, <1>7, <2>1 DEF IndType, TypeOK
<1>8. CASE /\ Become(i, Followed(i, m), ~Follows(i, m))
           /\ raftLog' = [raftLog EXCEPT ![i] = commitTo(lg, index)]
           /\ UNCHANGED <<disk, appendQ, elected>>
  <2>1. /\ raft'  \in [Server -> RaftType] /\ votes' \in [Server -> [Server -> Ballot]]
        /\ trk'   \in [Server -> [Server -> ProgressType]]
    BY <1>1, <1>4, <1>8, BecomeType
  <2>2. LogOK(commitTo(lg, index))
    BY <1>1, <1>2, LogUpdates
  <2>3. raftLog' \in [Server -> LogType] /\ \A j \in Server : LogOK(raftLog'[j])
    BY <1>8, <2>2, LogUpdate
  <2>. QED
    BY <1>6, <1>8, <2>1, <2>3 DEF IndType, TypeOK
<1>9. CASE /\ index > lg.committed
           /\ raft'    = [raft EXCEPT ![i] = Followed(i, m)]
           /\ votes'   = [votes EXCEPT ![i] = NoVotes]
           /\ trk'     = [trk EXCEPT ![i] = [j \in Server |-> NewProgress(0, index, TRUE)]]
           /\ raftLog' = [raftLog EXCEPT ![i] = restoreLog(m.snapshot)]
           /\ UNCHANGED <<disk, appendQ, elected>>
  <2>1. LogOK(restoreLog(m.snapshot))
    BY <1>2 DEF restoreLog, LogOK, LogType
  <2>2. raftLog' \in [Server -> LogType] /\ \A j \in Server : LogOK(raftLog'[j])
    BY <1>9, <2>1, LogUpdate
  <2>3. NewProgress(0, index, TRUE) \in ProgressType
    <3>1. index \in Nat \ {0} /\ TRUE \in BOOLEAN /\ 0 \in Nat
      BY <1>1, <1>2, <1>9
    <3>. HIDE DEF index
    <3>. QED
      BY <3>1, NewProgressType
  <2>. HIDE DEF index
  <2>4. trk' \in [Server -> [Server -> ProgressType]]
    BY <1>1, <1>9, <2>3 DEF TypeOK
  <2>5. raft' \in [Server -> RaftType] /\ votes' \in [Server -> [Server -> Ballot]]
    BY <1>1, <1>4, <1>9, NoVotesType DEF TypeOK
  <2>. QED
    BY <1>6, <1>9, <2>2, <2>4, <2>5 DEF IndType, TypeOK
<1>. QED
  BY <1>7, <1>8, <1>9 DEF HandleSnapshot

\* MsgTimeoutNow preserves the invariant.
LEMMA HandleTimeoutNowStep ==
    ASSUME IndType, NEW i \in Server, NEW m \in Message, HandleTimeoutNow(i, m)
    PROVE  IndType'
<1>. DEFINE higher == m.term > raft[i].Term
            r == IF higher THEN becomeFollower(raft[i], m.term, None) ELSE raft[i]
<1>1. TypeOK /\ raft[i] \in RaftType /\ m.term \in Nat
  BY ServerFacts, MessageTerm DEF IndType, HandleTimeoutNow
<1>2. r \in RaftType
  BY <1>1, RecordTypes
<1>3. /\ \/ campaign(i, r, FALSE, TRUE)
         \/ Become(i, r, higher) /\ UNCHANGED <<pend, net>>
      /\ UNCHANGED <<raftLog, disk, appendQ, elected>>
  BY DEF HandleTimeoutNow
<1>. HIDE DEF r, higher
<1>4. CASE campaign(i, r, FALSE, TRUE)
  BY <1>2, <1>3, <1>4, CampaignStep
<1>5. CASE Become(i, r, higher) /\ UNCHANGED <<pend, net>>
  <2>1. /\ raft'  \in [Server -> RaftType] /\ votes' \in [Server -> [Server -> Ballot]]
        /\ trk'   \in [Server -> [Server -> ProgressType]]
    BY <1>1, <1>2, <1>5, BecomeType
  <2>. QED
    BY <1>3, <1>5, <2>1 DEF IndType, TypeOK
<1>. QED
  BY <1>3, <1>4, <1>5

-----------------------------------------------------------------------------
(* And those of a leader.                                                  *)

\* A step that only changes i's Progress map and sends messages.
LEMMA ProgressStep ==
    ASSUME IndType, NEW i \in Server, NEW prs \in [Server -> ProgressType],
           trk' = [trk EXCEPT ![i] = prs],
           NEW now \in SUBSET Message, NEW after \in SUBSET Message,
           Send(i, now, after), UNCHANGED <<raft, votes, raftLog, disk, appendQ, elected>>
    PROVE  IndType'
<1>1. TypeOK
  BY DEF IndType
<1>2. net' \in SUBSET Message /\ pend' \in [Server -> SUBSET Message]
  BY <1>1, SendType
<1>3. trk' \in [Server -> [Server -> ProgressType]]
  BY <1>1 DEF TypeOK
<1>. QED
  BY <1>2, <1>3 DEF IndType, TypeOK

\* The same for one follower, answered by maybeSendAppend.
LEMMA AnswerStep ==
    ASSUME IndType, NEW i \in Server, NEW j \in Server, NEW out \in SendResult,
           trk' = [trk EXCEPT ![i][j] = out.pr], Send(i, out.msgs, {}),
           UNCHANGED <<raft, votes, raftLog, disk, appendQ, elected>>
    PROVE  IndType'
<1>1. trk[i] \in [Server -> ProgressType] /\ trk \in [Server -> [Server -> ProgressType]]
  BY ServerFacts DEF IndType, TypeOK
<1>2. out.msgs \in SUBSET Message /\ {} \in SUBSET Message /\ out.pr \in ProgressType
  BY DEF SendResult
<1>3. [trk[i] EXCEPT ![j] = out.pr] \in [Server -> ProgressType]
  BY <1>1, <1>2
<1>4. trk' = [trk EXCEPT ![i] = [trk[i] EXCEPT ![j] = out.pr]]
  BY <1>1
<1>. QED
  BY <1>2, <1>3, <1>4, ProgressStep

\* Marking a follower active keeps its Progress well-formed.
LEMMA ActiveType ==
    ASSUME IndType, NEW i \in Server, NEW j \in Server
    PROVE  Active(i, j) \in ProgressType
<1>1. trk[i][j] \in ProgressType
  BY ServerFacts
<1>. QED
  BY <1>1 DEF Active, ProgressType

\* A rejected MsgApp preserves the invariant.
LEMMA HandleAppendRejectStep ==
    ASSUME IndType, NEW i \in Server, NEW m \in Message, HandleAppendReject(i, m)
    PROVE  IndType'
<1>. DEFINE j     == m.from
            pr    == Active(i, j)
            probe == IF m.logTerm > 0
                     THEN findConflictByTerm(raftLog[i], m.rejectHint, m.logTerm)
                     ELSE m.rejectHint
            decr  == MaybeDecrTo(pr, m.index, probe)
            back  == IF pr.State = "StateReplicate" THEN BecomeProbe(decr) ELSE decr
            out   == IF IsGenuine(pr, m.index)
                     THEN maybeSendAppend(i, j, back, raftLog[i], 1, TRUE)
                     ELSE NothingSent(pr)
<1>1. TypeOK /\ raftLog[i] \in LogType
  BY ServerFacts DEF IndType
<1>2. /\ m.from \in Server /\ m.index \in Nat /\ m.rejectHint \in Nat /\ m.logTerm \in Nat
  <2>1. m \in AppRespMsg
    BY MessageKinds DEF HandleAppendReject, IsResp
  <2>. QED
    BY <2>1 DEF AppRespMsg
<1>3. pr \in ProgressType
  BY <1>2, ActiveType
<1>4. probe \in Nat
  <2>1. findConflictByTerm(raftLog[i], m.rejectHint, m.logTerm) \in 0..m.rejectHint
    BY <1>1, <1>2, FindConflictByTermType
  <2>. QED
    BY <1>2, <2>1
<1>. HIDE DEF pr, probe
<1>5. decr \in ProgressType
  BY <1>2, <1>3, <1>4, ProgressTransitions
<1>. HIDE DEF decr
<1>6. back \in ProgressType
  BY <1>5, ProgressTransitions
<1>. HIDE DEF back
<1>7. out \in SendResult
  <2>1. maybeSendAppend(i, j, back, raftLog[i], 1, TRUE) \in SendResult
    BY <1>1, <1>2, <1>6, MaybeSendAppendType
  <2>2. NothingSent(pr) \in SendResult
    BY <1>3 DEF NothingSent, SendResult
  <2>. QED
    BY <2>1, <2>2
<1>8. /\ trk' = [trk EXCEPT ![i][j] = out.pr] /\ Send(i, out.msgs, {})
      /\ UNCHANGED <<raft, votes, raftLog, disk, appendQ, elected>>
  BY DEF HandleAppendReject, back, decr, probe, pr
<1>. HIDE DEF out
<1>. QED
  BY <1>2, <1>7, <1>8, AnswerStep

\* An acknowledged MsgApp preserves the invariant.
LEMMA HandleAppendAckStep ==
    ASSUME IndType, NEW i \in Server, NEW m \in Message, HandleAppendAck(i, m)
    PROVE  IndType'
<1>. DEFINE j     == m.from
            pr    == Active(i, j)
            prs   == [trk[i] EXCEPT ![j] = Acked(pr, m.index, raftLog[i].first)]
            lg    == maybeCommit(raftLog[i], raft[i].Term, prs)
            first == IF lg.committed > raftLog[i].committed THEN Server \ {i}
                     ELSE IF CanBumpCommit(prs[j], lg.committed) THEN {j} \ {i}
                     ELSE {}
            out   == SendAppends(i, prs, lg, first, 1, TRUE)
            more  == SendAppends(i, ProgressOf(out), lg, {j} \ {i}, MaxInflight, FALSE)
            done  == j = raft[i].leadTransferee /\ prs[j].Match = lastIndex(lg)
            now   == MsgsOf(out) \cup MsgsOf(more)
                       \cup (IF done THEN {Plain("MsgTimeoutNow", i, j, raft[i].Term)} ELSE {})
<1>1. /\ TypeOK /\ raftLog[i] \in LogType /\ LogOK(raftLog[i]) /\ raft[i].Term \in Nat
      /\ trk[i] \in [Server -> ProgressType] /\ trk \in [Server -> [Server -> ProgressType]]
  BY ServerFacts DEF IndType, TypeOK
<1>2. m.from \in Server /\ m.index \in Nat
  <2>1. m \in AppRespMsg
    BY MessageKinds DEF HandleAppendAck, IsResp
  <2>. QED
    BY <2>1 DEF AppRespMsg
<1>3. pr \in ProgressType
  BY <1>2, ActiveType
<1>4. prs \in [Server -> ProgressType]
  <2>1. raftLog[i].first \in Nat
    BY <1>1 DEF LogType
  <2>2. Acked(pr, m.index, raftLog[i].first) \in ProgressType
    BY <1>2, <1>3, <2>1, AckedType
  <2>. QED
    BY <1>1, <2>2
<1>5. \/ /\ trk' = [trk EXCEPT ![i] = ProgressOf(more)]
         /\ raftLog' = [raftLog EXCEPT ![i] = lg] /\ Send(i, now, {})
         /\ UNCHANGED <<raft, votes, disk, appendQ, elected>>
      \/ /\ trk' = [trk EXCEPT ![i][j] = pr]
         /\ UNCHANGED <<raft, votes, raftLog, disk, pend, appendQ, net, elected>>
  BY DEF HandleAppendAck
<1>. HIDE DEF prs, pr
<1>6. lg \in LogType /\ LogOK(lg)
  BY <1>1, <1>4, LogUpdates DEF LogOK
<1>. HIDE DEF lg, first, done
<1>7. MsgsOf(out) \in SUBSET Message /\ ProgressOf(out) \in [Server -> ProgressType]
  BY <1>1, <1>4, <1>6, SendAppendsType
<1>. HIDE DEF out
<1>8. MsgsOf(more) \in SUBSET Message /\ ProgressOf(more) \in [Server -> ProgressType]
  <2>1. MaxInflight \in Nat
    OBVIOUS
  <2>. QED
    BY <1>1, <1>6, <1>7, <2>1, SendAppendsType
<1>. HIDE DEF more
<1>9. now \in SUBSET Message /\ {} \in SUBSET Message
  <2>1. Plain("MsgTimeoutNow", i, j, raft[i].Term) \in Message
    BY <1>1, <1>2, MessageTypes
  <2>. QED
    BY <1>7, <1>8, <2>1
<1>. HIDE DEF now
<1>10. CASE /\ trk' = [trk EXCEPT ![i] = ProgressOf(more)]
            /\ raftLog' = [raftLog EXCEPT ![i] = lg] /\ Send(i, now, {})
            /\ UNCHANGED <<raft, votes, disk, appendQ, elected>>
  <2>1. net' \in SUBSET Message /\ pend' \in [Server -> SUBSET Message]
    BY <1>1, <1>9, <1>10, SendType
  <2>2. raftLog' \in [Server -> LogType] /\ \A k \in Server : LogOK(raftLog'[k])
    BY <1>6, <1>10, LogUpdate
  <2>3. trk' \in [Server -> [Server -> ProgressType]]
    BY <1>1, <1>8, <1>10
  <2>. QED
    BY <1>10, <2>1, <2>2, <2>3 DEF IndType, TypeOK
<1>11. CASE /\ trk' = [trk EXCEPT ![i][j] = pr]
            /\ UNCHANGED <<raft, votes, raftLog, disk, pend, appendQ, net, elected>>
  <2>1. trk' \in [Server -> [Server -> ProgressType]]
    BY <1>1, <1>2, <1>3, <1>11
  <2>. QED
    BY <1>11, <2>1 DEF IndType, TypeOK
<1>. QED
  BY <1>5, <1>10, <1>11

\* MsgHeartbeatResp preserves the invariant.
LEMMA HandleHeartbeatRespStep ==
    ASSUME IndType, NEW i \in Server, NEW m \in Message, HandleHeartbeatResp(i, m)
    PROVE  IndType'
<1>. DEFINE j   == m.from
            pr  == [Active(i, j) EXCEPT !.MsgAppFlowPaused = FALSE]
            out == IF pr.Match < lastIndex(raftLog[i]) \/ pr.State = "StateProbe"
                   THEN maybeSendAppend(i, j, pr, raftLog[i], 1, TRUE)
                   ELSE NothingSent(pr)
<1>1. TypeOK /\ raftLog[i] \in LogType /\ m.from \in Server
  BY ServerFacts, MessageTerm DEF IndType
<1>2. pr \in ProgressType
  <2>1. Active(i, j) \in ProgressType
    BY <1>1, ActiveType
  <2>. QED
    BY <2>1 DEF ProgressType
<1>3. /\ trk' = [trk EXCEPT ![i][j] = out.pr] /\ Send(i, out.msgs, {})
      /\ UNCHANGED <<raft, votes, raftLog, disk, appendQ, elected>>
  BY DEF HandleHeartbeatResp
<1>. HIDE DEF pr
<1>4. out \in SendResult
  <2>1. maybeSendAppend(i, j, pr, raftLog[i], 1, TRUE) \in SendResult
    BY <1>1, <1>2, MaybeSendAppendType
  <2>2. NothingSent(pr) \in SendResult
    BY <1>2 DEF NothingSent, SendResult
  <2>. QED
    BY <2>1, <2>2
<1>. HIDE DEF out
<1>. QED
  BY <1>1, <1>3, <1>4, AnswerStep

\* MsgBeat preserves the invariant.
LEMMA BeatStep ==
    ASSUME IndType, NEW i \in Server, Beat(i)
    PROVE  IndType'
<1>. DEFINE commit(j) == Least(trk[i][j].Match, raftLog[i].committed)
            prs == [j \in Server |-> IF j = i THEN trk[i][j]
                                     ELSE SentCommit(trk[i][j], commit(j))]
            now == {Heartbeat(i, j, raft[i].Term, commit(j)) : j \in Server \ {i}}
<1>1. /\ TypeOK /\ raftLog[i] \in LogType /\ raft[i].Term \in Nat
      /\ trk[i] \in [Server -> ProgressType] /\ trk \in [Server -> [Server -> ProgressType]]
  BY ServerFacts DEF IndType, TypeOK
<1>2. \A j \in Server : commit(j) \in Nat
  BY <1>1 DEF Least, LogType, ProgressType
<1>3. /\ trk' = [trk EXCEPT ![i] = prs] /\ Send(i, now, {})
      /\ UNCHANGED <<raft, votes, raftLog, disk, appendQ, elected>>
  BY <1>1 DEF Beat
<1>. HIDE DEF commit
<1>4. prs \in [Server -> ProgressType]
  BY <1>1, <1>2, ProgressTransitions
<1>5. now \in SUBSET Message /\ {} \in SUBSET Message
  BY <1>1, <1>2, MessageTypes
<1>. HIDE DEF prs, now
<1>. QED
  BY <1>3, <1>4, <1>5, ProgressStep

\* MsgCheckQuorum preserves the invariant.
LEMMA LeaderTimeoutStep ==
    ASSUME IndType, NEW i \in Server, LeaderTimeout(i)
    PROVE  IndType'
<1>. DEFINE idle == [j \in Server |-> IF j = i \/ ~CheckQuorum THEN trk[i][j]
                                      ELSE [trk[i][j] EXCEPT !.RecentActive = FALSE]]
<1>1. /\ TypeOK /\ raft[i] \in RaftType /\ raft[i].Term \in Nat
      /\ trk[i] \in [Server -> ProgressType]
  BY ServerFacts DEF IndType
<1>2. CASE Become(i, becomeFollower(raft[i], raft[i].Term, None), TRUE)
  <2>1. becomeFollower(raft[i], raft[i].Term, None) \in RaftType
    BY <1>1, RecordTypes
  <2>2. /\ raft'  \in [Server -> RaftType] /\ votes' \in [Server -> [Server -> Ballot]]
        /\ trk'   \in [Server -> [Server -> ProgressType]]
    BY <1>1, <1>2, <2>1, BecomeType
  <2>. QED
    BY <2>2 DEF LeaderTimeout, IndType, TypeOK
<1>3. CASE /\ raft' = [raft EXCEPT ![i].leadTransferee = None]
           /\ trk'  = [trk EXCEPT ![i] = idle] /\ UNCHANGED votes
  <2>1. \A pr \in ProgressType : [pr EXCEPT !.RecentActive = FALSE] \in ProgressType
    BY DEF ProgressType
  <2>2. idle \in [Server -> ProgressType]
    BY <1>1, <2>1
  <2>3. [raft[i] EXCEPT !.leadTransferee = None] \in RaftType
    BY <1>1 DEF RaftType
  <2>. HIDE DEF idle
  <2>4. raft' \in [Server -> RaftType] /\ trk' \in [Server -> [Server -> ProgressType]]
    BY <1>1, <1>3, <2>2, <2>3 DEF TypeOK
  <2>. QED
    BY <1>3, <2>4 DEF LeaderTimeout, IndType, TypeOK
<1>. QED
  BY <1>2, <1>3 DEF LeaderTimeout

\* A proposal preserves the invariant.
LEMMA StepPropStep ==
    ASSUME IndType, NEW i \in Server, NEW from \in Server, NEW v \in Value,
           StepProp(i, from, v)
    PROVE  IndType'
<1>. DEFINE lg  == appendEntry(raftLog[i], raft[i].Term, v)
            out == bcastAppend(i, trk[i], lg)
            own == {AppResp(i, i, raft[i].Term, lastIndex(lg))}
            fwd == {Prop(from, raft[i].lead, v)}
<1>1. /\ TypeOK /\ raft[i] \in RaftType /\ raft[i].Term \in Nat
      /\ raftLog[i] \in LogType /\ LogOK(raftLog[i]) /\ trk[i] \in [Server -> ProgressType]
  BY ServerFacts DEF IndType
<1>2. lg \in LogType /\ LogOK(lg) /\ lastIndex(lg) \in Nat
  <2>1. LogOK(lg)
    BY <1>1, LogUpdates
  <2>. QED
    BY <2>1, LogReads DEF LogOK
<1>3. \/ /\ raftLog' = [raftLog EXCEPT ![i] = lg] /\ trk' = [trk EXCEPT ![i] = ProgressOf(out)]
         /\ Send(i, MsgsOf(out), own) /\ UNCHANGED <<raft, votes, disk, appendQ, elected>>
      \/ /\ raft[i].lead # None /\ Send(i, fwd, {})
         /\ UNCHANGED <<raft, votes, trk, raftLog, disk, appendQ, elected>>
  BY DEF StepProp
<1>. HIDE DEF lg
<1>4. CASE /\ raftLog' = [raftLog EXCEPT ![i] = lg] /\ trk' = [trk EXCEPT ![i] = ProgressOf(out)]
           /\ Send(i, MsgsOf(out), own) /\ UNCHANGED <<raft, votes, disk, appendQ, elected>>
  <2>1. MsgsOf(out) \in SUBSET Message /\ ProgressOf(out) \in [Server -> ProgressType]
    BY <1>1, <1>2, SendAppendsType DEF bcastAppend
  <2>2. own \in SUBSET Message
    BY <1>1, <1>2, MessageTypes
  <2>. HIDE DEF out, own
  <2>3. net' \in SUBSET Message /\ pend' \in [Server -> SUBSET Message]
    BY <1>1, <1>4, <2>1, <2>2, SendType
  <2>4. raftLog' \in [Server -> LogType] /\ \A k \in Server : LogOK(raftLog'[k])
    BY <1>2, <1>4, LogUpdate
  <2>5. trk' \in [Server -> [Server -> ProgressType]]
    BY <1>1, <1>4, <2>1 DEF TypeOK
  <2>. QED
    BY <1>4, <2>3, <2>4, <2>5 DEF IndType, TypeOK
<1>5. CASE /\ raft[i].lead # None /\ Send(i, fwd, {})
           /\ UNCHANGED <<raft, votes, trk, raftLog, disk, appendQ, elected>>
  <2>1. raft[i].lead \in Server
    BY <1>1, <1>5 DEF RaftType
  <2>2. fwd \in SUBSET Message /\ {} \in SUBSET Message
    BY <1>1, <2>1, MessageTypes
  <2>. HIDE DEF fwd
  <2>3. net' \in SUBSET Message /\ pend' \in [Server -> SUBSET Message]
    BY <1>1, <1>5, <2>2, SendType
  <2>. QED
    BY <1>5, <2>3 DEF IndType, TypeOK
<1>. QED
  BY <1>3, <1>4, <1>5

\* MsgTransferLeader at the leader preserves the invariant.
LEMMA LeaderTransferStep ==
    ASSUME IndType, NEW i \in Server, NEW x \in Server, leaderTransfer(i, x)
    PROVE  IndType'
<1>. DEFINE out == IF trk[i][x].Match = lastIndex(raftLog[i])
                   THEN [NothingSent(trk[i][x]) EXCEPT
                           !.msgs = {Plain("MsgTimeoutNow", i, x, raft[i].Term)}]
                   ELSE maybeSendAppend(i, x, trk[i][x], raftLog[i], 1, TRUE)
<1>1. /\ TypeOK /\ raft[i] \in RaftType /\ raft[i].Term \in Nat /\ raftLog[i] \in LogType
      /\ trk[i][x] \in ProgressType
  BY ServerFacts DEF IndType
<1>2. out \in SendResult
  <2>1. maybeSendAppend(i, x, trk[i][x], raftLog[i], 1, TRUE) \in SendResult
    BY <1>1, MaybeSendAppendType
  <2>2. Plain("MsgTimeoutNow", i, x, raft[i].Term) \in Message
    BY <1>1, MessageTypes
  <2>3. [NothingSent(trk[i][x]) EXCEPT
            !.msgs = {Plain("MsgTimeoutNow", i, x, raft[i].Term)}] \in SendResult
    BY <1>1, <2>2 DEF NothingSent, SendResult
  <2>. QED
    BY <2>1, <2>3
<1>3. \/ /\ raft' = [raft EXCEPT ![i].leadTransferee = None]
         /\ UNCHANGED <<votes, trk, raftLog, disk, pend, appendQ, net, elected>>
      \/ /\ raft' = [raft EXCEPT ![i].leadTransferee = x, ![i].timedOut = FALSE]
         /\ trk'  = [trk EXCEPT ![i][x] = out.pr]
         /\ Send(i, out.msgs, {})
         /\ UNCHANGED <<votes, raftLog, disk, appendQ, elected>>
  BY DEF leaderTransfer
<1>. HIDE DEF out
<1>4. raft' \in [Server -> RaftType]
  <2>1. /\ [raft[i] EXCEPT !.leadTransferee = None] \in RaftType
        /\ [raft[i] EXCEPT !.leadTransferee = x, !.timedOut = FALSE] \in RaftType
    BY <1>1 DEF RaftType
  <2>2. \E r \in RaftType : raft' = [raft EXCEPT ![i] = r]
    BY <1>1, <1>3, <2>1, ZenonT(30) DEF TypeOK
  <2>. QED
    BY <1>1, <2>2 DEF TypeOK
<1>5. out.pr \in ProgressType /\ out.msgs \in SUBSET Message /\ {} \in SUBSET Message
  BY <1>2 DEF SendResult
<1>6. trk' \in [Server -> [Server -> ProgressType]]
  <2>1. CASE UNCHANGED trk
    BY <1>1, <2>1 DEF TypeOK
  <2>2. CASE trk' = [trk EXCEPT ![i][x] = out.pr]
    BY <1>1, <1>5, <2>2 DEF TypeOK
  <2>. QED
    BY <1>3, <2>1, <2>2
<1>7. net' \in SUBSET Message /\ pend' \in [Server -> SUBSET Message]
  <2>1. CASE UNCHANGED <<pend, net>>
    BY <1>1, <2>1 DEF TypeOK
  <2>2. CASE Send(i, out.msgs, {})
    BY <1>1, <1>5, <2>2, SendType
  <2>. QED
    BY <1>3, <2>1, <2>2
<1>. QED
  BY <1>3, <1>4, <1>6, <1>7 DEF IndType, TypeOK

\* RawNode.TransferLeader preserves the invariant.
LEMMA TransferLeaderStep ==
    ASSUME IndType, NEW i \in Server, NEW x \in Server, TransferLeader(i, x)
    PROVE  IndType'
<1>1. CASE leaderTransfer(i, x)
  BY <1>1, LeaderTransferStep
<1>2. CASE /\ raft[i].lead # None
           /\ Send(i, {Plain("MsgTransferLeader", x, raft[i].lead, raft[i].Term)}, {})
           /\ UNCHANGED <<raft, votes, trk, raftLog, disk, appendQ, elected>>
  <2>1. TypeOK /\ raft[i].Term \in Nat /\ raft[i].lead \in Server
    BY <1>2, ServerFacts DEF IndType, RaftType
  <2>2. /\ {Plain("MsgTransferLeader", x, raft[i].lead, raft[i].Term)} \in SUBSET Message
        /\ {} \in SUBSET Message
    BY <2>1, MessageTypes
  <2>3. net' \in SUBSET Message /\ pend' \in [Server -> SUBSET Message]
    BY <1>2, <2>1, <2>2, SendType
  <2>. QED
    BY <1>2, <2>3 DEF IndType, TypeOK
<1>. QED
  BY <1>1, <1>2 DEF TransferLeader

\* MsgUnreachable and MsgSnapStatus preserve the invariant.
LEMMA ReportSteps ==
    ASSUME IndType, NEW i \in Server, NEW j \in Server,
           \/ ReportUnreachable(i, j)
           \/ \E failed \in BOOLEAN : ReportSnapshot(i, j, failed)
    PROVE  IndType'
<1>1. trk[i][j] \in ProgressType /\ TypeOK
  BY ServerFacts DEF IndType
<1>2. [trk[i][j] EXCEPT !.PendingSnapshot = 0] \in ProgressType
  BY <1>1 DEF ProgressType
<1>3. \A pr \in ProgressType : /\ BecomeProbe(pr) \in ProgressType
                               /\ [BecomeProbe(pr) EXCEPT !.MsgAppFlowPaused = TRUE] \in ProgressType
  <2>. TAKE pr \in ProgressType
  <2>1. BecomeProbe(pr) \in ProgressType
    BY ProgressTransitions
  <2>. QED
    BY <2>1 DEF ProgressType
<1>4. \E pr \in ProgressType : trk' = [trk EXCEPT ![i][j] = pr]
  BY <1>1, <1>2, <1>3 DEF ReportUnreachable, ReportSnapshot, TypeOK
<1>5. trk' \in [Server -> [Server -> ProgressType]]
  BY <1>1, <1>4 DEF TypeOK
<1>. QED
  BY <1>5 DEF ReportUnreachable, ReportSnapshot, IndType, TypeOK

\* The follower's timer and ForgetLeader preserve the invariant.
LEMMA TimerSteps ==
    ASSUME IndType, NEW i \in Server, Tick(i) \/ ForgetLeader(i)
    PROVE  IndType'
<1>1. TypeOK /\ raft[i] \in RaftType
  BY ServerFacts DEF IndType
<1>2. /\ [raft[i] EXCEPT !.timedOut = TRUE] \in RaftType
      /\ [raft[i] EXCEPT !.lead = None] \in RaftType
  BY <1>1 DEF RaftType
<1>3. \E r \in RaftType : raft' = [raft EXCEPT ![i] = r]
  BY <1>1, <1>2 DEF Tick, ForgetLeader, TypeOK
<1>4. raft' \in [Server -> RaftType]
  BY <1>1, <1>3 DEF TypeOK
<1>. QED
  BY <1>4 DEF Tick, ForgetLeader, IndType, TypeOK

-----------------------------------------------------------------------------
(* Storage.                                                                *)

\* A MsgStorageAppend is well-formed: its snapshot is a prefix of the log.
LEMMA StorageAppendType ==
    ASSUME IndType, NEW i \in Server
    PROVE  StorageAppend(i) \in AppendItem
<1>. DEFINE snap == nextUnstableSnapshot(i)
            more == IF snap = << >> THEN {}
                    ELSE {StorageAppendResp(i, raft[i].Term, Len(snap))}
<1>1. /\ raft[i] \in RaftType /\ raft[i].Term \in Nat /\ raft[i].Vote \in Server \cup {None}
      /\ LogOK(raftLog[i]) /\ raftLog[i] \in LogType /\ pend[i] \in SUBSET Message
  BY ServerFacts DEF RaftType
<1>2. raftLog[i].ents \in Seq(Entry) /\ raftLog[i].committed \in Nat /\ raftLog[i].snap \in Nat
  BY <1>1, LogReads
<1>3. snap \in Seq(Entry)
  <2>1. SubSeq(raftLog[i].ents, 1, raftLog[i].snap) \in Seq(Entry)
    BY <1>1, <1>2, SubSeqProperties DEF LogOK
  <2>2. << >> \in Seq(Entry)
    OBVIOUS
  <2>. QED
    BY <2>1, <2>2 DEF nextUnstableSnapshot
<1>. HIDE DEF snap
<1>4. more \in SUBSET Message
  <2>1. Len(snap) \in Nat
    BY <1>3
  <2>2. StorageAppendResp(i, raft[i].Term, Len(snap)) \in Message
    BY <1>1, <2>1, MessageTypes
  <2>. QED
    BY <2>2
<1>5. StorageAppend(i) =
        [Term |-> raft[i].Term, Vote |-> raft[i].Vote,
         committed |-> raftLog[i].committed, ents |-> raftLog[i].ents,
         snapshot |-> snap, resps |-> pend[i] \cup more]
  BY DEF StorageAppend, snap
<1>. HIDE DEF more
<1>6. pend[i] \cup more \in SUBSET Message
  BY <1>1, <1>4
<1>. QED
  BY <1>1, <1>2, <1>3, <1>5, <1>6 DEF AppendItem

\* Ready preserves the invariant.
LEMMA ReadyStep ==
    ASSUME IndType, NEW i \in Server, Ready(i)
    PROVE  IndType'
<1>1. TypeOK /\ StorageAppend(i) \in AppendItem /\ appendQ[i] \in Seq(AppendItem)
  BY StorageAppendType, ServerFacts DEF IndType
<1>2. Append(appendQ[i], StorageAppend(i)) \in Seq(AppendItem)
  BY <1>1
<1>3. appendQ' = [appendQ EXCEPT ![i] = Append(appendQ[i], StorageAppend(i))]
  BY DEF Ready
<1>4. appendQ' \in [Server -> Seq(AppendItem)]
  BY <1>1, <1>2, <1>3 DEF TypeOK
<1>5. pend' \in [Server -> SUBSET Message]
  <2>1. {} \in SUBSET Message
    OBVIOUS
  <2>. QED
    BY <1>1, <2>1 DEF Ready, TypeOK
<1>. QED
  BY <1>4, <1>5 DEF Ready, IndType, TypeOK

\* A write of the append thread preserves the invariant.
LEMMA ProcessAppendStep ==
    ASSUME IndType, NEW i \in Server, ProcessAppend(i)
    PROVE  IndType'
<1>1. TypeOK /\ disk[i] \in DiskType /\ appendQ[i] \in Seq(AppendItem) /\ appendQ[i] # << >>
  BY ServerFacts DEF IndType, ProcessAppend
<1>2. appendQ[i][1] \in AppendItem /\ Tail(appendQ[i]) \in Seq(AppendItem)
  BY <1>1
<1>3. Saved(disk[i], appendQ[i][1]) \in DiskType
  <2>1. \A m \in AppendItem : Len(m.snapshot) + 1 \in Nat \ {0}
    BY DEF AppendItem
  <2>. QED
    BY <1>1, <1>2, <2>1 DEF Saved, AppendItem, DiskType
<1>4. /\ disk' = [disk EXCEPT ![i] = Saved(disk[i], appendQ[i][1])]
      /\ appendQ' = [appendQ EXCEPT ![i] = Tail(appendQ[i])]
  BY DEF ProcessAppend
<1>5. disk' \in [Server -> DiskType] /\ appendQ' \in [Server -> Seq(AppendItem)]
  BY <1>1, <1>2, <1>3, <1>4 DEF TypeOK
<1>6. net' \in SUBSET Message
  BY <1>1, <1>2 DEF ProcessAppend, AppendItem, TypeOK
<1>. QED
  BY <1>5, <1>6 DEF ProcessAppend, IndType, TypeOK

\* appliedSnap preserves the invariant.
LEMMA HandleStorageAppendRespStep ==
    ASSUME IndType, NEW i \in Server, NEW m, HandleStorageAppendResp(i, m)
    PROVE  IndType'
<1>1. LogOK(raftLog[i]) /\ disk[i].first \in Nat \ {0} /\ raftLog \in [Server -> LogType]
  BY ServerFacts DEF DiskType, IndType, TypeOK
<1>2. LogOK([raftLog[i] EXCEPT !.snap = 0, !.first = disk[i].first])
  <2>1. /\ raftLog[i] \in LogType /\ raftLog[i].ents \in Seq(Entry)
        /\ raftLog[i].committed \in Nat
    BY <1>1, LogReads
  <2>2. Len(raftLog[i].ents) \in Nat
    BY <2>1
  <2>3. [raftLog[i] EXCEPT !.snap = 0, !.first = disk[i].first] \in LogType
    BY <1>1, <2>1 DEF LogType
  <2>. QED
    BY <2>1, <2>2, <2>3 DEF LogOK, LogType
<1>3. raftLog' = [raftLog EXCEPT ![i] =
                    [raftLog[i] EXCEPT !.snap = 0, !.first = disk[i].first]]
  BY <1>1 DEF HandleStorageAppendResp
<1>4. raftLog' \in [Server -> LogType] /\ \A k \in Server : LogOK(raftLog'[k])
  BY <1>2, <1>3, LogUpdate
<1>. QED
  BY <1>4 DEF HandleStorageAppendResp, IndType, TypeOK

\* Storage.CreateSnapshot preserves the invariant.
LEMMA CreateSnapshotStep ==
    ASSUME IndType, NEW i \in Server, NEW k \in Nat, CreateSnapshot(i, k)
    PROVE  IndType'
<1>1. TypeOK /\ disk[i] \in DiskType /\ disk[i].ents \in Seq(Entry) /\ k <= Len(disk[i].ents)
  BY ServerFacts DEF IndType, DiskType, CreateSnapshot
<1>2. SubSeq(disk[i].ents, 1, k) \in Seq(Entry)
  BY <1>1, SubSeqProperties
<1>3. [disk[i] EXCEPT !.snapshot = SubSeq(disk[i].ents, 1, k)] \in DiskType
  BY <1>1, <1>2 DEF DiskType
<1>4. disk' = [disk EXCEPT ![i] = [disk[i] EXCEPT !.snapshot = SubSeq(disk[i].ents, 1, k)]]
  BY DEF CreateSnapshot
<1>5. disk' \in [Server -> DiskType]
  BY <1>1, <1>3, <1>4 DEF TypeOK
<1>. QED
  BY <1>5 DEF CreateSnapshot, IndType, TypeOK

\* Storage.Compact preserves the invariant.
LEMMA CompactStep ==
    ASSUME IndType, NEW i \in Server, NEW k \in Nat, Compact(i, k)
    PROVE  IndType'
<1>. DEFINE lg == [raftLog[i] EXCEPT !.first = IF raftLog[i].snap = 0 THEN k + 1 ELSE @]
<1>1. TypeOK /\ disk[i] \in DiskType /\ LogOK(raftLog[i]) /\ raftLog[i] \in LogType
  BY ServerFacts DEF IndType
<1>2. k + 1 \in Nat \ {0}
  OBVIOUS
<1>3. disk' \in [Server -> DiskType]
  <2>1. [disk[i] EXCEPT !.first = k + 1] \in DiskType
    BY <1>1, <1>2 DEF DiskType
  <2>2. disk' = [disk EXCEPT ![i] = [disk[i] EXCEPT !.first = k + 1]]
    BY DEF Compact
  <2>. QED
    BY <1>1, <2>1, <2>2 DEF TypeOK
<1>4. LogOK(lg)
  BY <1>1, <1>2 DEF LogOK, LogType
<1>5. raftLog' = [raftLog EXCEPT ![i] = lg]
  BY DEF Compact
<1>. HIDE DEF lg
<1>6. raftLog' \in [Server -> LogType] /\ \A j \in Server : LogOK(raftLog'[j])
  BY <1>4, <1>5, LogUpdate
<1>. QED
  BY <1>3, <1>6 DEF Compact, IndType, TypeOK

\* A restart on what Storage holds preserves the invariant.
LEMMA RestartStep ==
    ASSUME IndType, NEW i \in Server, Restart(i)
    PROVE  IndType'
<1>. DEFINE d  == disk[i]
            lg == [ents |-> d.ents, first |-> d.first, committed |-> d.committed,
                   snap |-> 0]
            r  == [Term |-> d.Term, Vote |-> d.Vote, state |-> "StateFollower",
                   lead |-> None, leadTransferee |-> None, timedOut |-> FALSE]
<1>1. TypeOK /\ d \in DiskType
  BY ServerFacts DEF IndType
<1>2. r \in RaftType
  BY <1>1 DEF DiskType, RaftType, StateType
<1>3. lg \in LogType /\ LogOK(lg)
  BY <1>1 DEF DiskType, LogType, LogOK
<1>4. /\ raft' = [raft EXCEPT ![i] = r] /\ votes' = [votes EXCEPT ![i] = NoVotes]
      /\ trk' = [trk EXCEPT ![i] = resetProgress(i, lg)]
      /\ raftLog' = [raftLog EXCEPT ![i] = lg]
      /\ pend' = [pend EXCEPT ![i] = {}] /\ appendQ' = [appendQ EXCEPT ![i] = << >>]
      /\ UNCHANGED <<disk, net, elected>>
  BY DEF Restart
<1>. HIDE DEF r, lg, d
<1>5. raftLog' \in [Server -> LogType] /\ \A j \in Server : LogOK(raftLog'[j])
  BY <1>3, <1>4, LogUpdate
<1>6. raft' \in [Server -> RaftType]
  BY <1>1, <1>2, <1>4 DEF TypeOK
<1>7. votes' \in [Server -> [Server -> Ballot]]
  BY <1>1, <1>4, NoVotesType DEF TypeOK
<1>8. trk' \in [Server -> [Server -> ProgressType]]
  <2>1. resetProgress(i, lg) \in [Server -> ProgressType]
    BY <1>3, ProgressMapTypes
  <2>. QED
    BY <1>1, <1>4, <2>1 DEF TypeOK
<1>9. pend' \in [Server -> SUBSET Message] /\ appendQ' \in [Server -> Seq(AppendItem)]
  <2>1. {} \in SUBSET Message /\ << >> \in Seq(AppendItem)
    OBVIOUS
  <2>. QED
    BY <1>1, <1>4, <2>1 DEF TypeOK
<1>. QED
  BY <1>4, <1>5, <1>6, <1>7, <1>8, <1>9 DEF IndType, TypeOK

-----------------------------------------------------------------------------
(* The theorem.                                                            *)

\* The invariant holds in a cluster that starts.
LEMMA TypeInit == Init => IndType
<1>. SUFFICES ASSUME Init PROVE IndType
  OBVIOUS
<1>1. EmptyLog \in LogType /\ LogOK(EmptyLog)
  BY DEF EmptyLog, LogType, LogOK
<1>2. raft \in [Server -> RaftType]
  BY DEF Init, RaftType, StateType
<1>3. votes \in [Server -> [Server -> Ballot]]
  BY NoVotesType DEF Init
<1>4. trk \in [Server -> [Server -> ProgressType]]
  <2>1. \A i \in Server : resetProgress(i, EmptyLog) \in [Server -> ProgressType]
    BY <1>1, ProgressMapTypes
  <2>. QED
    BY <2>1 DEF Init
<1>5. raftLog \in [Server -> LogType] /\ \A i \in Server : LogOK(raftLog[i])
  BY <1>1 DEF Init
<1>6. disk \in [Server -> DiskType]
  BY DEF Init, DiskType
<1>7. /\ pend \in [Server -> SUBSET Message] /\ appendQ \in [Server -> Seq(AppendItem)]
      /\ net \in SUBSET Message /\ elected \in SUBSET (Nat \X Server)
  BY DEF Init
<1>. QED
  BY <1>2, <1>3, <1>4, <1>5, <1>6, <1>7 DEF IndType, TypeOK

\* Every message preserves the invariant.
LEMMA TypeReceive ==
    ASSUME IndType, NEW i \in Server, NEW m \in net, Receive(i, m)
    PROVE  IndType'
<1>1. m \in Message
  BY DEF IndType, TypeOK
<1>2. CASE HandleVote(i, m)
  BY <1>1, <1>2, HandleVoteStep
<1>3. CASE PollPending(i, m) \/ PollLost(i, m) \/ PollPreVoteWon(i, m) \/ PollWon(i, m)
  BY <1>1, <1>3, PollSteps
<1>4. CASE StepDown(i, m)
  BY <1>1, <1>4, StepDownStep
<1>5. CASE StepLowerTerm(i, m)
  BY <1>1, <1>5, StepLowerTermStep
<1>6. CASE HandleAppendEntries(i, m)
  BY <1>1, <1>6, HandleAppendEntriesStep
<1>7. CASE HandleHeartbeat(i, m)
  BY <1>1, <1>7, HandleHeartbeatStep
<1>8. CASE HandleSnapshot(i, m)
  BY <1>1, <1>8, HandleSnapshotStep
<1>9. CASE HandleTimeoutNow(i, m)
  BY <1>1, <1>9, HandleTimeoutNowStep
<1>10. CASE HandleAppendReject(i, m)
  BY <1>1, <1>10, HandleAppendRejectStep
<1>11. CASE HandleAppendAck(i, m)
  BY <1>1, <1>11, HandleAppendAckStep
<1>12. CASE HandleHeartbeatResp(i, m)
  BY <1>1, <1>12, HandleHeartbeatRespStep
<1>13. CASE HandleProp(i, m)
  <2>1. m.from \in Server /\ m.data \in Value
    <3>1. m \in PropMsg
      BY <1>1, <1>13, MessageKinds DEF HandleProp
    <3>. QED
      BY <3>1 DEF PropMsg
  <2>. QED
    BY <1>13, <2>1, StepPropStep DEF HandleProp
<1>14. CASE HandleTransferLeader(i, m)
  <2>1. m.from \in Server
    BY <1>1, MessageTerm
  <2>. QED
    BY <1>14, <2>1, LeaderTransferStep DEF HandleTransferLeader
<1>15. CASE HandleStorageAppendResp(i, m)
  BY <1>15, HandleStorageAppendRespStep
<1>. QED
  BY <1>2, <1>3, <1>4, <1>5, <1>6, <1>7, <1>8, <1>9, <1>10, <1>11, <1>12, <1>13,
     <1>14, <1>15 DEF Receive

\* Every call of RawNode and every timer preserves the invariant.
LEMMA TypeLocal ==
    ASSUME IndType, NEW i \in Server, Local(i)
    PROVE  IndType'
<1>1. CASE Campaign(i)
  <2>1. raft[i] \in RaftType
    BY ServerFacts
  <2>. QED
    BY <1>1, <2>1, CampaignStep DEF Campaign
<1>2. CASE Tick(i) \/ ForgetLeader(i)
  BY <1>2, TimerSteps
<1>3. CASE Beat(i)
  BY <1>3, BeatStep
<1>4. CASE LeaderTimeout(i)
  BY <1>4, LeaderTimeoutStep
<1>5. CASE \E v \in Value : Propose(i, v)
  BY <1>5, StepPropStep DEF Propose
<1>6. CASE \E j \in Server : TransferLeader(i, j)
  BY <1>6, TransferLeaderStep
<1>7. CASE \E j \in Server : \/ ReportUnreachable(i, j)
                             \/ \E failed \in BOOLEAN : ReportSnapshot(i, j, failed)
  BY <1>7, ReportSteps
<1>. QED
  BY <1>1, <1>2, <1>3, <1>4, <1>5, <1>6, <1>7 DEF Local

\* Every step of the storage, and a crash, preserves the invariant.
LEMMA TypeDurability ==
    ASSUME IndType, NEW i \in Server, Durability(i)
    PROVE  IndType'
<1>1. \A k \in 1..disk[i].committed : k \in Nat
  OBVIOUS
<1>2. CASE Ready(i)
  BY <1>2, ReadyStep
<1>3. CASE ProcessAppend(i)
  BY <1>3, ProcessAppendStep
<1>4. CASE Restart(i)
  BY <1>4, RestartStep
<1>5. CASE \E k \in 1..disk[i].committed : CreateSnapshot(i, k)
  BY <1>1, <1>5, CreateSnapshotStep
<1>6. CASE \E k \in 1..disk[i].committed : Compact(i, k)
  BY <1>1, <1>6, CompactStep
<1>. QED
  BY <1>2, <1>3, <1>4, <1>5, <1>6 DEF Durability

\* Every step preserves the invariant.
LEMMA TypeNext == IndType /\ [Next]_vars => IndType'
<1>. SUFFICES ASSUME IndType, [Next]_vars PROVE IndType'
  OBVIOUS
<1>1. CASE UNCHANGED vars
  BY <1>1 DEF vars, IndType, TypeOK
<1>2. CASE Next
  BY <1>2, TypeLocal, TypeDurability, TypeReceive DEF Next
<1>. QED
  BY <1>1, <1>2

(***************************************************************************)
(* Every state a cluster reaches is well typed, for any set of servers and *)
(* any options, and an unstable snapshot never lies beyond the commit      *)
(* index or the log it belongs to (IndType).                               *)
(***************************************************************************)
THEOREM TypeInductive == Spec => []IndType
<1>. QED
  BY TypeInit, TypeNext, PTL DEF Spec

\* In every reachable state every field of struct raft, of Storage and of
\* every message has its type; in particular Next-1 and the terms Step looks
\* up in the log are never out of range.
THEOREM TypeCorrect == Spec => []TypeOK
<1>1. IndType => TypeOK
  BY DEF IndType
<1>. QED
  BY <1>1, TypeInductive, PTL

-----------------------------------------------------------------------------
(* Election safety.                                                        *)

Grant(m) == m.type = "MsgVoteResp" /\ ~m.reject

\* From r to s, two records with a Term and a Vote, no vote is taken back.
VoteForward(r, s) ==
    \/ r.Term < s.Term
    \/ r.Term = s.Term /\ (r.Vote = None \/ r.Vote = s.Vote)

\* Record r stands by the grant m, or has left its term.
Backs(r, m) == r.Term > m.term \/ (r.Term = m.term /\ r.Vote = m.to)

\* The servers whose vote for candidate x in term t is out.
Granters(t, x) ==
    {j \in Server : \E m \in net : /\ Grant(m) /\ m.from = j /\ m.to = x
                                   /\ m.term = t}

\* The way from the disk through the append queue to raft.
QueueForward ==
    \A i \in Server :
        /\ VoteForward(disk[i], raft[i])
        /\ \A k \in 1..Len(appendQ[i]) :
            /\ VoteForward(disk[i], appendQ[i][k])
            /\ VoteForward(appendQ[i][k], raft[i])
            /\ \A l \in 1..k : VoteForward(appendQ[i][l], appendQ[i][k])

\* Each grant is backed by the record whose write lets it out.
GrantsBacked ==
    /\ \A i \in Server : \A m \in pend[i] :
        Grant(m) => m.from = i /\ Backs(raft[i], m)
    /\ \A i \in Server : \A k \in 1..Len(appendQ[i]) : \A m \in appendQ[i][k].resps :
        Grant(m) => m.from = i /\ Backs(appendQ[i][k], m)
    /\ \A m \in net : Grant(m) => Backs(disk[m.from], m)

\* What server i has granted, whether it is out or not.
Granted(i) ==
    {m \in net \cup pend[i] \cup UNION {appendQ[i][k].resps : k \in 1..Len(appendQ[i])} :
        Grant(m) /\ m.from = i}

OneGrantPerTerm ==
    \A i \in Server : \A m, n \in Granted(i) : m.term = n.term => m.to = n.to

CountedGrants ==
    \A i, j \in Server : raft[i].state = "StateCandidate" /\ votes[i][j] = "granted"
        => j \in Granters(raft[i].Term, i)

ElectedByQuorum ==
    \A e \in elected : IsJointQuorum(Config, Granters(e[1], e[2]))

ElectionInv ==
    QueueForward /\ GrantsBacked /\ OneGrantPerTerm /\ CountedGrants /\ ElectedByQuorum

-----------------------------------------------------------------------------
(* Votes and quorums.                                                      *)

\* A set that contains a majority is one.
LEMMA MajorityGrows ==
    ASSUME NEW c, IsFiniteSet(c), NEW Q, NEW R, Q \subseteq R, IsMajority(c, Q)
    PROVE  IsMajority(c, R)
<1>1. IsFiniteSet(c \cap R) /\ c \cap Q \subseteq c \cap R
  BY FS_Intersection
<1>2. /\ Cardinality(c \cap Q) <= Cardinality(c \cap R) /\ Cardinality(c) \in Nat
      /\ Cardinality(c \cap Q) \in Nat /\ Cardinality(c \cap R) \in Nat
  BY <1>1, FS_Subset, FS_CardinalityType
<1>. QED
  BY <1>2 DEF IsMajority

\* A set that contains a joint quorum is one.
LEMMA QuorumGrows ==
    ASSUME NEW Q, NEW R, Q \subseteq R, IsJointQuorum(Config, Q)
    PROVE  IsJointQuorum(Config, R)
<1>1. IsFiniteSet(Incoming) /\ IsFiniteSet(Outgoing)
  BY FS_Subset
<1>. QED
  BY <1>1, MajorityGrows DEF IsJointQuorum, Config

\* No vote is taken back over several steps, and a grant stays backed.
LEMMA VoteForwardTransitive ==
    ASSUME NEW r, NEW s, NEW t, r.Term \in Nat, s.Term \in Nat, t.Term \in Nat,
           VoteForward(r, s), VoteForward(s, t)
    PROVE  VoteForward(r, t)
<1>. QED
  BY DEF VoteForward

\* A grant that some durable vote backs stays backed when votes move forward.
LEMMA BackedForward ==
    ASSUME NEW r, NEW s, NEW m, r.Term \in Nat, s.Term \in Nat, m.term \in Nat,
           m.to \in Server, VoteForward(r, s), Backs(r, m)
    PROVE  Backs(s, m)
<1>1. m.to # None
  OBVIOUS
<1>. QED
  BY <1>1 DEF VoteForward, Backs

\* The fields of a grant.
LEMMA GrantFacts ==
    ASSUME NEW m \in Message, Grant(m)
    PROVE  m.from \in Server /\ m.to \in Server /\ m.term \in Nat
<1>. QED
  BY MessageTerm DEF Grant

\* The terms the invariant compares are naturals.
LEMMA TermFacts ==
    ASSUME IndType, NEW i \in Server
    PROVE  /\ raft[i].Term \in Nat /\ disk[i].Term \in Nat
           /\ \A k \in 1..Len(appendQ[i]) :
                appendQ[i][k].Term \in Nat /\ appendQ[i][k].resps \subseteq Message
           /\ pend[i] \subseteq Message /\ net \subseteq Message
<1>1. /\ raft[i].Term \in Nat /\ disk[i] \in DiskType /\ appendQ[i] \in Seq(AppendItem)
      /\ pend[i] \subseteq Message /\ net \subseteq Message
  BY ServerFacts DEF IndType, TypeOK
<1>2. \A k \in 1..Len(appendQ[i]) : appendQ[i][k] \in AppendItem
  BY <1>1
<1>. QED
  BY <1>1, <1>2 DEF DiskType, AppendItem

\* Wherever a grant of server i is, raft[i] backs it.
LEMMA GrantedBacked ==
    ASSUME IndType, QueueForward, GrantsBacked, NEW i \in Server, NEW m \in Granted(i)
    PROVE  /\ m \in Message /\ Grant(m) /\ m.from = i
           /\ m.to \in Server /\ m.term \in Nat /\ Backs(raft[i], m)
<1>1. m \in Message /\ Grant(m) /\ m.from = i
  BY TermFacts DEF Granted
<1>2. m.to \in Server /\ m.term \in Nat
  BY <1>1, GrantFacts
<1>3. CASE m \in net
  BY <1>1, <1>2, <1>3, TermFacts, BackedForward DEF GrantsBacked, QueueForward
<1>4. CASE m \in pend[i]
  BY <1>1, <1>2, <1>4 DEF GrantsBacked
<1>5. CASE \E k \in 1..Len(appendQ[i]) : m \in appendQ[i][k].resps
  <2>1. PICK k \in 1..Len(appendQ[i]) : m \in appendQ[i][k].resps
    BY <1>5
  <2>2. Backs(appendQ[i][k], m) /\ VoteForward(appendQ[i][k], raft[i])
    BY <1>1, <2>1 DEF GrantsBacked, QueueForward
  <2>. QED
    BY <1>1, <1>2, <2>2, TermFacts, BackedForward
<1>. QED
  BY <1>1, <1>2, <1>3, <1>4, <1>5 DEF Granted

-----------------------------------------------------------------------------
(***************************************************************************)
(* All steps of raft.Step: the vote moves forward, a new grant is queued   *)
(* only for the vote now held, a candidate counts only grants that are     *)
(* out, and whoever wins has a quorum of them.                             *)
(***************************************************************************)
LEMMA StepKeepsInv ==
    ASSUME IndType, IndType', ElectionInv,
           \A j \in Server : VoteForward(raft[j], raft'[j]),
           \A j \in Server : disk'[j].Term = disk[j].Term /\ disk'[j].Vote = disk[j].Vote,
           appendQ' = appendQ, net \subseteq net',
           \A m \in net' : Grant(m) => m \in net,
           \A j \in Server : \A m \in pend'[j] : Grant(m) =>
                \/ m \in pend[j]
                \/ m.from = j /\ m.term = raft'[j].Term /\ m.to = raft'[j].Vote,
           \A j, k \in Server :
                raft'[j].state = "StateCandidate" /\ votes'[j][k] = "granted" =>
                    k \in Granters(raft'[j].Term, j),
           \A e \in elected' : e \in elected \/ IsJointQuorum(Config, Granters(e[1], e[2]))
    PROVE  ElectionInv'
<1>. USE DEF ElectionInv
<1>1. \A t, x : Granters(t, x) \subseteq Granters(t, x)'
  BY DEF Granters
<1>2. QueueForward'
  <2>. SUFFICES ASSUME NEW i \in Server
                PROVE  /\ VoteForward(disk'[i], raft'[i])
                       /\ \A k \in 1..Len(appendQ[i]) :
                            /\ VoteForward(disk'[i], appendQ[i][k])
                            /\ VoteForward(appendQ[i][k], raft'[i])
                            /\ \A l \in 1..k : VoteForward(appendQ[i][l], appendQ[i][k])
    BY DEF QueueForward
  <2>1. raft[i].Term \in Nat /\ raft'[i].Term \in Nat
    BY ServerFacts, IndType' DEF IndType, TypeOK, RaftType
  <2>2. VoteForward(disk'[i], raft'[i])
    <3>1. VoteForward(disk[i], raft'[i])
      BY <2>1, TermFacts, VoteForwardTransitive DEF QueueForward
    <3>. QED
      BY <3>1 DEF VoteForward
  <2>3. ASSUME NEW k \in 1..Len(appendQ[i])
        PROVE  /\ VoteForward(disk'[i], appendQ[i][k])
               /\ VoteForward(appendQ[i][k], raft'[i])
               /\ \A l \in 1..k : VoteForward(appendQ[i][l], appendQ[i][k])
    <3>1. /\ VoteForward(disk[i], appendQ[i][k]) /\ VoteForward(appendQ[i][k], raft[i])
          /\ \A l \in 1..k : VoteForward(appendQ[i][l], appendQ[i][k])
      BY DEF QueueForward
    <3>2. VoteForward(appendQ[i][k], raft'[i])
      BY <2>1, <3>1, TermFacts, VoteForwardTransitive
    <3>3. VoteForward(disk'[i], appendQ[i][k])
      BY <3>1 DEF VoteForward
    <3>. QED
      BY <3>1, <3>2, <3>3
  <2>. QED
    BY <2>2, <2>3
<1>3. GrantsBacked'
  <2>1. ASSUME NEW i \in Server, NEW m \in pend'[i], Grant(m)
        PROVE  m.from = i /\ Backs(raft'[i], m)
    <3>1. CASE m \in pend[i]
      <4>1. m.from = i /\ Backs(raft[i], m) /\ m.to \in Server /\ m.term \in Nat
        BY <2>1, <3>1, TermFacts, GrantFacts DEF GrantsBacked
      <4>2. raft[i].Term \in Nat /\ raft'[i].Term \in Nat
        BY ServerFacts, IndType' DEF IndType, TypeOK, RaftType
      <4>. QED
        BY <4>1, <4>2, BackedForward
    <3>2. CASE m.from = i /\ m.term = raft'[i].Term /\ m.to = raft'[i].Vote
      BY <3>2 DEF Backs
    <3>. QED
      BY <2>1, <3>1, <3>2
  <2>2. \A m \in net' : Grant(m) => Backs(disk'[m.from], m)
    <3>. SUFFICES ASSUME NEW m \in net', Grant(m) PROVE Backs(disk'[m.from], m)
      OBVIOUS
    <3>1. m \in net /\ m \in Message
      BY TermFacts DEF IndType, TypeOK
    <3>2. m.from \in Server /\ Backs(disk[m.from], m)
      BY <3>1, GrantFacts DEF GrantsBacked
    <3>. QED
      BY <3>2 DEF Backs
  <2>. QED
    BY <2>1, <2>2 DEF GrantsBacked
<1>4. OneGrantPerTerm'
  <2>. DEFINE New(i, m) == m.from = i /\ m.term = raft'[i].Term /\ m.to = raft'[i].Vote
  <2>1. \A i \in Server : \A m \in Granted(i)' : m \in Granted(i) \/ New(i, m)
    BY DEF Granted
  <2>2. ASSUME NEW i \in Server, NEW m \in Granted(i), NEW n, New(i, n), m.term = n.term
        PROVE  m.to = n.to
    <3>1. m.to \in Server /\ m.term \in Nat /\ Backs(raft[i], m)
      BY GrantedBacked
    <3>2. raft[i].Term \in Nat /\ raft'[i].Term \in Nat
      BY ServerFacts, IndType' DEF IndType, TypeOK, RaftType
    <3>3. Backs(raft'[i], m)
      BY <3>1, <3>2, BackedForward
    <3>. QED
      BY <2>2, <3>1, <3>2, <3>3 DEF Backs
  <2>3. ASSUME NEW i \in Server, NEW m \in Granted(i)', NEW n \in Granted(i)', m.term = n.term
        PROVE  m.to = n.to
    <3>1. CASE m \in Granted(i) /\ n \in Granted(i)
      BY <2>3, <3>1 DEF OneGrantPerTerm
    <3>2. CASE m \in Granted(i) /\ New(i, n)
      BY <2>2, <2>3, <3>2
    <3>3. CASE New(i, m) /\ n \in Granted(i)
      <4>1. n \in Granted(i) /\ New(i, m) /\ n.term = m.term
        BY <2>3, <3>3
      <4>. HIDE DEF New
      <4>2. n.to = m.to
        BY <2>2, <4>1
      <4>. QED
        BY <4>2
    <3>4. CASE New(i, m) /\ New(i, n)
      BY <3>4
    <3>. QED
      BY <2>1, <3>1, <3>2, <3>3, <3>4
  <2>. QED
    BY <2>3 DEF OneGrantPerTerm
<1>5. CountedGrants'
  BY <1>1 DEF CountedGrants
<1>6. ElectedByQuorum'
  <2>. SUFFICES ASSUME NEW e \in elected' PROVE IsJointQuorum(Config, Granters(e[1], e[2])')
    BY DEF ElectedByQuorum
  <2>1. IsJointQuorum(Config, Granters(e[1], e[2]))
    BY DEF ElectedByQuorum
  <2>. QED
    BY <1>1, <2>1, QuorumGrows
<1>. QED
  BY <1>2, <1>3, <1>4, <1>5, <1>6

-----------------------------------------------------------------------------
(* Steps that grant nothing.                                               *)

NoNewGrant ==
    /\ net \subseteq net' /\ \A m \in net' : Grant(m) => m \in net
    /\ \A j \in Server : \A m \in pend'[j] : Grant(m) => m \in pend[j]

\* A step that sends no grant, counts none, elects nobody and moves votes
\* only forward preserves the invariant.
LEMMA QuietStep ==
    ASSUME IndType, IndType', ElectionInv, NoNewGrant,
           \A j \in Server :
                /\ VoteForward(raft[j], raft'[j])
                /\ \/ raft'[j].state # "StateCandidate"
                   \/ /\ raft'[j].Term = raft[j].Term /\ raft'[j].state = raft[j].state
                      /\ votes'[j] = votes[j],
           \A j \in Server : disk'[j].Term = disk[j].Term /\ disk'[j].Vote = disk[j].Vote,
           appendQ' = appendQ, elected' = elected
    PROVE  ElectionInv'
<1>1. \A j, k \in Server :
        raft'[j].state = "StateCandidate" /\ votes'[j][k] = "granted" =>
            k \in Granters(raft'[j].Term, j)
  BY DEF ElectionInv, CountedGrants
<1>. QED
  BY <1>1, StepKeepsInv DEF NoNewGrant

\* Steps that leave the record and the ballots of every server alone.
LEMMA IdleStep ==
    ASSUME IndType, IndType', ElectionInv, NoNewGrant, raft' = raft, votes' = votes,
           \A j \in Server : disk'[j].Term = disk[j].Term /\ disk'[j].Vote = disk[j].Vote,
           appendQ' = appendQ, elected' = elected
    PROVE  ElectionInv'
<1>1. \A j \in Server : VoteForward(raft[j], raft'[j])
  BY DEF VoteForward
<1>. QED
  BY <1>1, QuietStep

\* Steps after which server i is not a candidate.
LEMMA FollowStep ==
    ASSUME IndType, IndType', ElectionInv, NoNewGrant, NEW i \in Server, NEW r,
           raft' = [raft EXCEPT ![i] = r], VoteForward(raft[i], r),
           r.state # "StateCandidate",
           \A j \in Server \ {i} : votes'[j] = votes[j],
           UNCHANGED <<disk, appendQ, elected>>
    PROVE  ElectionInv'
<1>1. raft \in [Server -> RaftType]
  BY DEF IndType, TypeOK
<1>2. \A j \in Server : raft'[j] = IF j = i THEN r ELSE raft[j]
  BY <1>1
<1>3. \A j \in Server : VoteForward(raft[j], raft[j])
  BY DEF VoteForward
<1>. QED
  BY <1>2, <1>3, QuietStep

\* becomeFollower at our term or above moves the vote forward.
LEMMA BecomeForward ==
    ASSUME NEW r \in RaftType, NEW term \in Nat, term >= r.Term, NEW lead, NEW i
    PROVE  /\ VoteForward(r, becomeFollower(r, term, lead))
           /\ becomeFollower(r, term, lead).state = "StateFollower"
           /\ becomeFollower(r, term, lead).Term = term
           /\ VoteForward(r, becomePreCandidate(r))
           /\ becomePreCandidate(r).state = "StatePreCandidate"
           /\ VoteForward(r, becomeCandidate(r, i))
           /\ becomeCandidate(r, i).Term = r.Term + 1 /\ becomeCandidate(r, i).Vote = i
           /\ VoteForward(r, becomeLeader(r, i))
           /\ becomeLeader(r, i).state = "StateLeader"
<1>. QED
  BY DEF VoteForward, becomeFollower, becomePreCandidate, becomeCandidate, becomeLeader,
         reset, RaftType

\* Sending no grant, and what Send does with the ones in `after`.
LEMMA SendGrants ==
    ASSUME TypeOK, NEW i \in Server, NEW now, NEW after, Send(i, now, after),
           \A m \in now : ~Grant(m)
    PROVE  /\ net \subseteq net' /\ \A m \in net' : Grant(m) => m \in net
           /\ \A j \in Server : \A m \in pend'[j] :
                Grant(m) => m \in pend[j] \/ (j = i /\ m \in after)
           /\ (\A m \in after : ~Grant(m)) => NoNewGrant
<1>1. /\ net \subseteq net' /\ \A m \in net' : Grant(m) => m \in net
  BY DEF Send
<1>2. \A j \in Server : \A m \in pend'[j] :
        Grant(m) => m \in pend[j] \/ (j = i /\ m \in after)
  BY DEF Send, TypeOK
<1>. QED
  BY <1>1, <1>2 DEF NoNewGrant

\* Messages that are no grants add no grants to the network.
LEMMA QuietNet ==
    ASSUME UNCHANGED <<pend, net>>
    PROVE  NoNewGrant
<1>. QED
  BY DEF NoNewGrant

\* No round of MsgApp and MsgSnap contains a grant.
LEMMA SendAppendsNoGrant ==
    ASSUME NEW i, NEW lg, NEW atMost, NEW sendIfEmpty
    PROVE  /\ \A to, pr : \A m \in maybeSendAppend(i, to, pr, lg, atMost, sendIfEmpty).msgs :
                ~Grant(m)
           /\ \A prs, targets :
                \A m \in MsgsOf(SendAppends(i, prs, lg, targets, atMost, sendIfEmpty)) :
                    ~Grant(m)
<1>1. ASSUME NEW to, NEW pr,
             NEW m \in maybeSendAppend(i, to, pr, lg, atMost, sendIfEmpty).msgs
      PROVE  ~Grant(m)
  <2>1. m.type \in {"MsgApp", "MsgSnap"}
    BY <1>1 DEF maybeSendAppend, maybeSendSnapshot, NothingSent
  <2>. QED
    BY <2>1 DEF Grant
<1>2. ASSUME NEW prs, NEW targets,
             NEW m \in MsgsOf(SendAppends(i, prs, lg, targets, atMost, sendIfEmpty))
      PROVE  ~Grant(m)
  <2>1. PICK j \in Server :
          m \in SendAppends(i, prs, lg, targets, atMost, sendIfEmpty)[j].msgs
    BY <1>2 DEF MsgsOf
  <2>2. \/ m \in maybeSendAppend(i, j, prs[j], lg, atMost, sendIfEmpty).msgs
        \/ m \in NothingSent(prs[j]).msgs
    BY <2>1 DEF SendAppends
  <2>. QED
    BY <1>1, <2>2 DEF NothingSent
<1>. QED
  BY <1>1, <1>2

-----------------------------------------------------------------------------
(* The actions. Each lemma takes the types of both states for granted.     *)

\* The leader's handlers of responses and MsgBeat preserve the invariant.
LEMMA LeaderSteps ==
    ASSUME IndType, IndType', ElectionInv, NEW i \in Server, NEW m \in Message,
           \/ HandleAppendReject(i, m) \/ HandleAppendAck(i, m)
           \/ HandleHeartbeatResp(i, m) \/ Beat(i)
    PROVE  ElectionInv'
<1>1. TypeOK
  BY DEF IndType
<1>2. \A pr : \A n \in NothingSent(pr).msgs : ~Grant(n)
  BY DEF NothingSent
<1>3. CASE HandleAppendReject(i, m)
  <2>1. PICK out : /\ \A n \in out.msgs : ~Grant(n)
                   /\ Send(i, out.msgs, {})
    BY <1>2, <1>3, SendAppendsNoGrant DEF HandleAppendReject
  <2>2. NoNewGrant
    BY <1>1, <2>1, SendGrants
  <2>. QED
    BY <1>3, <2>2, IdleStep DEF HandleAppendReject
<1>4. CASE HandleAppendAck(i, m)
  <2>1. CASE UNCHANGED <<pend, net>>
    BY <1>4, <2>1, QuietNet, IdleStep DEF HandleAppendAck
  <2>2. CASE \E now : (\A n \in now : ~Grant(n)) /\ Send(i, now, {})
    <3>1. NoNewGrant
      BY <1>1, <2>2, SendGrants
    <3>. QED
      BY <1>4, <3>1, IdleStep DEF HandleAppendAck
  <2>. DEFINE j     == m.from
              prs   == [trk[i] EXCEPT ![j] = Acked(Active(i, j), m.index, raftLog[i].first)]
              lg    == maybeCommit(raftLog[i], raft[i].Term, prs)
              first == IF lg.committed > raftLog[i].committed THEN Server \ {i}
                       ELSE IF CanBumpCommit(prs[j], lg.committed) THEN {j} \ {i}
                       ELSE {}
              out   == SendAppends(i, prs, lg, first, 1, TRUE)
              more  == SendAppends(i, ProgressOf(out), lg, {j} \ {i}, MaxInflight, FALSE)
              done  == j = raft[i].leadTransferee /\ prs[j].Match = lastIndex(lg)
              now   == MsgsOf(out) \cup MsgsOf(more)
                         \cup (IF done THEN {Plain("MsgTimeoutNow", i, j, raft[i].Term)} ELSE {})
  <2>3. Send(i, now, {}) \/ UNCHANGED <<pend, net>>
    BY <1>4 DEF HandleAppendAck
  <2>4. /\ \A n \in MsgsOf(out) : ~Grant(n)
        /\ \A n \in MsgsOf(more) : ~Grant(n)
    <3>. HIDE DEF prs, lg, first
    <3>. QED
      BY SendAppendsNoGrant
  <2>5. ~Grant(Plain("MsgTimeoutNow", i, j, raft[i].Term))
    BY DEF Grant, Plain
  <2>. HIDE DEF out, more, done
  <2>6. \A n \in now : ~Grant(n)
    BY <2>4, <2>5
  <2>. QED
    BY <2>1, <2>2, <2>3, <2>6
<1>5. CASE HandleHeartbeatResp(i, m)
  <2>1. PICK out : /\ \A n \in out.msgs : ~Grant(n)
                   /\ Send(i, out.msgs, {})
    BY <1>2, <1>5, SendAppendsNoGrant DEF HandleHeartbeatResp
  <2>2. NoNewGrant
    BY <1>1, <2>1, SendGrants
  <2>. QED
    BY <1>5, <2>2, IdleStep DEF HandleHeartbeatResp
<1>6. CASE Beat(i)
  <2>1. \A j, t, k : ~Grant(Heartbeat(i, j, t, k))
    BY DEF Grant, Heartbeat
  <2>2. PICK now : (\A n \in now : ~Grant(n)) /\ Send(i, now, {})
    BY <1>6, <2>1 DEF Beat
  <2>3. NoNewGrant
    BY <1>1, <2>2, SendGrants
  <2>. QED
    BY <1>6, <2>3, IdleStep DEF Beat
<1>. QED
  BY <1>3, <1>4, <1>5, <1>6

\* A proposal preserves the invariant.
LEMMA ProposalSteps ==
    ASSUME IndType, IndType', ElectionInv, NEW i \in Server, NEW from, NEW v,
           StepProp(i, from, v)
    PROVE  ElectionInv'
<1>1. TypeOK
  BY DEF IndType
<1>2. /\ \A t, k : ~Grant(AppResp(i, i, t, k))
      /\ \A to : ~Grant(Prop(from, to, v))
  BY DEF Grant, AppResp, Prop
<1>. DEFINE lg  == appendEntry(raftLog[i], raft[i].Term, v)
            out == bcastAppend(i, trk[i], lg)
<1>3. \/ Send(i, MsgsOf(out), {AppResp(i, i, raft[i].Term, lastIndex(lg))})
      \/ Send(i, {Prop(from, raft[i].lead, v)}, {})
  BY DEF StepProp
<1>4. NoNewGrant
  <2>1. \A n \in MsgsOf(out) : ~Grant(n)
    BY SendAppendsNoGrant DEF bcastAppend
  <2>. HIDE DEF out, lg
  <2>2. CASE Send(i, MsgsOf(out), {AppResp(i, i, raft[i].Term, lastIndex(lg))})
    BY <1>1, <1>2, <2>1, <2>2, SendGrants
  <2>3. CASE Send(i, {Prop(from, raft[i].lead, v)}, {})
    BY <1>1, <1>2, <2>3, SendGrants
  <2>. QED
    BY <1>3, <2>2, <2>3
<1>. QED
  BY <1>4, IdleStep DEF StepProp

\* A leadership transfer at the leader preserves the invariant.
LEMMA TransferSteps ==
    ASSUME IndType, IndType', ElectionInv, NEW i \in Server, NEW x, TransferLeader(i, x)
    PROVE  ElectionInv'
<1>1. TypeOK /\ raft[i] \in RaftType
  BY ServerFacts DEF IndType
<1>2. \A from, to, t : /\ ~Grant(Plain("MsgTimeoutNow", from, to, t))
                       /\ ~Grant(Plain("MsgTransferLeader", from, to, t))
  BY DEF Grant, Plain
<1>3. CASE leaderTransfer(i, x)
  <2>1. NoNewGrant
    <3>1. CASE UNCHANGED <<pend, net>>
      BY <3>1, QuietNet
    <3>2. CASE \E now : (\A n \in now : ~Grant(n)) /\ Send(i, now, {})
      BY <1>1, <3>2, SendGrants
    <3>. DEFINE out == IF trk[i][x].Match = lastIndex(raftLog[i])
                       THEN [NothingSent(trk[i][x]) EXCEPT
                               !.msgs = {Plain("MsgTimeoutNow", i, x, raft[i].Term)}]
                       ELSE maybeSendAppend(i, x, trk[i][x], raftLog[i], 1, TRUE)
    <3>3. Send(i, out.msgs, {}) \/ UNCHANGED <<pend, net>>
      BY <1>3 DEF leaderTransfer
    <3>4. \A n \in out.msgs : ~Grant(n)
      <4>1. \A n \in maybeSendAppend(i, x, trk[i][x], raftLog[i], 1, TRUE).msgs : ~Grant(n)
        BY SendAppendsNoGrant
      <4>2. [NothingSent(trk[i][x]) EXCEPT
               !.msgs = {Plain("MsgTimeoutNow", i, x, raft[i].Term)}].msgs
               = {Plain("MsgTimeoutNow", i, x, raft[i].Term)}
        BY DEF NothingSent
      <4>3. CASE trk[i][x].Match = lastIndex(raftLog[i])
        BY <1>2, <4>2, <4>3
      <4>4. CASE trk[i][x].Match # lastIndex(raftLog[i])
        BY <4>1, <4>4
      <4>. QED
        BY <4>3, <4>4
    <3>. HIDE DEF out
    <3>. QED
      BY <3>1, <3>2, <3>3, <3>4
  <2>2. \E r : /\ raft' = [raft EXCEPT ![i] = r] /\ VoteForward(raft[i], r)
               /\ r.state # "StateCandidate"
    <3>1. \A y : LET r == [raft[i] EXCEPT !.leadTransferee = y]
                     s == [raft[i] EXCEPT !.leadTransferee = y, !.timedOut = FALSE]
                 IN  /\ VoteForward(raft[i], r) /\ r.state = raft[i].state
                     /\ VoteForward(raft[i], s) /\ s.state = raft[i].state
      BY <1>1 DEF VoteForward, RaftType
    <3>2. \E y : \/ raft' = [raft EXCEPT ![i] = [raft[i] EXCEPT !.leadTransferee = y]]
                 \/ raft' = [raft EXCEPT ![i] = [raft[i] EXCEPT !.leadTransferee = y,
                                                                !.timedOut = FALSE]]
      BY <1>1, <1>3, ZenonT(30) DEF leaderTransfer, TypeOK
    <3>. QED
      BY <1>3, <3>1, <3>2, ZenonT(30) DEF leaderTransfer, Leads
  <2>. QED
    BY <1>3, <2>1, <2>2, FollowStep DEF leaderTransfer
<1>4. CASE /\ Send(i, {Plain("MsgTransferLeader", x, raft[i].lead, raft[i].Term)}, {})
           /\ UNCHANGED <<raft, votes, trk, raftLog, disk, appendQ, elected>>
  <2>1. NoNewGrant
    BY <1>1, <1>2, <1>4, SendGrants
  <2>. QED
    BY <1>4, <2>1, IdleStep
<1>. QED
  BY <1>3, <1>4 DEF TransferLeader

\* Timers and ForgetLeader preserve the invariant.
LEMMA TimerKeepsInv ==
    ASSUME IndType, IndType', ElectionInv, NEW i \in Server,
           \/ Tick(i) \/ ForgetLeader(i) \/ LeaderTimeout(i)
    PROVE  ElectionInv'
<1>1. raft[i] \in RaftType /\ raft[i].Term \in Nat /\ raft \in [Server -> RaftType]
  BY ServerFacts DEF IndType, TypeOK
<1>2. NoNewGrant
  BY QuietNet DEF Tick, ForgetLeader, LeaderTimeout
<1>3. \E r : /\ raft' = [raft EXCEPT ![i] = r] /\ VoteForward(raft[i], r)
             /\ r.state # "StateCandidate"
  <2>1. \A y : /\ VoteForward(raft[i], [raft[i] EXCEPT !.timedOut = y])
               /\ VoteForward(raft[i], [raft[i] EXCEPT !.lead = y])
               /\ VoteForward(raft[i], [raft[i] EXCEPT !.leadTransferee = y])
               /\ [raft[i] EXCEPT !.timedOut = y].state = raft[i].state
               /\ [raft[i] EXCEPT !.lead = y].state = raft[i].state
               /\ [raft[i] EXCEPT !.leadTransferee = y].state = raft[i].state
    BY <1>1 DEF VoteForward, RaftType
  <2>2. /\ VoteForward(raft[i], becomeFollower(raft[i], raft[i].Term, None))
        /\ becomeFollower(raft[i], raft[i].Term, None).state = "StateFollower"
    BY <1>1 DEF VoteForward, becomeFollower, reset, RaftType
  <2>3. CASE Tick(i)
    <3>1. raft' = [raft EXCEPT ![i] = [raft[i] EXCEPT !.timedOut = TRUE]]
      BY <2>3 DEF Tick
    <3>2. raft[i].state = "StateFollower"
      BY <2>3 DEF Tick
    <3>3. /\ VoteForward(raft[i], [raft[i] EXCEPT !.timedOut = TRUE])
          /\ [raft[i] EXCEPT !.timedOut = TRUE].state # "StateCandidate"
      BY <2>1, <3>2
    <3>. QED
      BY <3>1, <3>3
  <2>4. CASE ForgetLeader(i)
    <3>1. raft' = [raft EXCEPT ![i] = [raft[i] EXCEPT !.lead = None]]
      BY <2>4 DEF ForgetLeader
    <3>2. raft[i].state = "StateFollower"
      BY <2>4 DEF ForgetLeader
    <3>3. /\ VoteForward(raft[i], [raft[i] EXCEPT !.lead = None])
          /\ [raft[i] EXCEPT !.lead = None].state # "StateCandidate"
      BY <2>1, <3>2
    <3>. QED
      BY <3>1, <3>3
  <2>5. CASE LeaderTimeout(i)
    <3>1. \/ raft' = [raft EXCEPT ![i] = becomeFollower(raft[i], raft[i].Term, None)]
          \/ raft' = [raft EXCEPT ![i] = [raft[i] EXCEPT !.leadTransferee = None]]
      BY <2>5 DEF LeaderTimeout, Become
    <3>2. raft[i].state = "StateLeader"
      BY <2>5 DEF LeaderTimeout, Leads
    <3>3. CASE raft' = [raft EXCEPT ![i] = becomeFollower(raft[i], raft[i].Term, None)]
      BY <2>2, <3>3
    <3>4. CASE raft' = [raft EXCEPT ![i] = [raft[i] EXCEPT !.leadTransferee = None]]
      BY <2>1, <3>2, <3>4
    <3>. QED
      BY <3>1, <3>3, <3>4
  <2>. QED
    BY <2>3, <2>4, <2>5
<1>4. \A j \in Server \ {i} : votes'[j] = votes[j]
  BY DEF Tick, ForgetLeader, LeaderTimeout, Become, IndType, TypeOK
<1>. QED
  BY <1>2, <1>3, <1>4, FollowStep DEF Tick, ForgetLeader, LeaderTimeout

\* The application's reports preserve the invariant.
LEMMA ReportKeepsInv ==
    ASSUME IndType, IndType', ElectionInv, NEW i \in Server, NEW j \in Server,
           \/ ReportUnreachable(i, j)
           \/ \E failed \in BOOLEAN : ReportSnapshot(i, j, failed)
    PROVE  ElectionInv'
<1>1. NoNewGrant
  BY QuietNet DEF ReportUnreachable, ReportSnapshot
<1>. QED
  BY <1>1, IdleStep DEF ReportUnreachable, ReportSnapshot

\* Messages of a higher or lower term preserve the invariant.
LEMMA StepTermKeepsInv ==
    ASSUME IndType, IndType', ElectionInv, NEW i \in Server, NEW m \in Message,
           StepDown(i, m) \/ StepLowerTerm(i, m)
    PROVE  ElectionInv'
<1>1. TypeOK /\ raft[i] \in RaftType /\ raft[i].Term \in Nat
  BY ServerFacts DEF IndType
<1>2. CASE StepDown(i, m)
  <2>1. m.term \in Nat /\ m.term >= raft[i].Term
    BY <1>1, <1>2, MessageTerm DEF StepDown
  <2>2. /\ VoteForward(raft[i], becomeFollower(raft[i], m.term, None))
        /\ becomeFollower(raft[i], m.term, None).state = "StateFollower"
    BY <1>1, <2>1, BecomeForward
  <2>3. NoNewGrant
    BY <1>2, QuietNet DEF StepDown
  <2>4. \A j \in Server \ {i} : votes'[j] = votes[j]
    BY <1>1, <1>2 DEF StepDown, Become, TypeOK
  <2>. QED
    BY <1>2, <2>2, <2>3, <2>4, FollowStep DEF StepDown, Become
<1>3. CASE StepLowerTerm(i, m)
  <2>1. \A to, t, k : /\ ~Grant(VoteResp("MsgPreVoteResp", i, to, t, TRUE))
                      /\ ~Grant(AppResp(i, to, t, k))
    BY DEF Grant, VoteResp, AppResp
  <2>. DEFINE resp == IF m.type = "MsgPreVote"
                      THEN VoteResp("MsgPreVoteResp", i, m.from, raft[i].Term, TRUE)
                      ELSE AppResp(i, m.from, raft[i].Term, 0)
  <2>2. Send(i, {}, {resp}) /\ ~Grant(resp)
    BY <1>3, <2>1 DEF StepLowerTerm
  <2>. HIDE DEF resp
  <2>3. NoNewGrant
    BY <1>1, <2>2, SendGrants
  <2>. QED
    BY <1>3, <2>3, IdleStep DEF StepLowerTerm
<1>. QED
  BY <1>2, <1>3

\* Messages of a leader: Term and Vote change only if the term is higher.
LEMMA FollowedForward ==
    ASSUME IndType, NEW i \in Server, NEW m \in Message, FromLeader(i, m),
           m.type # "MsgProp"
    PROVE  VoteForward(raft[i], Followed(i, m)) /\ Followed(i, m).state = "StateFollower"
<1>1. raft[i] \in RaftType /\ m.term \in Nat /\ m.term >= raft[i].Term
  BY ServerFacts, MessageTerm DEF FromLeader
<1>2. CASE Follows(i, m)
  BY <1>1, <1>2 DEF Followed, Follows, VoteForward, RaftType
<1>3. CASE ~Follows(i, m)
  BY <1>1, <1>3, BecomeForward DEF Followed
<1>. QED
  BY <1>2, <1>3

\* The messages of a leader preserve the invariant at a follower.
LEMMA FollowerSteps ==
    ASSUME IndType, IndType', ElectionInv, NEW i \in Server, NEW m \in Message,
           \/ HandleAppendEntries(i, m) \/ HandleHeartbeat(i, m) \/ HandleSnapshot(i, m)
    PROVE  ElectionInv'
<1>1. TypeOK
  BY DEF IndType
<1>2. /\ raft' = [raft EXCEPT ![i] = Followed(i, m)]
      /\ UNCHANGED <<disk, appendQ, elected>>
  BY DEF HandleAppendEntries, HandleHeartbeat, HandleSnapshot, Become
<1>3. \A j \in Server \ {i} : votes'[j] = votes[j]
  BY <1>1 DEF HandleAppendEntries, HandleHeartbeat, HandleSnapshot, Become, TypeOK
<1>4. VoteForward(raft[i], Followed(i, m)) /\ Followed(i, m).state = "StateFollower"
  BY FollowedForward DEF HandleAppendEntries, HandleHeartbeat, HandleSnapshot
<1>5. \A k : /\ ~Grant(AppResp(i, m.from, m.term, k))
             /\ ~Grant(Plain("MsgHeartbeatResp", i, m.from, m.term))
             /\ \A h, t : ~Grant([AppResp(i, m.from, m.term, k) EXCEPT
                                    !.reject = TRUE, !.rejectHint = h, !.logTerm = t])
  BY DEF Grant, AppResp, Plain
<1>6. CASE \E after : (\A n \in after : ~Grant(n)) /\ Send(i, {}, after)
  <2>1. NoNewGrant
    BY <1>1, <1>6, SendGrants
  <2>. QED
    BY <1>2, <1>3, <1>4, <2>1, FollowStep
<1>7. CASE HandleAppendEntries(i, m)
  <2>1. \E resp : ~Grant(resp) /\ Send(i, {}, {resp})
    BY <1>5, <1>7 DEF HandleAppendEntries
  <2>. QED
    BY <1>6, <2>1
<1>8. CASE HandleHeartbeat(i, m)
  <2>1. PICK resp : ~Grant(resp) /\ Send(i, {resp}, {})
    BY <1>5, <1>8 DEF HandleHeartbeat
  <2>2. NoNewGrant
    BY <1>1, <2>1, SendGrants
  <2>. QED
    BY <1>2, <1>3, <1>4, <2>2, FollowStep
<1>9. CASE HandleSnapshot(i, m)
  <2>1. \E resp : ~Grant(resp) /\ Send(i, {}, {resp})
    BY <1>5, <1>9 DEF HandleSnapshot
  <2>. QED
    BY <1>6, <2>1
<1>. QED
  BY <1>7, <1>8, <1>9

-----------------------------------------------------------------------------
(* Votes.                                                                  *)

\* A campaign votes for itself in a new term, or only asks for pre-votes.
LEMMA CampaignKeepsInv ==
    ASSUME IndType, IndType', ElectionInv, NEW i \in Server, NEW r \in RaftType,
           VoteForward(raft[i], r), NEW pre \in BOOLEAN, NEW transfer \in BOOLEAN,
           campaign(i, r, pre, transfer), UNCHANGED <<disk, appendQ, elected>>
    PROVE  ElectionInv'
<1>. DEFINE c    == IF pre THEN becomePreCandidate(r) ELSE becomeCandidate(r, i)
            type == IF pre THEN "MsgPreVote" ELSE "MsgVote"
            own  == VoteResp(RespType(type), i, i, r.Term + 1, FALSE)
            asks == {Vote(type, i, j, r.Term + 1, raftLog[i], transfer) : j \in Voters \ {i}}
<1>1. /\ TypeOK /\ raft[i] \in RaftType /\ raft \in [Server -> RaftType]
      /\ raft[i].Term \in Nat /\ r.Term \in Nat
  BY ServerFacts DEF IndType, TypeOK, RaftType
<1>2. /\ raft' = [raft EXCEPT ![i] = c] /\ votes' = [votes EXCEPT ![i] = NoVotes]
      /\ Send(i, asks, {own})
  BY DEF campaign
<1>3. \A m \in asks : ~Grant(m)
  BY DEF Grant, Vote
<1>4. VoteForward(raft[i], c)
  <2>1. VoteForward(r, c) /\ c.Term \in Nat
    <3>1. VoteForward(r, becomePreCandidate(r)) /\ VoteForward(r, becomeCandidate(r, i))
      BY <1>1 DEF VoteForward, becomePreCandidate, becomeCandidate, reset, RaftType
    <3>2. c \in RaftType
      BY RecordTypes
    <3>. QED
      BY <3>1, <3>2 DEF RaftType
  <2>. HIDE DEF c
  <2>. QED
    BY <1>1, <2>1, VoteForwardTransitive
<1>5. Grant(own) => own.from = i /\ own.term = c.Term /\ own.to = c.Vote
  BY <1>1 DEF Grant, VoteResp, RespType, becomeCandidate, reset, RaftType
<1>. HIDE DEF c, asks, own
<1>6. /\ net \subseteq net' /\ \A m \in net' : Grant(m) => m \in net
      /\ \A j \in Server : \A m \in pend'[j] : Grant(m) => m \in pend[j] \/ (j = i /\ m = own)
  BY <1>1, <1>2, <1>3, SendGrants
<1>7. /\ \A j \in Server : raft'[j] = IF j = i THEN c ELSE raft[j]
      /\ \A j \in Server : votes'[j] = IF j = i THEN NoVotes ELSE votes[j]
  BY <1>1, <1>2 DEF TypeOK
<1>8. \A j \in Server : VoteForward(raft[j], raft'[j])
  BY <1>4, <1>7 DEF VoteForward
<1>9. \A j \in Server : \A m \in pend'[j] : Grant(m) =>
        m \in pend[j] \/ (m.from = j /\ m.term = raft'[j].Term /\ m.to = raft'[j].Vote)
  BY <1>5, <1>6, <1>7
<1>10. \A j, k \in Server :
         raft'[j].state = "StateCandidate" /\ votes'[j][k] = "granted" =>
            k \in Granters(raft'[j].Term, j)
  BY <1>7 DEF NoVotes, ElectionInv, CountedGrants
<1>. QED
  BY <1>6, <1>8, <1>9, <1>10, StepKeepsInv

\* MsgVote preserves the invariant: a grant is promised only together with
\* the vote that it speaks of, and that vote is the only one of the term.
LEMMA VoteKeepsInv ==
    ASSUME IndType, IndType', ElectionInv, NEW i \in Server, NEW m \in Message,
           HandleVote(i, m)
    PROVE  ElectionInv'
<1>. DEFINE adopt == m.term > raft[i].Term /\ m.type = "MsgVote"
            r     == IF adopt THEN becomeFollower(raft[i], m.term, None) ELSE raft[i]
            grant == canVote(r, m) /\ isUpToDate(raftLog[i], m.index, m.logTerm)
            new   == IF grant /\ m.type = "MsgVote"
                     THEN [r EXCEPT !.Vote = m.from, !.timedOut = FALSE] ELSE r
            resp  == VoteResp(RespType(m.type), i, m.from,
                              IF grant THEN m.term ELSE r.Term, ~grant)
<1>1. /\ TypeOK /\ raft[i] \in RaftType /\ raft \in [Server -> RaftType]
      /\ raft[i].Term \in Nat /\ votes \in [Server -> [Server -> Ballot]]
  BY ServerFacts DEF IndType, TypeOK
<1>2. /\ m.from \in Server /\ m.term \in Nat /\ m.term >= raft[i].Term
      /\ m.type \in {"MsgVote", "MsgPreVote"}
  BY MessageTerm DEF HandleVote
<1>3. Become(i, new, adopt) /\ Send(i, {}, {resp}) /\ UNCHANGED <<raftLog, disk, appendQ, elected>>
  BY DEF HandleVote
<1>4. /\ r \in RaftType /\ VoteForward(raft[i], r)
      /\ m.type = "MsgVote" => r.Term = m.term
      /\ ~adopt => r = raft[i]
      /\ adopt => r.state = "StateFollower"
  <2>1. CASE adopt
    <3>1. /\ VoteForward(raft[i], becomeFollower(raft[i], m.term, None))
          /\ becomeFollower(raft[i], m.term, None).state = "StateFollower"
          /\ becomeFollower(raft[i], m.term, None).Term = m.term
      <4>1. raft[i] \in RaftType /\ m.term \in Nat /\ m.term >= raft[i].Term
        BY <1>1, <1>2
      <4>. QED
        BY <4>1, BecomeForward
    <3>2. becomeFollower(raft[i], m.term, None) \in RaftType
      BY <1>1, <1>2, RecordTypes
    <3>3. r = becomeFollower(raft[i], m.term, None)
      BY <2>1
    <3>. HIDE DEF r, adopt
    <3>. QED
      BY <2>1, <3>1, <3>2, <3>3
  <2>2. CASE ~adopt
    <3>1. VoteForward(raft[i], raft[i])
      BY DEF VoteForward
    <3>2. r = raft[i]
      BY <2>2
    <3>3. m.type = "MsgVote" => raft[i].Term = m.term
      BY <1>1, <1>2, <2>2
    <3>. HIDE DEF r, adopt
    <3>. QED
      BY <1>1, <2>2, <3>1, <3>2, <3>3
  <2>. QED
    BY <2>1, <2>2
<1>5. grant /\ m.type = "MsgVote" => r.Vote \in {None, m.from}
  BY DEF canVote
<1>. HIDE DEF r, adopt, grant
<1>6. /\ new \in RaftType /\ new.Term = r.Term /\ new.state = r.state
      /\ VoteForward(r, new)
  BY <1>2, <1>4, <1>5 DEF RaftType, VoteForward
<1>7. VoteForward(raft[i], new)
  <2>1. r.Term \in Nat /\ new.Term \in Nat
    BY <1>4, <1>6 DEF RaftType
  <2>. QED
    BY <1>1, <1>4, <1>6, <2>1, VoteForwardTransitive
<1>8. Grant(resp) => resp.from = i /\ resp.term = new.Term /\ resp.to = new.Vote
  <2>. SUFFICES ASSUME Grant(resp)
                PROVE  resp.from = i /\ resp.term = new.Term /\ resp.to = new.Vote
    OBVIOUS
  <2>1. grant /\ m.type = "MsgVote"
    BY <1>2 DEF Grant, VoteResp, RespType
  <2>. QED
    BY <1>4, <2>1 DEF VoteResp, RaftType
<1>. HIDE DEF new, resp
<1>9. /\ net \subseteq net' /\ \A n \in net' : Grant(n) => n \in net
      /\ \A j \in Server : \A n \in pend'[j] : Grant(n) => n \in pend[j] \/ (j = i /\ n = resp)
  BY <1>1, <1>3, SendGrants
<1>10. /\ \A j \in Server : raft'[j] = IF j = i THEN new ELSE raft[j]
       /\ \A j \in Server : j # i \/ ~adopt => votes'[j] = votes[j]
  BY <1>1, <1>3 DEF Become
<1>11. \A j \in Server : VoteForward(raft[j], raft'[j])
  BY <1>7, <1>10 DEF VoteForward
<1>12. \A j \in Server : \A n \in pend'[j] : Grant(n) =>
         n \in pend[j] \/ (n.from = j /\ n.term = raft'[j].Term /\ n.to = raft'[j].Vote)
  BY <1>8, <1>9, <1>10
<1>13. \A j, k \in Server :
         raft'[j].state = "StateCandidate" /\ votes'[j][k] = "granted" =>
            k \in Granters(raft'[j].Term, j)
  BY <1>4, <1>6, <1>10 DEF ElectionInv, CountedGrants
<1>. QED
  BY <1>3, <1>9, <1>11, <1>12, <1>13, StepKeepsInv

\* A candidate counts the grant it just got, or wins with a quorum of them.
LEMMA PollKeepsInv ==
    ASSUME IndType, IndType', ElectionInv, NEW i \in Server, NEW m \in net, m.to = i,
           \/ PollPending(i, m) \/ PollLost(i, m)
           \/ PollPreVoteWon(i, m) \/ PollWon(i, m)
    PROVE  ElectionInv'
<1>1. /\ TypeOK /\ raft[i] \in RaftType /\ raft \in [Server -> RaftType]
      /\ raft[i].Term \in Nat /\ votes \in [Server -> [Server -> Ballot]]
      /\ votes[i] \in [Server -> Ballot] /\ m \in Message
  BY ServerFacts DEF IndType, TypeOK
<1>2. m.from \in Server /\ IsPoll(i, m)
  BY <1>1, MessageTerm DEF PollPending, PollLost, PollPreVoteWon, PollWon
<1>3. ASSUME raft[i].state = "StateCandidate", NEW k \in Server, Polled(i, m)[k] = "granted"
      PROVE  k \in Granters(raft[i].Term, i)
  <2>1. CASE votes[i][k] = "granted"
    BY <1>3, <2>1 DEF ElectionInv, CountedGrants
  <2>2. CASE votes[i][k] # "granted"
    <3>1. k = m.from /\ ~m.reject
      BY <1>1, <1>2, <1>3, <2>2 DEF Polled
    <3>2. m.type = "MsgVoteResp" /\ m.term = raft[i].Term
      BY <1>2, <1>3 DEF IsPoll
    <3>. QED
      BY <3>1, <3>2 DEF Granters, Grant
  <2>. QED
    BY <2>1, <2>2
<1>4. CASE PollPending(i, m)
  <2>1. NoNewGrant
    BY <1>4, QuietNet DEF PollPending
  <2>2. \A j \in Server : votes'[j] = IF j = i THEN Polled(i, m) ELSE votes[j]
    BY <1>1, <1>4 DEF PollPending
  <2>3. \A j, k \in Server :
          raft'[j].state = "StateCandidate" /\ votes'[j][k] = "granted" =>
            k \in Granters(raft'[j].Term, j)
    BY <1>3, <1>4, <2>2 DEF PollPending, ElectionInv, CountedGrants
  <2>4. \A j \in Server : VoteForward(raft[j], raft'[j])
    BY <1>4 DEF VoteForward, PollPending
  <2>. QED
    BY <1>4, <2>1, <2>3, <2>4, StepKeepsInv DEF PollPending, NoNewGrant
<1>5. CASE PollLost(i, m)
  <2>1. NoNewGrant
    BY <1>5, QuietNet DEF PollLost
  <2>2. /\ VoteForward(raft[i], becomeFollower(raft[i], raft[i].Term, None))
        /\ becomeFollower(raft[i], raft[i].Term, None).state = "StateFollower"
    BY <1>1 DEF VoteForward, becomeFollower, reset, RaftType
  <2>3. \A j \in Server \ {i} : votes'[j] = votes[j]
    BY <1>1, <1>5 DEF PollLost, Become
  <2>. QED
    BY <1>5, <2>1, <2>2, <2>3, FollowStep DEF PollLost, Become
<1>6. CASE PollPreVoteWon(i, m)
  <2>1. VoteForward(raft[i], raft[i])
    BY DEF VoteForward
  <2>. QED
    BY <1>1, <1>6, <2>1, CampaignKeepsInv DEF PollPreVoteWon
<1>7. CASE PollWon(i, m)
  <2>. DEFINE lg  == appendEntry(raftLog[i], raft[i].Term, NoData)
              out == bcastAppend(i, leaderProgress(i, raftLog[i]), lg)
              own == AppResp(i, i, raft[i].Term, lastIndex(lg))
  <2>1. /\ raft[i].state = "StateCandidate" /\ Tally(i, m) = "VoteWon"
        /\ raft' = [raft EXCEPT ![i] = becomeLeader(raft[i], i)]
        /\ votes' = [votes EXCEPT ![i] = NoVotes]
        /\ elected' = elected \cup {<<raft[i].Term, i>>}
        /\ Send(i, MsgsOf(out), {own}) /\ UNCHANGED <<disk, appendQ>>
    BY <1>7 DEF PollWon
  <2>2. NoNewGrant
    <3>1. \A n \in MsgsOf(out) : ~Grant(n)
      BY SendAppendsNoGrant DEF bcastAppend
    <3>2. ~Grant(own)
      BY DEF Grant, AppResp
    <3>. HIDE DEF out, own
    <3>. QED
      BY <1>1, <2>1, <3>1, <3>2, SendGrants
  <2>3. IsJointQuorum(Config, Granters(raft[i].Term, i))
    <3>1. IsFiniteSet(Incoming) /\ IsFiniteSet(Outgoing)
      BY FS_Subset
    <3>2. /\ IsMajority(Incoming, Votes(Incoming, Polled(i, m), "granted"))
          /\ IsMajority(Outgoing, Votes(Outgoing, Polled(i, m), "granted"))
      <4>1. JointVoteResult(Config, Polled(i, m)) = "VoteWon"
        BY <2>1 DEF Tally
      <4>2. Config[1] = Incoming /\ Config[2] = Outgoing
        BY DEF Config
      <4>. QED
        BY <3>1, <4>1, <4>2, JointWon
    <3>. DEFINE Q == {k \in Server : Polled(i, m)[k] = "granted"}
    <3>3. /\ Incoming \cap Votes(Incoming, Polled(i, m), "granted") = Incoming \cap Q
          /\ Outgoing \cap Votes(Outgoing, Polled(i, m), "granted") = Outgoing \cap Q
      BY DEF Votes
    <3>4. IsJointQuorum(Config, Q)
      BY <3>2, <3>3 DEF IsJointQuorum, IsMajority, Config
    <3>5. Q \subseteq Granters(raft[i].Term, i)
      BY <1>3, <2>1
    <3>. QED
      BY <3>4, <3>5, QuorumGrows
  <2>4. /\ \A j \in Server : raft'[j] = IF j = i THEN becomeLeader(raft[i], i) ELSE raft[j]
        /\ \A j \in Server : votes'[j] = IF j = i THEN NoVotes ELSE votes[j]
    BY <1>1, <2>1
  <2>5. \A j \in Server : VoteForward(raft[j], raft'[j])
    <3>1. VoteForward(raft[i], becomeLeader(raft[i], i))
      BY <1>1 DEF VoteForward, becomeLeader, reset, RaftType
    <3>. QED
      BY <2>4, <3>1 DEF VoteForward
  <2>6. \A j, k \in Server :
          raft'[j].state = "StateCandidate" /\ votes'[j][k] = "granted" =>
            k \in Granters(raft'[j].Term, j)
    BY <2>4 DEF NoVotes, ElectionInv, CountedGrants
  <2>7. \A e \in elected' : e \in elected \/ IsJointQuorum(Config, Granters(e[1], e[2]))
    BY <2>1, <2>3
  <2>. QED
    BY <2>1, <2>2, <2>5, <2>6, <2>7, StepKeepsInv DEF NoNewGrant
<1>. QED
  BY <1>4, <1>5, <1>6, <1>7

\* MsgTimeoutNow preserves the invariant.
LEMMA TimeoutNowKeepsInv ==
    ASSUME IndType, IndType', ElectionInv, NEW i \in Server, NEW m \in Message,
           HandleTimeoutNow(i, m)
    PROVE  ElectionInv'
<1>. DEFINE higher == m.term > raft[i].Term
            r == IF higher THEN becomeFollower(raft[i], m.term, None) ELSE raft[i]
<1>1. /\ TypeOK /\ raft[i] \in RaftType /\ raft[i].Term \in Nat
      /\ m.term \in Nat /\ m.term >= raft[i].Term
  BY ServerFacts, MessageTerm DEF IndType, HandleTimeoutNow
<1>2. r \in RaftType /\ VoteForward(raft[i], r)
  <2>1. /\ VoteForward(raft[i], becomeFollower(raft[i], m.term, None))
        /\ VoteForward(raft[i], raft[i])
    BY <1>1 DEF VoteForward, becomeFollower, reset, RaftType
  <2>2. becomeFollower(raft[i], m.term, None) \in RaftType
    BY <1>1, RecordTypes
  <2>. QED
    BY <1>1, <2>1, <2>2
<1>3. /\ r.state = "StateFollower" /\ UNCHANGED <<raftLog, disk, appendQ, elected>>
      /\ \/ campaign(i, r, FALSE, TRUE)
         \/ Become(i, r, higher) /\ UNCHANGED <<pend, net>>
  BY DEF HandleTimeoutNow
<1>. HIDE DEF r, higher
<1>4. CASE campaign(i, r, FALSE, TRUE)
  BY <1>2, <1>3, <1>4, CampaignKeepsInv
<1>5. CASE Become(i, r, higher) /\ UNCHANGED <<pend, net>>
  <2>1. NoNewGrant
    BY <1>5, QuietNet
  <2>2. \A j \in Server \ {i} : votes'[j] = votes[j]
    BY <1>1, <1>5 DEF Become, TypeOK
  <2>. QED
    BY <1>2, <1>3, <1>5, <2>1, <2>2, FollowStep DEF Become
<1>. QED
  BY <1>3, <1>4, <1>5

-----------------------------------------------------------------------------
(* The way of a grant to the disk and out.                                 *)

\* Ready preserves the invariant: the item carries the vote its grants need.
LEMMA ReadyKeepsInv ==
    ASSUME IndType, IndType', ElectionInv, NEW i \in Server, Ready(i)
    PROVE  ElectionInv'
<1>. DEFINE item == StorageAppend(i)
            n    == Len(appendQ[i])
<1>1. /\ TypeOK /\ appendQ[i] \in Seq(AppendItem) /\ item \in AppendItem
      /\ appendQ \in [Server -> Seq(AppendItem)] /\ pend \in [Server -> SUBSET Message]
  BY ServerFacts, StorageAppendType DEF IndType, TypeOK
<1>2. /\ item.Term = raft[i].Term /\ item.Vote = raft[i].Vote
      /\ \A m \in item.resps : Grant(m) => m \in pend[i]
  BY DEF StorageAppend, StorageAppendResp, Grant
<1>. HIDE DEF item
<1>3. /\ appendQ' = [appendQ EXCEPT ![i] = Append(appendQ[i], item)]
      /\ pend' = [pend EXCEPT ![i] = {}]
      /\ UNCHANGED <<raft, votes, disk, net, elected>>
  BY DEF Ready, item
<1>4. /\ n \in Nat /\ Len(appendQ'[i]) = n + 1
      /\ \A k \in 1..n + 1 : appendQ'[i][k] = IF k = n + 1 THEN item ELSE appendQ[i][k]
  BY <1>1, <1>3
<1>5. /\ \A j \in Server \ {i} : appendQ'[j] = appendQ[j] /\ pend'[j] = pend[j]
      /\ pend'[i] = {}
  BY <1>1, <1>3
<1>. HIDE DEF n
<1>6. QueueForward'
  <2>. SUFFICES ASSUME NEW j \in Server
                PROVE  /\ VoteForward(disk[j], raft[j])
                       /\ \A k \in 1..Len(appendQ'[j]) :
                            /\ VoteForward(disk[j], appendQ'[j][k])
                            /\ VoteForward(appendQ'[j][k], raft[j])
                            /\ \A l \in 1..k : VoteForward(appendQ'[j][l], appendQ'[j][k])
    BY <1>3 DEF QueueForward
  <2>1. CASE j # i
    BY <1>5, <2>1 DEF ElectionInv, QueueForward
  <2>2. CASE j = i
    <3>1. /\ VoteForward(disk[i], raft[i])
          /\ \A k \in 1..n : /\ VoteForward(disk[i], appendQ[i][k])
                             /\ VoteForward(appendQ[i][k], raft[i])
                             /\ \A l \in 1..k : VoteForward(appendQ[i][l], appendQ[i][k])
      BY DEF ElectionInv, QueueForward, n
    <3>2. /\ VoteForward(disk[i], item) /\ VoteForward(item, raft[i]) /\ VoteForward(item, item)
          /\ \A k \in 1..n : VoteForward(appendQ[i][k], item)
      BY <1>2, <3>1 DEF VoteForward
    <3>3. ASSUME NEW k \in 1..n + 1
          PROVE  /\ VoteForward(disk[i], appendQ'[i][k])
                 /\ VoteForward(appendQ'[i][k], raft[i])
                 /\ \A l \in 1..k : VoteForward(appendQ'[i][l], appendQ'[i][k])
      <4>1. CASE k = n + 1
        BY <1>4, <3>2, <4>1
      <4>2. CASE k \in 1..n
        BY <1>4, <3>1, <4>2
      <4>. QED
        BY <1>4, <4>1, <4>2
    <3>. QED
      BY <1>4, <2>2, <3>1, <3>3
  <2>. QED
    BY <2>1, <2>2
<1>7. GrantsBacked'
  <2>1. ASSUME NEW j \in Server, NEW m \in pend'[j], Grant(m)
        PROVE  m.from = j /\ Backs(raft'[j], m)
    BY <1>3, <1>5, <2>1 DEF ElectionInv, GrantsBacked
  <2>2. ASSUME NEW j \in Server, NEW k \in 1..Len(appendQ'[j]),
               NEW m \in appendQ'[j][k].resps, Grant(m)
        PROVE  m.from = j /\ Backs(appendQ'[j][k], m)
    <3>1. CASE j # i
      BY <1>5, <2>2, <3>1 DEF ElectionInv, GrantsBacked
    <3>2. CASE j = i /\ k \in 1..n
      BY <1>4, <2>2, <3>2 DEF ElectionInv, GrantsBacked, n
    <3>3. CASE j = i /\ k = n + 1
      <4>1. appendQ'[j][k] = item /\ m \in pend[i]
        BY <1>2, <1>4, <2>2, <3>3
      <4>2. m.from = i /\ Backs(raft[i], m)
        BY <2>2, <4>1 DEF ElectionInv, GrantsBacked
      <4>. QED
        BY <1>2, <3>3, <4>1, <4>2 DEF Backs
    <3>. QED
      BY <1>4, <3>1, <3>2, <3>3
  <2>3. \A m \in net' : Grant(m) => Backs(disk'[m.from], m)
    BY <1>3 DEF ElectionInv, GrantsBacked
  <2>. QED
    BY <2>1, <2>2, <2>3 DEF GrantsBacked
<1>8. OneGrantPerTerm'
  <2>1. ASSUME NEW j \in Server, NEW m \in Granted(j)'
        PROVE  m \in Granted(j)
    <3>1. CASE j # i
      BY <1>3, <1>5, <2>1, <3>1 DEF Granted
    <3>2. CASE j = i
      <4>1. Grant(m) /\ m.from = i
        BY <2>1, <3>2 DEF Granted
      <4>2. CASE m \in net
        BY <3>2, <4>1, <4>2 DEF Granted
      <4>3. CASE \E k \in 1..n + 1 : m \in appendQ'[i][k].resps
        <5>1. PICK k \in 1..n + 1 : m \in appendQ'[i][k].resps
          BY <4>3
        <5>2. CASE k = n + 1
          BY <1>2, <1>4, <3>2, <4>1, <5>1, <5>2 DEF Granted
        <5>3. CASE k \in 1..n
          <6>1. m \in appendQ[i][k].resps
            BY <1>4, <5>1, <5>3
          <6>. QED
            BY <3>2, <4>1, <5>3, <6>1 DEF Granted, n
        <5>. QED
          BY <1>4, <5>2, <5>3
      <4>. QED
        BY <1>3, <1>4, <1>5, <2>1, <3>2, <4>2, <4>3 DEF Granted
    <3>. QED
      BY <3>1, <3>2
  <2>. QED
    BY <2>1 DEF ElectionInv, OneGrantPerTerm
<1>9. \A t, x : Granters(t, x)' = Granters(t, x)
  BY <1>3 DEF Granters
<1>. QED
  BY <1>3, <1>6, <1>7, <1>8, <1>9 DEF ElectionInv, CountedGrants, ElectedByQuorum

\* A write preserves the invariant: the grants it releases speak of the vote
\* it has just saved.
LEMMA ProcessAppendKeepsInv ==
    ASSUME IndType, IndType', ElectionInv, NEW i \in Server, ProcessAppend(i)
    PROVE  ElectionInv'
<1>. DEFINE item == appendQ[i][1]
            n    == Len(appendQ[i])
<1>1. /\ TypeOK /\ appendQ[i] \in Seq(AppendItem) /\ appendQ[i] # << >>
      /\ appendQ \in [Server -> Seq(AppendItem)] /\ disk \in [Server -> DiskType]
  BY ServerFacts DEF IndType, TypeOK, ProcessAppend
<1>2. /\ disk' = [disk EXCEPT ![i] = Saved(disk[i], item)]
      /\ appendQ' = [appendQ EXCEPT ![i] = Tail(appendQ[i])]
      /\ net' = net \cup item.resps
      /\ UNCHANGED <<raft, votes, pend, elected>>
  BY DEF ProcessAppend
<1>3. /\ n \in Nat /\ n >= 1 /\ Len(appendQ'[i]) = n - 1
      /\ \A k \in 1..n - 1 : appendQ'[i][k] = appendQ[i][k + 1]
  BY <1>1, <1>2
<1>4. /\ \A j \in Server \ {i} : appendQ'[j] = appendQ[j] /\ disk'[j] = disk[j]
      /\ disk'[i].Term = item.Term /\ disk'[i].Vote = item.Vote
  BY <1>1, <1>2 DEF Saved
<1>5. /\ VoteForward(disk[i], item)
      /\ \A k \in 1..n : /\ VoteForward(item, appendQ[i][k])
                         /\ VoteForward(appendQ[i][k], raft[i])
                         /\ \A l \in 1..k : VoteForward(appendQ[i][l], appendQ[i][k])
  BY <1>3 DEF ElectionInv, QueueForward
<1>6. \A m \in item.resps : Grant(m) => m.from = i /\ Backs(item, m)
  BY <1>3 DEF ElectionInv, GrantsBacked
<1>7. item.Term \in Nat /\ disk[i].Term \in Nat /\ item.resps \subseteq Message
  BY <1>3, TermFacts
<1>8. \A m \in item.resps : Grant(m) => m \in Granted(i)
  BY <1>3, <1>6 DEF Granted
<1>. HIDE DEF item, n
<1>9. QueueForward'
  <2>. SUFFICES ASSUME NEW j \in Server
                PROVE  /\ VoteForward(disk'[j], raft[j])
                       /\ \A k \in 1..Len(appendQ'[j]) :
                            /\ VoteForward(disk'[j], appendQ'[j][k])
                            /\ VoteForward(appendQ'[j][k], raft[j])
                            /\ \A l \in 1..k : VoteForward(appendQ'[j][l], appendQ'[j][k])
    BY <1>2 DEF QueueForward
  <2>1. CASE j # i
    BY <1>4, <2>1 DEF ElectionInv, QueueForward
  <2>2. CASE j = i
    <3>1. VoteForward(disk'[i], raft[i])
      <4>1. VoteForward(item, raft[i])
        BY <1>3, <1>5 DEF item
      <4>. QED
        BY <1>4, <4>1 DEF VoteForward
    <3>2. ASSUME NEW k \in 1..n - 1
          PROVE  /\ VoteForward(disk'[i], appendQ'[i][k])
                 /\ VoteForward(appendQ'[i][k], raft[i])
                 /\ \A l \in 1..k : VoteForward(appendQ'[i][l], appendQ'[i][k])
      <4>1. k + 1 \in 1..n /\ \A l \in 1..k : l + 1 \in 1..(k + 1) /\ l \in 1..n - 1
        BY <1>3
      <4>2. VoteForward(item, appendQ[i][k + 1]) /\ VoteForward(appendQ[i][k + 1], raft[i])
        BY <1>5, <4>1
      <4>3. VoteForward(disk'[i], appendQ'[i][k])
        BY <1>3, <1>4, <4>2 DEF VoteForward
      <4>4. \A l \in 1..k : VoteForward(appendQ'[i][l], appendQ'[i][k])
        BY <1>3, <1>5, <4>1
      <4>. QED
        BY <1>3, <4>2, <4>3, <4>4
    <3>. QED
      BY <1>3, <2>2, <3>1, <3>2
  <2>. QED
    BY <2>1, <2>2
<1>10. GrantsBacked'
  <2>1. ASSUME NEW j \in Server, NEW m \in pend'[j], Grant(m)
        PROVE  m.from = j /\ Backs(raft'[j], m)
    BY <1>2, <2>1 DEF ElectionInv, GrantsBacked
  <2>2. ASSUME NEW j \in Server, NEW k \in 1..Len(appendQ'[j]),
               NEW m \in appendQ'[j][k].resps, Grant(m)
        PROVE  m.from = j /\ Backs(appendQ'[j][k], m)
    <3>1. CASE j # i
      BY <1>4, <2>2, <3>1 DEF ElectionInv, GrantsBacked
    <3>2. CASE j = i
      <4>1. appendQ'[i][k] = appendQ[i][k + 1] /\ k + 1 \in 1..n
        BY <1>3, <2>2, <3>2
      <4>. QED
        BY <2>2, <3>2, <4>1 DEF ElectionInv, GrantsBacked, n
    <3>. QED
      BY <3>1, <3>2
  <2>3. ASSUME NEW m \in net', Grant(m)
        PROVE  Backs(disk'[m.from], m)
    <3>1. CASE m \in item.resps
      BY <1>4, <1>6, <2>3, <3>1 DEF Backs
    <3>2. CASE m \in net
      <4>1. m \in Message /\ Backs(disk[m.from], m)
        BY <2>3, <3>2, TermFacts DEF ElectionInv, GrantsBacked
      <4>2. m.from \in Server /\ m.to \in Server /\ m.term \in Nat
        BY <2>3, <4>1, GrantFacts
      <4>3. CASE m.from = i
        <5>1. Backs(item, m)
          BY <1>5, <1>7, <4>1, <4>2, <4>3, BackedForward
        <5>. QED
          BY <1>4, <4>3, <5>1 DEF Backs
      <4>4. CASE m.from # i
        BY <1>4, <4>1, <4>2, <4>4
      <4>. QED
        BY <4>3, <4>4
    <3>. QED
      BY <1>2, <3>1, <3>2
  <2>. QED
    BY <2>1, <2>2, <2>3 DEF GrantsBacked
<1>11. OneGrantPerTerm'
  <2>1. ASSUME NEW j \in Server, NEW m \in Granted(j)'
        PROVE  m \in Granted(j)
    <3>1. Grant(m) /\ m.from = j
      BY <2>1 DEF Granted
    <3>2. CASE m \in net'
      <4>1. m \in item.resps => j = i
        BY <1>6, <3>1
      <4>. QED
        BY <1>2, <1>8, <3>1, <3>2, <4>1 DEF Granted
    <3>3. CASE m \in pend'[j]
      BY <1>2, <3>1, <3>3 DEF Granted
    <3>4. CASE \E k \in 1..Len(appendQ'[j]) : m \in appendQ'[j][k].resps
      <4>1. \E k \in 1..Len(appendQ[j]) : m \in appendQ[j][k].resps
        <5>1. CASE j # i
          BY <1>4, <3>4, <5>1
        <5>2. CASE j = i
          <6>1. PICK k \in 1..n - 1 : m \in appendQ[i][k + 1].resps
            BY <1>3, <3>4, <5>2
          <6>2. k + 1 \in 1..Len(appendQ[i])
            BY <1>3 DEF n
          <6>. QED
            BY <5>2, <6>1, <6>2
        <5>. QED
          BY <5>1, <5>2
      <4>. QED
        BY <3>1, <4>1 DEF Granted
    <3>. QED
      BY <2>1, <3>2, <3>3, <3>4 DEF Granted
  <2>. QED
    BY <2>1 DEF ElectionInv, OneGrantPerTerm
<1>12. \A t, x : Granters(t, x) \subseteq Granters(t, x)'
  BY <1>2 DEF Granters
<1>13. CountedGrants'
  BY <1>2, <1>12 DEF ElectionInv, CountedGrants
<1>14. ElectedByQuorum'
  BY <1>2, <1>12, QuorumGrows DEF ElectionInv, ElectedByQuorum
<1>. QED
  BY <1>9, <1>10, <1>11, <1>13, <1>14 DEF ElectionInv

\* A crash forgets what is not on disk, which no grant relies on.
LEMMA RestartKeepsInv ==
    ASSUME IndType, IndType', ElectionInv, NEW i \in Server, Restart(i)
    PROVE  ElectionInv'
<1>1. /\ raft \in [Server -> RaftType] /\ votes \in [Server -> [Server -> Ballot]]
      /\ appendQ \in [Server -> Seq(AppendItem)] /\ pend \in [Server -> SUBSET Message]
  BY DEF IndType, TypeOK
<1>2. /\ \A j \in Server \ {i} : /\ raft'[j] = raft[j] /\ votes'[j] = votes[j]
                                 /\ pend'[j] = pend[j] /\ appendQ'[j] = appendQ[j]
      /\ raft'[i].Term = disk[i].Term /\ raft'[i].Vote = disk[i].Vote
      /\ raft'[i].state = "StateFollower"
      /\ pend'[i] = {} /\ appendQ'[i] = << >> /\ Len(appendQ'[i]) = 0
      /\ UNCHANGED <<disk, net, elected>>
  BY <1>1 DEF Restart
<1>3. QueueForward'
  <2>1. VoteForward(disk[i], raft'[i])
    BY <1>2 DEF VoteForward
  <2>. QED
    BY <1>2, <2>1 DEF ElectionInv, QueueForward
<1>4. GrantsBacked'
  BY <1>2 DEF ElectionInv, GrantsBacked
<1>5. OneGrantPerTerm'
  <2>1. \A j \in Server : Granted(j)' \subseteq Granted(j)
    BY <1>2 DEF Granted
  <2>. QED
    BY <2>1 DEF ElectionInv, OneGrantPerTerm
<1>6. \A t, x : Granters(t, x)' = Granters(t, x)
  BY <1>2 DEF Granters
<1>7. CountedGrants'
  BY <1>2, <1>6 DEF ElectionInv, CountedGrants
<1>8. ElectedByQuorum'
  BY <1>2, <1>6 DEF ElectionInv, ElectedByQuorum
<1>. QED
  BY <1>3, <1>4, <1>5, <1>7, <1>8 DEF ElectionInv

\* Snapshots, compaction and appliedSnap preserve the invariant.
LEMMA StorageKeepsInv ==
    ASSUME IndType, IndType', ElectionInv, NEW i \in Server,
           \/ \E k : CreateSnapshot(i, k) \/ Compact(i, k)
           \/ \E m : HandleStorageAppendResp(i, m)
    PROVE  ElectionInv'
<1>1. NoNewGrant
  BY QuietNet DEF CreateSnapshot, Compact, HandleStorageAppendResp
<1>2. /\ raft' = raft /\ votes' = votes /\ appendQ' = appendQ /\ elected' = elected
  BY DEF CreateSnapshot, Compact, HandleStorageAppendResp
<1>3. \A j \in Server : disk'[j].Term = disk[j].Term /\ disk'[j].Vote = disk[j].Vote
  <2>1. disk \in [Server -> DiskType]
    BY DEF IndType, TypeOK
  <2>2. CASE \E k : CreateSnapshot(i, k)
    BY <2>1, <2>2 DEF CreateSnapshot, DiskType
  <2>3. CASE \E k : Compact(i, k)
    BY <2>1, <2>3 DEF Compact, DiskType
  <2>4. CASE \E m : HandleStorageAppendResp(i, m)
    BY <2>4 DEF HandleStorageAppendResp
  <2>. QED
    BY <2>2, <2>3, <2>4
<1>. QED
  BY <1>1, <1>2, <1>3, IdleStep

-----------------------------------------------------------------------------
(* The theorems.                                                           *)

\* The invariant holds in a cluster that starts.
LEMMA ElectionInit == Init => ElectionInv
<1>. SUFFICES ASSUME Init PROVE ElectionInv
  OBVIOUS
<1>1. QueueForward
  BY DEF Init, QueueForward, VoteForward
<1>2. GrantsBacked
  BY DEF Init, GrantsBacked
<1>3. OneGrantPerTerm
  BY DEF Init, OneGrantPerTerm, Granted
<1>4. CountedGrants
  BY DEF Init, CountedGrants
<1>5. ElectedByQuorum
  BY DEF Init, ElectedByQuorum
<1>. QED
  BY <1>1, <1>2, <1>3, <1>4, <1>5 DEF ElectionInv

\* Every message preserves the invariant.
LEMMA ElectionReceive ==
    ASSUME IndType, IndType', ElectionInv, NEW i \in Server, NEW m \in net, m.to = i,
           Receive(i, m)
    PROVE  ElectionInv'
<1>1. m \in Message
  BY DEF IndType, TypeOK
<1>2. CASE HandleVote(i, m)
  BY <1>1, <1>2, VoteKeepsInv
<1>3. CASE PollPending(i, m) \/ PollLost(i, m) \/ PollPreVoteWon(i, m) \/ PollWon(i, m)
  BY <1>3, PollKeepsInv
<1>4. CASE StepDown(i, m) \/ StepLowerTerm(i, m)
  BY <1>1, <1>4, StepTermKeepsInv
<1>5. CASE HandleAppendEntries(i, m) \/ HandleHeartbeat(i, m) \/ HandleSnapshot(i, m)
  BY <1>1, <1>5, FollowerSteps
<1>6. CASE HandleTimeoutNow(i, m)
  BY <1>1, <1>6, TimeoutNowKeepsInv
<1>7. CASE HandleAppendReject(i, m) \/ HandleAppendAck(i, m) \/ HandleHeartbeatResp(i, m)
  BY <1>1, <1>7, LeaderSteps
<1>8. CASE HandleProp(i, m)
  BY <1>8, ProposalSteps DEF HandleProp
<1>9. CASE HandleTransferLeader(i, m)
  BY <1>9, TransferSteps DEF HandleTransferLeader, TransferLeader
<1>10. CASE HandleStorageAppendResp(i, m)
  BY <1>10, StorageKeepsInv
<1>. QED
  BY <1>2, <1>3, <1>4, <1>5, <1>6, <1>7, <1>8, <1>9, <1>10 DEF Receive

\* Every call of RawNode and every timer preserves the invariant.
LEMMA ElectionLocal ==
    ASSUME IndType, IndType', ElectionInv, NEW i \in Server, Local(i)
    PROVE  ElectionInv'
<1>1. CASE Campaign(i)
  <2>1. raft[i] \in RaftType /\ VoteForward(raft[i], raft[i])
    BY ServerFacts DEF VoteForward
  <2>2. PreVote \in BOOLEAN
    BY OptionAssumption
  <2>. QED
    BY <1>1, <2>1, <2>2, CampaignKeepsInv DEF Campaign
<1>2. CASE Tick(i) \/ ForgetLeader(i) \/ LeaderTimeout(i)
  BY <1>2, TimerKeepsInv
<1>3. CASE Beat(i)
  <2>1. \E m : m \in Message
    BY MessageTypes
  <2>. QED
    BY <1>3, <2>1, LeaderSteps
<1>4. CASE \E v \in Value : Propose(i, v)
  BY <1>4, ProposalSteps DEF Propose
<1>5. CASE \E j \in Server : TransferLeader(i, j)
  BY <1>5, TransferSteps
<1>6. CASE \E j \in Server : \/ ReportUnreachable(i, j)
                             \/ \E failed \in BOOLEAN : ReportSnapshot(i, j, failed)
  BY <1>6, ReportKeepsInv
<1>. QED
  BY <1>1, <1>2, <1>3, <1>4, <1>5, <1>6 DEF Local

\* Every step preserves the invariant.
LEMMA ElectionNext == IndType /\ IndType' /\ ElectionInv /\ [Next]_vars => ElectionInv'
<1>. SUFFICES ASSUME IndType, IndType', ElectionInv, [Next]_vars PROVE ElectionInv'
  OBVIOUS
<1>1. CASE UNCHANGED vars
  BY <1>1 DEF vars, ElectionInv, QueueForward, GrantsBacked, OneGrantPerTerm, Granted,
              CountedGrants, ElectedByQuorum, Granters
<1>2. ASSUME NEW i \in Server, Durability(i)
      PROVE  ElectionInv'
  BY <1>2, ReadyKeepsInv, ProcessAppendKeepsInv, RestartKeepsInv, StorageKeepsInv
     DEF Durability
<1>. QED
  BY <1>1, <1>2, ElectionLocal, ElectionReceive DEF Next

(***************************************************************************)
(* The invariant behind ElectionSafety: votes only move forward on their   *)
(* way to the disk, a grant leaves a server only after the write that      *)
(* backs it, and every election was won with grants of a joint quorum.     *)
(***************************************************************************)
THEOREM ElectionInductive == Spec => []ElectionInv
<1>. QED
  BY TypeInductive, ElectionInit, ElectionNext, PTL DEF Spec

(***************************************************************************)
(* At most one server is ever elected in a term: the promise of campaign,  *)
(* Step and poll, for every cluster, through crashes, delayed, repeated    *)
(* and reordered messages and asynchronous storage writes.                 *)
(***************************************************************************)
THEOREM ElectionIsSafe == Spec => []ElectionSafety
<1>1. IndType /\ ElectionInv => ElectionSafety
  <2>. SUFFICES ASSUME IndType, ElectionInv, NEW e \in elected, NEW f \in elected, e[1] = f[1]
                PROVE  e[2] = f[2]
    BY DEF ElectionSafety
  <2>1. /\ IsMajority(Incoming, Granters(e[1], e[2]))
        /\ IsMajority(Incoming, Granters(f[1], f[2]))
    BY DEF ElectionInv, ElectedByQuorum, IsJointQuorum, Config
  <2>2. IsFiniteSet(Incoming)
    BY FS_Subset
  <2>3. PICK j \in Incoming : j \in Granters(e[1], e[2]) /\ j \in Granters(f[1], f[2])
    BY <2>1, <2>2, MajoritiesMeet
  <2>4. PICK m \in net : Grant(m) /\ m.from = j /\ m.to = e[2] /\ m.term = e[1]
    BY <2>3 DEF Granters
  <2>5. PICK n \in net : Grant(n) /\ n.from = j /\ n.to = f[2] /\ n.term = f[1]
    BY <2>3 DEF Granters
  <2>6. j \in Server /\ m \in Granted(j) /\ n \in Granted(j)
    BY <2>3, <2>4, <2>5 DEF Granted, Granters
  <2>. QED
    BY <2>4, <2>5, <2>6 DEF ElectionInv, OneGrantPerTerm
<1>. QED
  BY <1>1, TypeInductive, ElectionInductive, PTL

\* The HardState a restart begins with never loses a term or a vote: every
\* write of the append thread is at or after the one before it.
THEOREM DurableVoteHolds == Spec => DurableVote
<1>. DEFINE Keeps == \A i \in Server :
                /\ disk'[i].Term >= disk[i].Term
                /\ disk'[i].Term = disk[i].Term /\ disk[i].Vote # None
                     => disk'[i].Vote = disk[i].Vote
<1>1. IndType /\ ElectionInv /\ [Next]_vars => [Keeps]_vars
  <2>. SUFFICES ASSUME IndType, ElectionInv, Next PROVE Keeps
    OBVIOUS
  <2>1. disk \in [Server -> DiskType] /\ \A i \in Server : disk[i].Term \in Nat
    BY DEF IndType, TypeOK, DiskType
  <2>2. CASE \E i \in Server : ProcessAppend(i)
    <3>1. PICK i \in Server : ProcessAppend(i)
      BY <2>2
    <3>2. appendQ[i] \in Seq(AppendItem) /\ appendQ[i] # << >>
      BY <3>1, ServerFacts DEF ProcessAppend
    <3>3. 1 \in 1..Len(appendQ[i]) /\ appendQ[i][1].Term \in Nat
      BY <3>2, TermFacts
    <3>4. VoteForward(disk[i], appendQ[i][1])
      BY <3>3 DEF ElectionInv, QueueForward
    <3>5. \A j \in Server : disk'[j] = IF j = i THEN Saved(disk[i], appendQ[i][1]) ELSE disk[j]
      BY <2>1, <3>1 DEF ProcessAppend
    <3>6. /\ Saved(disk[i], appendQ[i][1]).Term = appendQ[i][1].Term
          /\ Saved(disk[i], appendQ[i][1]).Vote = appendQ[i][1].Vote
      BY DEF Saved
    <3>. QED
      BY <2>1, <3>3, <3>4, <3>5, <3>6 DEF VoteForward
  <2>3. CASE \A j \in Server : disk'[j].Term = disk[j].Term /\ disk'[j].Vote = disk[j].Vote
    BY <2>1, <2>3
  <2>4. ASSUME NEW i \in Server,
               \/ Local(i) \/ Ready(i) \/ Restart(i) \/ \E m \in net : Receive(i, m)
        PROVE  disk' = disk
    <3>1. CASE Ready(i) \/ Restart(i)
      BY <3>1 DEF Ready, Restart
    <3>2. CASE Campaign(i) \/ Tick(i) \/ Beat(i) \/ LeaderTimeout(i) \/ ForgetLeader(i)
      BY <3>2 DEF Campaign, Tick, Beat, LeaderTimeout, ForgetLeader
    <3>3. ASSUME NEW x, leaderTransfer(i, x) \/ TransferLeader(i, x)
          PROVE  disk' = disk
      BY <3>3 DEF leaderTransfer, TransferLeader
    <3>4. ASSUME NEW from, NEW v, StepProp(i, from, v)
          PROVE  disk' = disk
      BY <3>4 DEF StepProp
    <3>5. CASE Local(i)
      <4>1. CASE \E j \in Server : \/ ReportUnreachable(i, j)
                                   \/ \E failed \in BOOLEAN : ReportSnapshot(i, j, failed)
        BY <4>1 DEF ReportUnreachable, ReportSnapshot
      <4>. QED
        BY <3>2, <3>3, <3>4, <3>5, <4>1 DEF Local, Propose
    <3>6. ASSUME NEW m \in net, Receive(i, m)
          PROVE  disk' = disk
      <4>1. CASE \/ HandleVote(i, m) \/ StepDown(i, m) \/ StepLowerTerm(i, m)
                 \/ HandleTimeoutNow(i, m)
        BY <4>1 DEF HandleVote, StepDown, StepLowerTerm, HandleTimeoutNow
      <4>2. CASE \/ PollPending(i, m) \/ PollLost(i, m) \/ PollPreVoteWon(i, m)
                 \/ PollWon(i, m)
        BY <4>2 DEF PollPending, PollLost, PollPreVoteWon, PollWon
      <4>3. CASE \/ HandleAppendEntries(i, m) \/ HandleHeartbeat(i, m)
                 \/ HandleSnapshot(i, m) \/ HandleStorageAppendResp(i, m)
        BY <4>3 DEF HandleAppendEntries, HandleHeartbeat, HandleSnapshot,
                    HandleStorageAppendResp
      <4>4. CASE \/ HandleAppendReject(i, m) \/ HandleAppendAck(i, m)
                 \/ HandleHeartbeatResp(i, m)
        BY <4>4 DEF HandleAppendReject, HandleAppendAck, HandleHeartbeatResp
      <4>. QED
        BY <3>3, <3>4, <3>6, <4>1, <4>2, <4>3, <4>4
           DEF Receive, HandleProp, HandleTransferLeader
    <3>. QED
      BY <2>4, <3>1, <3>5, <3>6
  <2>5. ASSUME NEW i \in Server, NEW k, CreateSnapshot(i, k) \/ Compact(i, k)
        PROVE  \A j \in Server : disk'[j].Term = disk[j].Term /\ disk'[j].Vote = disk[j].Vote
    <3>1. CASE CreateSnapshot(i, k)
      BY <2>1, <3>1 DEF CreateSnapshot, DiskType
    <3>2. CASE Compact(i, k)
      BY <2>1, <3>2 DEF Compact, DiskType
    <3>. QED
      BY <2>5, <3>1, <3>2
  <2>. QED
    BY <2>2, <2>3, <2>4, <2>5 DEF Next, Durability
<1>2. Spec => [][Keeps]_vars
  BY <1>1, TypeInductive, ElectionInductive, PTL DEF Spec
<1>. QED
  BY <1>2 DEF DurableVote

-----------------------------------------------------------------------------
(***************************************************************************)
(* Who is taken for a leader. A message that only a leader sends names the *)
(* server elected in its term, a transfer request goes to that server, and *)
(* nobody answers itself the way a follower answers its leader: so lead    *)
(* names the winner of the term, and a follower never names itself.        *)
(***************************************************************************)
LeaderTypes == {"MsgApp", "MsgHeartbeat", "MsgSnap"}

LeadMsg(m, won) ==
    /\ m.type \in LeaderTypes => <<m.term, m.from>> \in won /\ m.from # m.to
    /\ m.type = "MsgTransferLeader" => <<m.term, m.to>> \in won
    /\ m.type = "MsgHeartbeatResp" => m.from # m.to
    /\ m.type = "MsgAppResp" /\ m.reject => m.from # m.to

LeadRecord(i, r, won) ==
    /\ r.state = "StateLeader" => <<r.Term, i>> \in won
    /\ r.lead # None => <<r.Term, r.lead>> \in won
    /\ r.lead = i => r.state = "StateLeader"

LeadInv ==
    /\ \A i \in Server : LeadRecord(i, raft[i], elected)
    /\ \A m \in net : LeadMsg(m, elected)
    /\ \A i \in Server : \A m \in pend[i] : LeadMsg(m, elected)
    /\ \A i \in Server : \A k \in 1..Len(appendQ[i]) :
        \A m \in appendQ[i][k].resps : LeadMsg(m, elected)

\* A step of server i that leaves a sound record and sends sound messages
\* preserves the invariant.
LEMMA LeadStep ==
    ASSUME TypeOK, LeadInv, NEW i \in Server, NEW r, NEW now, NEW after,
           raft' = [raft EXCEPT ![i] = r], Send(i, now, after),
           LeadRecord(i, r, elected'), \A m \in now \cup after : LeadMsg(m, elected'),
           appendQ' = appendQ, elected \subseteq elected'
    PROVE  LeadInv'
<1>1. \A m : LeadMsg(m, elected) => LeadMsg(m, elected')
  BY DEF LeadMsg
<1>2. \A j \in Server : raft'[j] = IF j = i THEN r ELSE raft[j]
  BY DEF TypeOK
<1>3. \A j \in Server : LeadRecord(j, raft[j], elected) => LeadRecord(j, raft[j], elected')
  BY <1>2 DEF LeadRecord
<1>4. \A j \in Server : LeadRecord(j, raft'[j], elected')
  <2>. TAKE j \in Server
  <2>1. CASE j = i
    BY <1>2, <2>1
  <2>2. CASE j # i
    <3>1. LeadRecord(j, raft[j], elected) /\ raft'[j] = raft[j]
      BY <1>2, <2>2 DEF LeadInv
    <3>. QED
      BY <3>1 DEF LeadRecord
  <2>. QED
    BY <2>1, <2>2
<1>5. \A m \in net' : LeadMsg(m, elected')
  BY <1>1 DEF Send, LeadInv
<1>6. \A j \in Server : \A m \in pend'[j] : m \in pend[j] \/ m \in now \cup after
  BY DEF Send, TypeOK
<1>7. \A j \in Server : \A m \in pend'[j] : LeadMsg(m, elected')
  BY <1>1, <1>6 DEF LeadInv
<1>8. \A j \in Server : \A k \in 1..Len(appendQ'[j]) :
        \A m \in appendQ'[j][k].resps : LeadMsg(m, elected')
  BY <1>1 DEF LeadInv
<1>. QED
  BY <1>4, <1>5, <1>7, <1>8 DEF LeadInv

\* A record whose leader and state stay as they are stays sound.
LEMMA SameLead ==
    ASSUME NEW i, NEW r, NEW s, LeadRecord(i, r, elected), s.Term = r.Term, s.lead = r.lead,
           s.state = r.state, elected \subseteq elected'
    PROVE  LeadRecord(i, s, elected')
<1>. QED
  BY DEF LeadRecord

\* Sending nothing is a case of Send.
LEMMA SendNothing ==
    ASSUME TypeOK, NEW i \in Server, UNCHANGED <<pend, net>>
    PROVE  Send(i, {}, {})
<1>. QED
  BY DEF Send, TypeOK

\* Steps that leave the record alone.
LEMMA LeadIdle ==
    ASSUME TypeOK, LeadInv, NEW i \in Server, NEW now, NEW after,
           raft' = raft, Send(i, now, after),
           \A m \in now \cup after : LeadMsg(m, elected'),
           appendQ' = appendQ, elected' = elected
    PROVE  LeadInv'
<1>1. raft' = [raft EXCEPT ![i] = raft[i]]
  BY DEF TypeOK
<1>2. LeadRecord(i, raft[i], elected')
  <2>1. LeadRecord(i, raft[i], elected)
    BY DEF LeadInv
  <2>. QED
    BY <2>1 DEF LeadRecord
<1>. QED
  BY <1>1, <1>2, LeadStep

\* A message with which server i replicates its log to one in `targets`.
Replicates(i, m, targets) ==
    /\ m.type \in {"MsgApp", "MsgSnap"} /\ m.from = i /\ m.term = raft[i].Term
    /\ m.to \in targets

\* maybeSendAppend addresses MsgApp and MsgSnap of this term to one server.
LEMMA SentByLeader ==
    ASSUME NEW i, NEW lg, NEW atMost, NEW sendIfEmpty
    PROVE  /\ \A to, pr : \A m \in maybeSendAppend(i, to, pr, lg, atMost, sendIfEmpty).msgs :
                Replicates(i, m, {to})
           /\ \A prs, targets :
                \A m \in MsgsOf(SendAppends(i, prs, lg, targets, atMost, sendIfEmpty)) :
                    Replicates(i, m, targets)
<1>1. ASSUME NEW to, NEW pr,
             NEW m \in maybeSendAppend(i, to, pr, lg, atMost, sendIfEmpty).msgs
      PROVE  Replicates(i, m, {to})
  BY <1>1 DEF maybeSendAppend, maybeSendSnapshot, NothingSent, Replicates
<1>2. ASSUME NEW prs, NEW targets,
             NEW m \in MsgsOf(SendAppends(i, prs, lg, targets, atMost, sendIfEmpty))
      PROVE  Replicates(i, m, targets)
  <2>1. PICK j \in Server :
          m \in SendAppends(i, prs, lg, targets, atMost, sendIfEmpty)[j].msgs
    BY <1>2 DEF MsgsOf
  <2>2. \/ j \in targets /\ m \in maybeSendAppend(i, j, prs[j], lg, atMost, sendIfEmpty).msgs
        \/ m \in NothingSent(prs[j]).msgs
    BY <2>1 DEF SendAppends
  <2>3. CASE j \in targets /\ m \in maybeSendAppend(i, j, prs[j], lg, atMost, sendIfEmpty).msgs
    <3>1. Replicates(i, m, {j})
      BY <1>1, <2>3
    <3>. QED
      BY <2>3, <3>1 DEF Replicates
  <2>. QED
    BY <2>2, <2>3 DEF NothingSent
<1>. QED
  BY <1>1, <1>2

\* The messages with which a leader replicates are sound.
LEMMA LeadSent ==
    ASSUME NEW i, NEW m, NEW targets, Replicates(i, m, targets), i \notin targets,
           <<raft[i].Term, i>> \in elected'
    PROVE  LeadMsg(m, elected')
<1>. QED
  BY DEF LeadMsg, LeaderTypes, Replicates

\* The records that the become* transitions leave are sound.
LEMMA LeadBecome ==
    ASSUME NEW i \in Server, NEW r \in RaftType, NEW term, NEW won
    PROVE  /\ LeadRecord(i, becomeFollower(r, term, None), won)
           /\ LeadRecord(i, becomePreCandidate(r), won)
           /\ LeadRecord(i, becomeCandidate(r, i), won)
           /\ <<r.Term, i>> \in won => LeadRecord(i, becomeLeader(r, i), won)
           /\ \A lead : lead # i /\ <<term, lead>> \in won =>
                LeadRecord(i, becomeFollower(r, term, lead), won)
<1>1. i # None
  OBVIOUS
<1>. QED
  BY <1>1 DEF LeadRecord, becomeFollower, becomePreCandidate, becomeCandidate, becomeLeader,
              reset, RaftType

\* A campaign and its own vote name no leader.
LEMMA LeadCampaign ==
    ASSUME IndType, LeadInv, NEW i \in Server, NEW r \in RaftType, NEW pre, NEW transfer,
           campaign(i, r, pre, transfer), UNCHANGED <<raftLog, disk, appendQ, elected>>
    PROVE  LeadInv'
<1>. DEFINE c    == IF pre THEN becomePreCandidate(r) ELSE becomeCandidate(r, i)
            type == IF pre THEN "MsgPreVote" ELSE "MsgVote"
            asks == {Vote(type, i, j, r.Term + 1, raftLog[i], transfer) : j \in Voters \ {i}}
            own  == {VoteResp(RespType(type), i, i, r.Term + 1, FALSE)}
<1>1. raft' = [raft EXCEPT ![i] = c] /\ Send(i, asks, own)
  BY DEF campaign
<1>2. LeadRecord(i, c, elected')
  <2>1. /\ LeadRecord(i, becomePreCandidate(r), elected')
        /\ LeadRecord(i, becomeCandidate(r, i), elected')
    BY LeadBecome
  <2>. QED
    BY <2>1
<1>3. \A m \in asks \cup own : LeadMsg(m, elected')
  <2>1. \A m \in asks : m.type \in {"MsgPreVote", "MsgVote"}
    BY DEF Vote
  <2>2. \A m \in own : m.type \in {"MsgVoteResp", "MsgPreVoteResp"}
    BY DEF VoteResp, RespType
  <2>. HIDE DEF asks, own
  <2>. QED
    BY <2>1, <2>2 DEF LeadMsg, LeaderTypes
<1>. HIDE DEF c, asks, own
<1>. QED
  BY <1>1, <1>2, <1>3, LeadStep DEF IndType

\* MsgVote and MsgPreVote leave no leader but the one of the same term.
LEMMA LeadVote ==
    ASSUME IndType, LeadInv, NEW i \in Server, NEW m \in Message, HandleVote(i, m)
    PROVE  LeadInv'
<1>. DEFINE adopt == m.term > raft[i].Term /\ m.type = "MsgVote"
            r     == IF adopt THEN becomeFollower(raft[i], m.term, None) ELSE raft[i]
            grant == canVote(r, m) /\ isUpToDate(raftLog[i], m.index, m.logTerm)
            new   == IF grant /\ m.type = "MsgVote"
                     THEN [r EXCEPT !.Vote = m.from, !.timedOut = FALSE] ELSE r
            resp  == VoteResp(RespType(m.type), i, m.from,
                              IF grant THEN m.term ELSE r.Term, ~grant)
<1>1. TypeOK /\ raft[i] \in RaftType /\ m.type \in {"MsgVote", "MsgPreVote"} /\ m.term \in Nat
  BY ServerFacts, MessageTerm DEF IndType, HandleVote
<1>2. Become(i, new, adopt) /\ Send(i, {}, {resp}) /\ UNCHANGED <<appendQ, elected>>
  BY DEF HandleVote
<1>3. r \in RaftType /\ LeadRecord(i, r, elected)
  <2>1. /\ becomeFollower(raft[i], m.term, None) \in RaftType
        /\ LeadRecord(i, becomeFollower(raft[i], m.term, None), elected)
    BY <1>1, RecordTypes, LeadBecome
  <2>. QED
    BY <1>1, <2>1 DEF LeadInv
<1>4. LeadRecord(i, new, elected')
  <2>. HIDE DEF r, grant
  <2>1. new.Term = r.Term /\ new.lead = r.lead /\ new.state = r.state
    BY <1>3 DEF RaftType
  <2>. QED
    BY <1>2, <1>3, <2>1, SameLead
<1>5. \A n \in {} \cup {resp} : LeadMsg(n, elected')
  BY <1>1 DEF LeadMsg, LeaderTypes, VoteResp, RespType
<1>. HIDE DEF new, resp
<1>. QED
  BY <1>1, <1>2, <1>4, <1>5, LeadStep DEF Become

\* Counting votes; the winner is its own leader.
LEMMA LeadPoll ==
    ASSUME IndType, LeadInv, NEW i \in Server, NEW m \in Message,
           \/ PollPending(i, m) \/ PollLost(i, m)
           \/ PollPreVoteWon(i, m) \/ PollWon(i, m)
    PROVE  LeadInv'
<1>1. TypeOK /\ raft[i] \in RaftType
  BY ServerFacts DEF IndType
<1>2. CASE PollPending(i, m)
  <2>1. Send(i, {}, {})
    BY <1>1, <1>2, SendNothing DEF PollPending
  <2>. QED
    BY <1>1, <1>2, <2>1, LeadIdle DEF PollPending
<1>3. CASE PollLost(i, m)
  <2>1. Send(i, {}, {})
    BY <1>1, <1>3, SendNothing DEF PollLost
  <2>2. LeadRecord(i, becomeFollower(raft[i], raft[i].Term, None), elected')
    BY <1>1, LeadBecome
  <2>. QED
    BY <1>1, <1>3, <2>1, <2>2, LeadStep DEF PollLost, Become
<1>4. CASE PollPreVoteWon(i, m)
  BY <1>1, <1>4, LeadCampaign DEF PollPreVoteWon
<1>5. CASE PollWon(i, m)
  <2>. DEFINE lg  == appendEntry(raftLog[i], raft[i].Term, NoData)
              out == bcastAppend(i, leaderProgress(i, raftLog[i]), lg)
              own == AppResp(i, i, raft[i].Term, lastIndex(lg))
  <2>1. /\ raft' = [raft EXCEPT ![i] = becomeLeader(raft[i], i)]
        /\ elected' = elected \cup {<<raft[i].Term, i>>}
        /\ Send(i, MsgsOf(out), {own}) /\ UNCHANGED appendQ
    BY <1>5 DEF PollWon
  <2>2. LeadRecord(i, becomeLeader(raft[i], i), elected')
    BY <1>1, <2>1, LeadBecome
  <2>3. \A n \in MsgsOf(out) : LeadMsg(n, elected')
    <3>1. \A n \in MsgsOf(out) : Replicates(i, n, Server \ {i})
      BY SentByLeader DEF bcastAppend
    <3>2. i \notin Server \ {i} /\ <<raft[i].Term, i>> \in elected'
      BY <2>1
    <3>. HIDE DEF out
    <3>. QED
      BY <3>1, <3>2, LeadSent
  <2>4. LeadMsg(own, elected')
    BY DEF LeadMsg, LeaderTypes, AppResp
  <2>. HIDE DEF out, own
  <2>. QED
    BY <1>1, <2>1, <2>2, <2>3, <2>4, LeadStep
<1>. QED
  BY <1>2, <1>3, <1>4, <1>5

\* Messages of other terms: no leader is named.
LEMMA LeadTerms ==
    ASSUME IndType, LeadInv, NEW i \in Server, NEW m \in net, m.to = i,
           StepDown(i, m) \/ StepLowerTerm(i, m)
    PROVE  LeadInv'
<1>1. TypeOK /\ raft[i] \in RaftType
  BY ServerFacts DEF IndType
<1>2. CASE StepDown(i, m)
  <2>1. Send(i, {}, {})
    BY <1>1, <1>2, SendNothing DEF StepDown
  <2>2. LeadRecord(i, becomeFollower(raft[i], m.term, None), elected')
    BY <1>1, LeadBecome
  <2>. QED
    BY <1>1, <1>2, <2>1, <2>2, LeadStep DEF StepDown, Become
<1>3. CASE StepLowerTerm(i, m)
  <2>. DEFINE resp == IF m.type = "MsgPreVote"
                      THEN VoteResp("MsgPreVoteResp", i, m.from, raft[i].Term, TRUE)
                      ELSE AppResp(i, m.from, raft[i].Term, 0)
  <2>1. Send(i, {}, {resp})
    BY <1>3 DEF StepLowerTerm
  <2>2. LeadMsg(resp, elected')
    BY DEF LeadMsg, LeaderTypes, VoteResp, AppResp
  <2>. HIDE DEF resp
  <2>. QED
    BY <1>1, <1>3, <2>1, <2>2, LeadIdle DEF StepLowerTerm
<1>. QED
  BY <1>2, <1>3

\* A follower takes the sender for its leader, and the sender was elected.
LEMMA LeadFollowers ==
    ASSUME IndType, LeadInv, NEW i \in Server, NEW m \in net, m.to = i,
           \/ HandleAppendEntries(i, m) \/ HandleHeartbeat(i, m) \/ HandleSnapshot(i, m)
    PROVE  LeadInv'
<1>1. /\ TypeOK /\ raft[i] \in RaftType /\ m \in Message /\ m.term \in Nat
      /\ m.type \in LeaderTypes
  BY ServerFacts, MessageTerm DEF IndType, TypeOK, HandleAppendEntries, HandleHeartbeat,
                                  HandleSnapshot, LeaderTypes
<1>2. <<m.term, m.from>> \in elected /\ m.from # i
  BY <1>1 DEF LeadInv, LeadMsg
<1>3. /\ raft' = [raft EXCEPT ![i] = Followed(i, m)]
      /\ UNCHANGED <<appendQ, elected>>
  BY DEF HandleAppendEntries, HandleHeartbeat, HandleSnapshot, Become
<1>4. LeadRecord(i, Followed(i, m), elected')
  <2>1. CASE Follows(i, m)
    <3>1. /\ Followed(i, m).Term = m.term /\ Followed(i, m).lead = m.from
          /\ Followed(i, m).state = "StateFollower"
      BY <1>1, <2>1 DEF Followed, Follows, RaftType
    <3>. QED
      BY <1>2, <1>3, <3>1 DEF LeadRecord
  <2>2. CASE ~Follows(i, m)
    BY <1>1, <1>2, <1>3, <2>2, LeadBecome DEF Followed
  <2>. QED
    BY <2>1, <2>2
<1>5. \A k : /\ LeadMsg(AppResp(i, m.from, m.term, k), elected')
             /\ LeadMsg(Plain("MsgHeartbeatResp", i, m.from, m.term), elected')
             /\ \A h, t : LeadMsg([AppResp(i, m.from, m.term, k) EXCEPT
                                     !.reject = TRUE, !.rejectHint = h, !.logTerm = t],
                                  elected')
  BY <1>2 DEF LeadMsg, LeaderTypes, AppResp, Plain
<1>6. \E n : LeadMsg(n, elected') /\ (Send(i, {}, {n}) \/ Send(i, {n}, {}))
  <2>1. CASE HandleAppendEntries(i, m)
    BY <1>5, <2>1 DEF HandleAppendEntries
  <2>2. CASE HandleHeartbeat(i, m)
    BY <1>5, <2>2 DEF HandleHeartbeat
  <2>3. CASE HandleSnapshot(i, m)
    BY <1>5, <2>3 DEF HandleSnapshot
  <2>. QED
    BY <2>1, <2>2, <2>3
<1>. QED
  BY <1>1, <1>3, <1>4, <1>6, LeadStep

\* MsgTimeoutNow: a campaign, or a follower of a new term without a leader.
LEMMA LeadTimeoutNow ==
    ASSUME IndType, LeadInv, NEW i \in Server, NEW m \in Message, HandleTimeoutNow(i, m)
    PROVE  LeadInv'
<1>. DEFINE higher == m.term > raft[i].Term
            r == IF higher THEN becomeFollower(raft[i], m.term, None) ELSE raft[i]
<1>1. TypeOK /\ raft[i] \in RaftType /\ m.term \in Nat
  BY ServerFacts, MessageTerm DEF IndType, HandleTimeoutNow
<1>2. r \in RaftType /\ LeadRecord(i, r, elected)
  <2>1. /\ becomeFollower(raft[i], m.term, None) \in RaftType
        /\ LeadRecord(i, becomeFollower(raft[i], m.term, None), elected)
    BY <1>1, RecordTypes, LeadBecome
  <2>. QED
    BY <1>1, <2>1 DEF LeadInv
<1>3. /\ UNCHANGED <<raftLog, disk, appendQ, elected>>
      /\ \/ campaign(i, r, FALSE, TRUE)
         \/ Become(i, r, higher) /\ UNCHANGED <<pend, net>>
  BY DEF HandleTimeoutNow
<1>. HIDE DEF r, higher
<1>4. CASE campaign(i, r, FALSE, TRUE)
  BY <1>2, <1>3, <1>4, LeadCampaign
<1>5. CASE Become(i, r, higher) /\ UNCHANGED <<pend, net>>
  <2>1. Send(i, {}, {})
    BY <1>1, <1>5, SendNothing
  <2>. QED
    BY <1>1, <1>2, <1>3, <1>5, <2>1, LeadStep DEF Become
<1>. QED
  BY <1>3, <1>4, <1>5

\* The leader's answers: what it sends names itself, and goes to others.
LEMMA LeadLeaders ==
    ASSUME IndType, LeadInv, NEW i \in Server, NEW m \in net, m.to = i,
           HandleAppendReject(i, m) \/ HandleHeartbeatResp(i, m)
    PROVE  LeadInv'
<1>1. TypeOK /\ raft[i].state = "StateLeader" /\ m.from # i
  BY DEF IndType, HandleAppendReject, HandleHeartbeatResp, IsResp, Leads, LeadInv, LeadMsg
<1>2. /\ UNCHANGED <<raft, appendQ, elected>>
  BY DEF HandleAppendReject, HandleHeartbeatResp
<1>3. <<raft[i].Term, i>> \in elected' /\ i \notin {m.from}
  BY <1>1, <1>2 DEF LeadInv, LeadRecord
<1>4. \A pr : \A n \in NothingSent(pr).msgs : Replicates(i, n, {m.from})
  BY DEF NothingSent
<1>5. PICK out : (\A n \in out.msgs : Replicates(i, n, {m.from})) /\ Send(i, out.msgs, {})
  <2>1. CASE HandleAppendReject(i, m)
    BY <1>4, <2>1, SentByLeader DEF HandleAppendReject
  <2>2. CASE HandleHeartbeatResp(i, m)
    BY <1>4, <2>2, SentByLeader DEF HandleHeartbeatResp
  <2>. QED
    BY <2>1, <2>2
<1>6. \A n \in out.msgs : LeadMsg(n, elected')
  BY <1>3, <1>5, LeadSent
<1>. QED
  BY <1>1, <1>2, <1>5, <1>6, LeadIdle

\* An ack: the leader goes on sending, and may tell the sender to campaign.
LEMMA LeadAck ==
    ASSUME IndType, LeadInv, NEW i \in Server, NEW m, HandleAppendAck(i, m)
    PROVE  LeadInv'
<1>. DEFINE j     == m.from
            prs   == [trk[i] EXCEPT ![j] = Acked(Active(i, j), m.index, raftLog[i].first)]
            lg    == maybeCommit(raftLog[i], raft[i].Term, prs)
            first == IF lg.committed > raftLog[i].committed THEN Server \ {i}
                     ELSE IF CanBumpCommit(prs[j], lg.committed) THEN {j} \ {i}
                     ELSE {}
            out   == SendAppends(i, prs, lg, first, 1, TRUE)
            more  == SendAppends(i, ProgressOf(out), lg, {j} \ {i}, MaxInflight, FALSE)
            done  == j = raft[i].leadTransferee /\ prs[j].Match = lastIndex(lg)
            now   == MsgsOf(out) \cup MsgsOf(more)
                       \cup (IF done THEN {Plain("MsgTimeoutNow", i, j, raft[i].Term)} ELSE {})
<1>1. TypeOK /\ UNCHANGED <<raft, appendQ, elected>> /\ raft[i].state = "StateLeader"
  BY DEF IndType, HandleAppendAck, IsResp, Leads
<1>2. <<raft[i].Term, i>> \in elected' /\ i \notin first /\ i \notin {j} \ {i}
  BY <1>1 DEF LeadInv, LeadRecord
<1>3. Send(i, now, {}) \/ UNCHANGED <<pend, net>>
  BY DEF HandleAppendAck
<1>4. /\ \A n \in MsgsOf(out) : Replicates(i, n, first)
      /\ \A n \in MsgsOf(more) : Replicates(i, n, {j} \ {i})
  <2>. HIDE DEF prs, lg, first, j
  <2>. QED
    BY SentByLeader
<1>5. LeadMsg(Plain("MsgTimeoutNow", i, j, raft[i].Term), elected')
  BY DEF LeadMsg, LeaderTypes, Plain
<1>. HIDE DEF out, more, done, first, j
<1>6. \A n \in now : LeadMsg(n, elected')
  <2>1. \A n \in MsgsOf(out) \cup MsgsOf(more) : LeadMsg(n, elected')
    BY <1>2, <1>4, LeadSent
  <2>. QED
    BY <1>5, <2>1
<1>. HIDE DEF now
<1>7. CASE Send(i, now, {})
  BY <1>1, <1>6, <1>7, LeadIdle
<1>8. CASE UNCHANGED <<pend, net>>
  BY <1>1, <1>8, SendNothing, LeadIdle
<1>. QED
  BY <1>3, <1>7, <1>8

\* Heartbeats, proposals and transfers.
LEMMA LeadLocal ==
    ASSUME IndType, LeadInv, NEW i \in Server,
           \/ Beat(i) \/ \E from, v : StepProp(i, from, v)
           \/ \E x \in Server : TransferLeader(i, x)
    PROVE  LeadInv'
<1>1. TypeOK /\ raft[i] \in RaftType /\ LeadRecord(i, raft[i], elected)
  BY ServerFacts DEF IndType, LeadInv
<1>2. CASE Beat(i)
  <2>. DEFINE commit(j) == Least(trk[i][j].Match, raftLog[i].committed)
              now == {Heartbeat(i, j, raft[i].Term, commit(j)) : j \in Server \ {i}}
  <2>1. UNCHANGED <<raft, appendQ, elected>> /\ Leads(i) /\ Send(i, now, {})
    BY <1>2 DEF Beat
  <2>2. \A n \in now : LeadMsg(n, elected')
    <3>1. <<raft[i].Term, i>> \in elected'
      BY <1>1, <2>1 DEF Leads, LeadRecord
    <3>. QED
      BY <3>1 DEF LeadMsg, LeaderTypes, Heartbeat
  <2>. HIDE DEF now
  <2>. QED
    BY <1>1, <2>1, <2>2, LeadIdle
<1>3. ASSUME NEW from, NEW v, StepProp(i, from, v)
      PROVE  LeadInv'
  <2>. DEFINE lg  == appendEntry(raftLog[i], raft[i].Term, v)
              out == bcastAppend(i, trk[i], lg)
              own == AppResp(i, i, raft[i].Term, lastIndex(lg))
              fwd == Prop(from, raft[i].lead, v)
  <2>1. /\ UNCHANGED <<raft, appendQ, elected>>
        /\ \/ Leads(i) /\ Send(i, MsgsOf(out), {own})
           \/ Send(i, {fwd}, {})
    BY <1>3 DEF StepProp
  <2>2. Leads(i) => \A n \in MsgsOf(out) : LeadMsg(n, elected')
    <3>. HAVE Leads(i)
    <3>1. \A n \in MsgsOf(out) : Replicates(i, n, Server \ {i})
      BY SentByLeader DEF bcastAppend
    <3>2. i \notin Server \ {i} /\ <<raft[i].Term, i>> \in elected'
      BY <1>1, <2>1 DEF Leads, LeadRecord
    <3>. HIDE DEF out
    <3>. QED
      BY <3>1, <3>2, LeadSent
  <2>3. LeadMsg(own, elected') /\ LeadMsg(fwd, elected')
    BY DEF LeadMsg, LeaderTypes, AppResp, Prop
  <2>. HIDE DEF out, own, fwd
  <2>4. CASE Leads(i) /\ Send(i, MsgsOf(out), {own})
    BY <1>1, <2>1, <2>2, <2>3, <2>4, LeadIdle
  <2>5. CASE Send(i, {fwd}, {})
    BY <1>1, <2>1, <2>3, <2>5, LeadIdle
  <2>. QED
    BY <2>1, <2>4, <2>5
<1>4. ASSUME NEW x \in Server, leaderTransfer(i, x)
      PROVE  LeadInv'
  <2>. DEFINE out == IF trk[i][x].Match = lastIndex(raftLog[i])
                     THEN [NothingSent(trk[i][x]) EXCEPT
                             !.msgs = {Plain("MsgTimeoutNow", i, x, raft[i].Term)}]
                     ELSE maybeSendAppend(i, x, trk[i][x], raftLog[i], 1, TRUE)
  <2>1. /\ UNCHANGED <<appendQ, elected>> /\ Leads(i)
        /\ UNCHANGED <<pend, net>> \/ (x # i /\ Send(i, out.msgs, {}))
    BY <1>4 DEF leaderTransfer
  <2>2. PICK r : /\ raft' = [raft EXCEPT ![i] = r]
                 /\ r.Term = raft[i].Term /\ r.lead = raft[i].lead /\ r.state = raft[i].state
    <3>1. \A y : LET r == [raft[i] EXCEPT !.leadTransferee = y]
                     s == [raft[i] EXCEPT !.leadTransferee = y, !.timedOut = FALSE]
                 IN  /\ r.Term = raft[i].Term /\ r.lead = raft[i].lead
                     /\ r.state = raft[i].state
                     /\ s.Term = raft[i].Term /\ s.lead = raft[i].lead
                     /\ s.state = raft[i].state
      BY <1>1 DEF RaftType
    <3>2. \E y : \/ raft' = [raft EXCEPT ![i] = [raft[i] EXCEPT !.leadTransferee = y]]
                 \/ raft' = [raft EXCEPT ![i] = [raft[i] EXCEPT !.leadTransferee = y,
                                                                !.timedOut = FALSE]]
      BY <1>1, <1>4, ZenonT(30) DEF leaderTransfer, TypeOK
    <3>3. PICK y : \/ raft' = [raft EXCEPT ![i] = [raft[i] EXCEPT !.leadTransferee = y]]
                   \/ raft' = [raft EXCEPT ![i] = [raft[i] EXCEPT !.leadTransferee = y,
                                                                  !.timedOut = FALSE]]
      BY <3>2
    <3>4. CASE raft' = [raft EXCEPT ![i] = [raft[i] EXCEPT !.leadTransferee = y]]
      BY <3>1, <3>4
    <3>5. CASE raft' = [raft EXCEPT ![i] = [raft[i] EXCEPT !.leadTransferee = y,
                                                           !.timedOut = FALSE]]
      BY <3>1, <3>5
    <3>. QED
      BY <3>3, <3>4, <3>5
  <2>3. LeadRecord(i, r, elected')
    BY <1>1, <2>1, <2>2, SameLead
  <2>4. x # i => \A n \in out.msgs : LeadMsg(n, elected')
    <3>. HAVE x # i
    <3>1. \A n \in maybeSendAppend(i, x, trk[i][x], raftLog[i], 1, TRUE).msgs :
            Replicates(i, n, {x})
      BY SentByLeader
    <3>2. i \notin {x} /\ <<raft[i].Term, i>> \in elected'
      BY <1>1, <2>1 DEF Leads, LeadRecord
    <3>3. \A n \in maybeSendAppend(i, x, trk[i][x], raftLog[i], 1, TRUE).msgs :
            LeadMsg(n, elected')
      BY <3>1, <3>2, LeadSent
    <3>4. [NothingSent(trk[i][x]) EXCEPT
             !.msgs = {Plain("MsgTimeoutNow", i, x, raft[i].Term)}].msgs
             = {Plain("MsgTimeoutNow", i, x, raft[i].Term)}
      BY DEF NothingSent
    <3>5. LeadMsg(Plain("MsgTimeoutNow", i, x, raft[i].Term), elected')
      BY DEF LeadMsg, LeaderTypes, Plain
    <3>6. CASE trk[i][x].Match = lastIndex(raftLog[i])
      BY <3>4, <3>5, <3>6
    <3>7. CASE trk[i][x].Match # lastIndex(raftLog[i])
      BY <3>3, <3>7
    <3>. QED
      BY <3>6, <3>7
  <2>. HIDE DEF out
  <2>5. CASE UNCHANGED <<pend, net>>
    BY <1>1, <2>1, <2>2, <2>3, <2>5, SendNothing, LeadStep
  <2>6. CASE x # i /\ Send(i, out.msgs, {})
    BY <1>1, <2>1, <2>2, <2>3, <2>4, <2>6, LeadStep
  <2>. QED
    BY <2>1, <2>5, <2>6
<1>5. ASSUME NEW x \in Server, raft[i].lead # None,
             Send(i, {Plain("MsgTransferLeader", x, raft[i].lead, raft[i].Term)}, {}),
             UNCHANGED <<raft, appendQ, elected>>
      PROVE  LeadInv'
  <2>1. LeadMsg(Plain("MsgTransferLeader", x, raft[i].lead, raft[i].Term), elected')
    BY <1>1, <1>5 DEF LeadRecord, LeadMsg, LeaderTypes, Plain
  <2>. QED
    BY <1>1, <1>5, <2>1, LeadIdle
<1>. QED
  BY <1>2, <1>3, <1>4, <1>5 DEF TransferLeader

\* Timers and ForgetLeader only forget a leader.
LEMMA LeadTimers ==
    ASSUME IndType, LeadInv, NEW i \in Server,
           \/ Tick(i) \/ ForgetLeader(i) \/ LeaderTimeout(i)
    PROVE  LeadInv'
<1>1. TypeOK /\ raft[i] \in RaftType /\ LeadRecord(i, raft[i], elected)
  BY ServerFacts DEF IndType, LeadInv
<1>2. Send(i, {}, {}) /\ UNCHANGED <<appendQ, elected>>
  BY <1>1, SendNothing DEF Tick, ForgetLeader, LeaderTimeout
<1>3. \E r : raft' = [raft EXCEPT ![i] = r] /\ LeadRecord(i, r, elected')
  <2>1. CASE Tick(i)
    <3>1. raft' = [raft EXCEPT ![i] = [raft[i] EXCEPT !.timedOut = TRUE]]
      BY <2>1 DEF Tick
    <3>2. LeadRecord(i, [raft[i] EXCEPT !.timedOut = TRUE], elected')
      BY <1>1, <1>2 DEF LeadRecord, RaftType
    <3>. QED
      BY <3>1, <3>2
  <2>2. CASE ForgetLeader(i)
    <3>1. raft' = [raft EXCEPT ![i] = [raft[i] EXCEPT !.lead = None]]
      BY <2>2 DEF ForgetLeader
    <3>2. LeadRecord(i, [raft[i] EXCEPT !.lead = None], elected')
      BY <1>1, <1>2 DEF LeadRecord, RaftType
    <3>. QED
      BY <3>1, <3>2
  <2>3. CASE LeaderTimeout(i)
    <3>1. \/ raft' = [raft EXCEPT ![i] = becomeFollower(raft[i], raft[i].Term, None)]
          \/ raft' = [raft EXCEPT ![i] = [raft[i] EXCEPT !.leadTransferee = None]]
      BY <2>3 DEF LeaderTimeout, Become
    <3>2. LeadRecord(i, becomeFollower(raft[i], raft[i].Term, None), elected')
      BY <1>1, LeadBecome
    <3>3. LeadRecord(i, [raft[i] EXCEPT !.leadTransferee = None], elected')
      BY <1>1, <1>2 DEF LeadRecord, RaftType
    <3>. QED
      BY <3>1, <3>2, <3>3
  <2>. QED
    BY <2>1, <2>2, <2>3
<1>. QED
  BY <1>1, <1>2, <1>3, LeadStep

\* The append thread moves messages and a crash drops some; a restarted
\* server knows no leader.
LEMMA LeadDurability ==
    ASSUME IndType, LeadInv, NEW i \in Server,
           \/ Ready(i) \/ ProcessAppend(i) \/ Restart(i)
    PROVE  LeadInv'
<1>1. /\ TypeOK /\ appendQ[i] \in Seq(AppendItem) /\ raft \in [Server -> RaftType]
      /\ appendQ \in [Server -> Seq(AppendItem)] /\ pend \in [Server -> SUBSET Message]
  BY ServerFacts DEF IndType, TypeOK
<1>2. CASE Ready(i)
  <2>. DEFINE item == StorageAppend(i)
  <2>1. item \in AppendItem /\ \A m \in item.resps : LeadMsg(m, elected)
    BY StorageAppendType DEF StorageAppend, StorageAppendResp, LeadInv, LeadMsg, LeaderTypes
  <2>2. /\ appendQ' = [appendQ EXCEPT ![i] = Append(appendQ[i], item)]
        /\ pend' = [pend EXCEPT ![i] = {}] /\ UNCHANGED <<raft, net, elected>>
    BY <1>2 DEF Ready
  <2>. HIDE DEF item
  <2>3. \A j \in Server : \A k \in 1..Len(appendQ'[j]) :
          \/ appendQ'[j][k] = item
          \/ k \in 1..Len(appendQ[j]) /\ appendQ'[j][k] = appendQ[j][k]
    BY <1>1, <2>1, <2>2
  <2>4. \A j \in Server : pend'[j] \subseteq pend[j]
    BY <1>1, <2>2
  <2>. QED
    BY <2>1, <2>2, <2>3, <2>4 DEF LeadInv
<1>3. CASE ProcessAppend(i)
  <2>1. /\ appendQ[i] # << >> /\ appendQ' = [appendQ EXCEPT ![i] = Tail(appendQ[i])]
        /\ net' = net \cup appendQ[i][1].resps /\ UNCHANGED <<raft, pend, elected>>
    BY <1>3 DEF ProcessAppend
  <2>2. 1 \in 1..Len(appendQ[i])
    BY <1>1, <2>1
  <2>3. \A j \in Server : \A k \in 1..Len(appendQ'[j]) :
          \E l \in 1..Len(appendQ[j]) : appendQ'[j][k] = appendQ[j][l]
    <3>1. \A k \in 1..Len(Tail(appendQ[i])) :
            k + 1 \in 1..Len(appendQ[i]) /\ Tail(appendQ[i])[k] = appendQ[i][k + 1]
      BY <1>1, <2>1
    <3>. QED
      BY <1>1, <2>1, <3>1
  <2>. QED
    BY <2>1, <2>2, <2>3 DEF LeadInv
<1>4. CASE Restart(i)
  <2>1. /\ \A j \in Server \ {i} : /\ raft'[j] = raft[j] /\ pend'[j] = pend[j]
                                   /\ appendQ'[j] = appendQ[j]
        /\ raft'[i].state = "StateFollower" /\ raft'[i].lead = None
        /\ pend'[i] = {} /\ appendQ'[i] = << >> /\ Len(appendQ'[i]) = 0
        /\ UNCHANGED <<net, elected>>
    BY <1>1, <1>4 DEF Restart
  <2>2. LeadRecord(i, raft'[i], elected')
    BY <2>1 DEF LeadRecord
  <2>. QED
    BY <2>1, <2>2 DEF LeadInv
<1>. QED
  BY <1>2, <1>3, <1>4

\* Every step preserves the invariant.
LEMMA LeadNext == IndType /\ LeadInv /\ [Next]_vars => LeadInv'
<1>. SUFFICES ASSUME IndType, LeadInv, [Next]_vars PROVE LeadInv'
  OBVIOUS
<1>1. CASE UNCHANGED vars
  BY <1>1 DEF vars, LeadInv
<1>2. ASSUME NEW i \in Server, NEW m \in net, m.to = i, Receive(i, m)
      PROVE  LeadInv'
  <2>1. m \in Message
    BY DEF IndType, TypeOK
  <2>2. CASE HandleStorageAppendResp(i, m)
    <3>1. UNCHANGED <<raft, pend, net, appendQ, elected>>
      BY <2>2 DEF HandleStorageAppendResp
    <3>. QED
      BY <3>1 DEF LeadInv
  <2>3. CASE HandleProp(i, m)
    BY <2>3, LeadLocal DEF HandleProp
  <2>4. CASE HandleTransferLeader(i, m)
    BY <2>1, <2>4, MessageTerm, LeadLocal DEF HandleTransferLeader, TransferLeader
  <2>5. CASE HandleVote(i, m) \/ HandleTimeoutNow(i, m)
    BY <2>1, <2>5, LeadVote, LeadTimeoutNow
  <2>6. CASE PollPending(i, m) \/ PollLost(i, m) \/ PollPreVoteWon(i, m) \/ PollWon(i, m)
    BY <2>1, <2>6, LeadPoll
  <2>7. CASE \/ StepDown(i, m) \/ StepLowerTerm(i, m) \/ HandleAppendEntries(i, m)
             \/ HandleHeartbeat(i, m) \/ HandleSnapshot(i, m)
    BY <1>2, <2>7, LeadTerms, LeadFollowers
  <2>8. CASE \/ HandleAppendReject(i, m) \/ HandleAppendAck(i, m)
             \/ HandleHeartbeatResp(i, m)
    BY <1>2, <2>8, LeadLeaders, LeadAck
  <2>. QED
    BY <1>2, <2>2, <2>3, <2>4, <2>5, <2>6, <2>7, <2>8 DEF Receive
<1>3. ASSUME NEW i \in Server, Local(i)
      PROVE  LeadInv'
  <2>1. CASE Campaign(i)
    BY <2>1, ServerFacts, LeadCampaign DEF Campaign
  <2>2. CASE \E j \in Server : \/ ReportUnreachable(i, j)
                               \/ \E failed \in BOOLEAN : ReportSnapshot(i, j, failed)
    <3>1. UNCHANGED <<raft, pend, net, appendQ, elected>>
      BY <2>2 DEF ReportUnreachable, ReportSnapshot
    <3>. QED
      BY <3>1 DEF LeadInv
  <2>. QED
    BY <1>3, <2>1, <2>2, LeadTimers, LeadLocal DEF Local, Propose
<1>4. ASSUME NEW i \in Server, Durability(i)
      PROVE  LeadInv'
  <2>1. CASE \E k : CreateSnapshot(i, k) \/ Compact(i, k)
    <3>1. UNCHANGED <<raft, pend, net, appendQ, elected>>
      BY <2>1 DEF CreateSnapshot, Compact
    <3>. QED
      BY <3>1 DEF LeadInv
  <2>. QED
    BY <1>4, <2>1, LeadDurability DEF Durability
<1>. QED
  BY <1>1, <1>2, <1>3, <1>4 DEF Next

(***************************************************************************)
(* Whatever a server takes for a leader was elected in that term, and the  *)
(* same holds of the sender of every MsgApp, MsgHeartbeat and MsgSnap and  *)
(* of the addressee of every forwarded transfer request.                   *)
(***************************************************************************)
THEOREM LeadInductive == Spec => []LeadInv
<1>1. Init => LeadInv
  BY DEF Init, LeadInv, LeadRecord
<1>. QED
  BY <1>1, TypeInductive, LeadNext, PTL DEF Spec

\* r.lead is never a guess: in every reachable state it names the server that
\* won the election of r.Term, with asynchronous storage writes too.
THEOREM LeadIsTrue == Spec => []LeadIsElected
<1>1. LeadInv => LeadIsElected
  BY DEF LeadInv, LeadRecord, LeadIsElected
<1>. QED
  BY <1>1, LeadInductive, PTL

\* The panic of send on a forwarded MsgTransferLeader is unreachable: the one
\* server it is sent to cannot be a follower of somebody else in that term.
THEOREM ForwardNeverPanics == Spec => []NoForwardPanic
<1>1. IndType /\ LeadInv /\ ElectionSafety => NoForwardPanic
  <2>. SUFFICES ASSUME IndType, LeadInv, ElectionSafety, NEW m \in net,
                       m.type = "MsgTransferLeader", m.term = raft[m.to].Term,
                       raft[m.to].state = "StateFollower", raft[m.to].lead # None
                PROVE  FALSE
    BY DEF NoForwardPanic
  <2>1. m.to \in Server
    BY MessageTerm DEF IndType, TypeOK
  <2>2. /\ <<m.term, m.to>> \in elected /\ <<m.term, raft[m.to].lead>> \in elected
        /\ raft[m.to].lead # m.to
    BY <2>1 DEF LeadInv, LeadRecord, LeadMsg
  <2>3. \A t, x, y : <<t, x>> \in elected /\ <<t, y>> \in elected => x = y
    BY DEF ElectionSafety
  <2>. QED
    BY <2>2, <2>3
<1>. QED
  BY <1>1, TypeInductive, LeadInductive, ElectionIsSafe, PTL
=============================================================================
