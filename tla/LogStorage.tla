----------------------------- MODULE LogStorage -----------------------------
(***************************************************************************)
(* One server's log in its two halves (unstable over Storage), the cursors *)
(* of what is being applied, and the two threads that do the work: append  *)
(* (entries, HardState, snapshots) and apply (committed entries), with     *)
(* Ready/Advance or with asynchronous storage writes. The other servers    *)
(* are a world of leaders, one per term at most, whose logs obey Raft.     *)
(***************************************************************************)
EXTENDS Integers, Sequences

CONSTANTS
    Worlds,                    \* what the cluster does, see ValidWorld
    MaxCommittedSizePerReady,  \* Config.MaxCommittedSizePerReady
    MaxUncommittedSize,        \* Config.MaxUncommittedEntriesSize
    CarefulSnapshots,          \* snapshots are taken only up to the saved commit index
    MaxQueue,                  \* bound: messages waiting for one thread
    MaxCrashes                 \* bound: crashes in a behaviour

VARIABLES
    world,     \* chosen in Init: [async, log, commit, mine]
    rn,        \* the RawNode: raft, its raftLog and the unstable log
    ms,        \* MemoryStorage
    appendQ,   \* MsgStorageAppends (or the Ready) waiting to be saved
    applyQ,    \* committed entries waiting to be applied
    appendResps, applyResps,   \* the threads' responses on their way to raft
    sm,        \* the index the state machine has applied
    crashes

vars == <<world, rn, ms, appendQ, applyQ, appendResps, applyResps, sm, crashes>>

-----------------------------------------------------------------------------
(* Entries and sizes.                                                      *)

Entry == [term : Nat, size : Nat]        \* size: the length of Data

payloadsSize(ents) ==
    LET sum[i \in 0..Len(ents)] == IF i = 0 THEN 0 ELSE sum[i - 1] + ents[i].size
    IN  sum[Len(ents)]
entsSize(ents) == payloadsSize(ents) + Len(ents)    \* one for what is not Data

\* The longest prefix within maxSize, at least one entry.
limitSize(ents, maxSize) ==
    LET fits == {n \in 1..Len(ents) : n = 1 \/ entsSize(SubSeq(ents, 1, n)) <= maxSize}
    IN  SubSeq(ents, 1, CHOOSE n \in fits \cup {0} : \A k \in fits : k <= n)

NoSnap  == [index |-> 0, term |-> 0]
EmptyHardState == [Term |-> 0, commit |-> 0]
Missing == [term |-> 0, size |-> 0]      \* what a read outside the log returns
MinOf(a, b) == IF a <= b THEN a ELSE b
MaxOf(a, b) == IF a >= b THEN a ELSE b

(***************************************************************************)
(* The leader of a term has a prefix of an earlier leader's log, all that  *)
(* earlier leaders may commit, and its own entries, the first one empty.   *)
(***************************************************************************)
Agree(k, a, b) == k <= Len(a) /\ k <= Len(b) /\ SubSeq(a, 1, k) = SubSeq(b, 1, k)

ValidWorld(w) ==
    /\ w.log \in Seq(Seq(Entry)) /\ w.async \in BOOLEAN /\ w.mine \subseteq DOMAIN w.log
    /\ \A t \in DOMAIN w.log :
        /\ w.commit[t] \in 0..Len(w.log[t])
        /\ w.log[t] # << >> =>
            \E k \in 0..(Len(w.log[t]) - 1) :
                /\ k = 0 \/ \E s \in 1..(t - 1) : Agree(k, w.log[s], w.log[t])
                /\ w.log[t][k + 1] = [term |-> t, size |-> 0]
                /\ \A i \in (k + 1)..Len(w.log[t]) : w.log[t][i].term = t
        /\ \A s \in 1..(t - 1) : w.log[t] # << >> => Agree(w.commit[s], w.log[s], w.log[t])

ASSUME WorldAssumption == \A w \in Worlds : ValidWorld(w)
ASSUME LimitAssumption ==
    /\ MaxCommittedSizePerReady \in Nat \ {0} /\ MaxUncommittedSize \in Nat
    /\ MaxQueue \in Nat \ {0} /\ MaxCrashes \in Nat /\ CarefulSnapshots \in BOOLEAN

-----------------------------------------------------------------------------
(* MemoryStorage: hs is the HardState, index and term the dummy entry.     *)

NewMemoryStorage ==
    [hs |-> EmptyHardState, snapshot |-> NoSnap,
     index |-> 0, term |-> 0, ents |-> << >>]

storageLast(m) == m.index + Len(m.ents)

StorageTerm(m, i) ==
    IF i = m.index THEN m.term
    ELSE IF i \in (m.index + 1)..storageLast(m) THEN m.ents[i - m.index].term ELSE 0

ApplySnapshot(m, s) ==
    IF m.snapshot.index # 0 /\ m.snapshot.index >= s.index THEN m
    ELSE [m EXCEPT !.snapshot = s, !.index = s.index, !.term = s.term, !.ents = << >>]

\* StorageAppend after a gap is a panic, see NoPanic.
StorageAppend(m, from, ents) ==
    LET first == m.index + 1
        skip  == IF first > from THEN first - from ELSE 0
    IN  IF Len(ents) <= skip THEN m
        ELSE [m EXCEPT !.ents = SubSeq(@, 1, from + skip - first)
                                  \o SubSeq(ents, skip + 1, Len(ents))]

(***************************************************************************)
(* saveToStorage of the application: the HardState, the snapshot, the      *)
(* entries. A Ready can carry both of the last two (a MsgApp is stepped    *)
(* after a MsgSnap, before the Ready); rafttest's processAppend refuses    *)
(* such a Ready. The parts matter to a crash only (Torn): raft does not    *)
(* read the HardState again, and reads from its unstable log whatever is   *)
(* being written.                                                          *)
(***************************************************************************)
Written(m, w) ==
    LET m1 == IF w.hs = EmptyHardState THEN m ELSE [m EXCEPT !.hs = w.hs]
        m2 == IF w.snapshot = NoSnap THEN m1 ELSE ApplySnapshot(m1, w.snapshot)
    IN  StorageAppend(m2, w.from, w.ents)

\* Mutant: the HardState is saved first, then the entries, as processAppend does.
Torn_HardStateFirst(m, w) ==
    IF w.hs # EmptyHardState /\ w.snapshot = NoSnap THEN [m EXCEPT !.hs = w.hs] ELSE m

\* What a crash in the middle of a save leaves: entries are saved before the
\* HardState (README.md, "Entries first"); a snapshot, the HardState and the entries
\* above it only together, in one atomic write.
Torn(m, w) == IF w.snapshot = NoSnap THEN StorageAppend(m, w.from, w.ents) ELSE m

-----------------------------------------------------------------------------
(* raftLog: reads go to the unstable log first, then to Storage.           *)

unstableLast(r) == r.offset + Len(r.entries) - 1

firstIndex(r, m) == IF r.snapshot # NoSnap THEN r.snapshot.index + 1 ELSE m.index + 1

lastIndex(r, m) ==
    IF r.entries # << >> THEN unstableLast(r)
    ELSE IF r.snapshot # NoSnap THEN r.snapshot.index ELSE storageLast(m)

term(r, m, i) ==
    IF i \notin (firstIndex(r, m) - 1)..lastIndex(r, m) THEN 0
    ELSE IF i \in r.offset..unstableLast(r) THEN r.entries[i - r.offset + 1].term
    ELSE IF r.snapshot # NoSnap /\ i = r.snapshot.index THEN r.snapshot.term
    ELSE StorageTerm(m, i)

entryAt(r, m, i) ==
    IF i >= r.offset
    THEN IF i <= unstableLast(r) THEN r.entries[i - r.offset + 1] ELSE Missing
    ELSE IF i \in (m.index + 1)..storageLast(m) THEN m.ents[i - m.index] ELSE Missing

slice(r, m, lo, hi) == [k \in 1..(hi - lo) |-> entryAt(r, m, lo + k - 1)]

-----------------------------------------------------------------------------
(* The unstable log.                                                       *)

nextEntries(r)     == SubSeq(r.entries, r.offsetInProgress - r.offset + 1, Len(r.entries))
hasNextSnapshot(r) == r.snapshot # NoSnap /\ ~r.snapshotInProgress

acceptInProgress(r) ==
    [r EXCEPT !.offsetInProgress = IF r.entries = << >> THEN @ ELSE unstableLast(r) + 1,
              !.snapshotInProgress = r.snapshot # NoSnap]

stableTo(r, index, logTerm) ==
    IF index \notin r.offset..unstableLast(r) \/ r.entries[index - r.offset + 1].term # logTerm
    THEN r
    ELSE [r EXCEPT !.entries = SubSeq(@, index + 2 - r.offset, Len(@)),
                   !.offset  = index + 1,
                   !.offsetInProgress = MaxOf(@, index + 1)]

stableSnapTo(r, i) ==
    IF r.snapshot = NoSnap \/ r.snapshot.index # i THEN r
    ELSE [r EXCEPT !.snapshot = NoSnap, !.snapshotInProgress = FALSE]

unstableRestore(r, s) ==
    [r EXCEPT !.offset = s.index + 1, !.offsetInProgress = s.index + 1,
              !.entries = << >>, !.snapshot = s, !.snapshotInProgress = FALSE]

\* Mutant: a truncation leaves the mark of what is being written where it was.
truncateAndAppend_KeepInProgress(r, from, ents) ==
    IF from = unstableLast(r) + 1 THEN [r EXCEPT !.entries = @ \o ents]
    ELSE IF from <= r.offset THEN [r EXCEPT !.entries = ents, !.offset = from]
    ELSE [r EXCEPT !.entries = SubSeq(@, 1, from - r.offset) \o ents]

truncateAndAppend(r, from, ents) ==
    IF from = unstableLast(r) + 1 THEN [r EXCEPT !.entries = @ \o ents]
    ELSE IF from <= r.offset
    THEN [r EXCEPT !.entries = ents, !.offset = from, !.offsetInProgress = from]
    ELSE [r EXCEPT !.entries = SubSeq(@, 1, from - r.offset) \o ents,
                   !.offsetInProgress = MinOf(@, from)]

-----------------------------------------------------------------------------
(* The cursors: applied <= applying <= committed.                          *)

commitTo(r, c) == [r EXCEPT !.committed = MaxOf(@, c)]

\* Only without asynchronous writes are entries applied before they are stable.
maxAppliableIndex(r) ==
    IF world.async THEN MinOf(r.committed, r.offset - 1) ELSE r.committed

hasNextCommittedEnts(r) ==
    ~r.applyingEntsPaused /\ r.snapshot = NoSnap /\ r.applying < maxAppliableIndex(r)

nextCommittedEnts(r, m) ==
    IF ~hasNextCommittedEnts(r) THEN << >>
    ELSE limitSize(slice(r, m, r.applying + 1, maxAppliableIndex(r) + 1),
                   MaxCommittedSizePerReady - r.applyingEntsSize)

\* Mutant: a batch cut short by its size counts as all that could be applied.
acceptApplying_Uncut(r, i, size) ==
    [r EXCEPT !.applying = maxAppliableIndex(r), !.applyingEntsSize = @ + size,
              !.applyingEntsPaused = r.applyingEntsSize + size >= MaxCommittedSizePerReady]

acceptApplying(r, i, size) ==
    LET total == r.applyingEntsSize + size
    IN  [r EXCEPT !.applying = i, !.applyingEntsSize = total,
                  !.applyingEntsPaused = \/ total >= MaxCommittedSizePerReady
                                         \/ i < maxAppliableIndex(r)]

\* Mutant: the size of a batch is given back only when it was the last one.
appliedTo_Leak(r, index, size) ==
    LET i == MaxOf(index, r.applied)
    IN  [r EXCEPT !.applied = i, !.applying = MaxOf(@, i),
                  !.applyingEntsSize = IF i = r.applying THEN 0 ELSE @,
                  !.applyingEntsPaused = FALSE]

\* raft.appliedTo over raftLog.appliedTo; the index never moves back.
appliedTo(r, index, size) ==
    LET i    == MaxOf(index, r.applied)
        left == IF r.applyingEntsSize > size THEN r.applyingEntsSize - size ELSE 0
    IN  [r EXCEPT !.applied = i, !.applying = MaxOf(@, i), !.applyingEntsSize = left,
                  !.applyingEntsPaused = left >= MaxCommittedSizePerReady]

appliedSnap(r, s) == appliedTo(stableSnapTo(r, s.index), s.index, 0)

reduceUncommittedSize(r, s) ==
    [r EXCEPT !.uncommittedSize = IF s > @ THEN 0 ELSE @ - s]

increaseUncommittedSize(r, s) == [r EXCEPT !.uncommittedSize = @ + s]

wouldExceed(r, s) ==
    r.uncommittedSize > 0 /\ s > 0 /\ r.uncommittedSize + s > MaxUncommittedSize

-----------------------------------------------------------------------------
(* A node that starts from Storage, with Config.Applied at its snapshot.   *)

newRaft(m) ==
    [Term |-> m.hs.Term, state |-> "StateFollower", uncommittedSize |-> 0,
     committed |-> m.hs.commit, applied |-> MaxOf(m.index, m.snapshot.index),
     applying |-> MaxOf(m.index, m.snapshot.index),
     applyingEntsSize |-> 0, applyingEntsPaused |-> FALSE,
     snapshot |-> NoSnap, snapshotInProgress |-> FALSE,
     entries |-> << >>, offset |-> storageLast(m) + 1, offsetInProgress |-> storageLast(m) + 1,
     prevHardSt |-> m.hs, advancing |-> FALSE, stepsOnAdvance |-> << >>]

Init ==
    /\ world \in Worlds
    /\ ms = NewMemoryStorage
    /\ rn = newRaft(NewMemoryStorage)
    /\ appendQ = << >> /\ applyQ = << >> /\ appendResps = << >> /\ applyResps = << >>
    /\ sm = 0 /\ crashes = 0

Quiet  == UNCHANGED <<world, ms, appendQ, applyQ, appendResps, applyResps, sm, crashes>>
Leader == world.log[rn.Term]     \* the log of the leader of our term

-----------------------------------------------------------------------------
(* What raft does with its log.                                            *)

\* Mutant: a new term keeps the uncommitted size of the last.
BecomeTerm_KeepSize(t) ==
    /\ t > rn.Term
    /\ rn' = [rn EXCEPT !.Term = t,
                        !.state = IF t \in world.mine THEN "StateCandidate" ELSE "StateFollower"]
    /\ Quiet

\* A higher term is seen, or begun by a campaign; reset clears uncommittedSize.
BecomeTerm(t) ==
    /\ t > rn.Term
    /\ rn' = [rn EXCEPT !.Term = t, !.uncommittedSize = 0,
                        !.state = IF t \in world.mine THEN "StateCandidate" ELSE "StateFollower"]
    /\ Quiet

appendEntry(r, m, e) ==
    truncateAndAppend(increaseUncommittedSize(r, e.size), lastIndex(r, m) + 1, <<e>>)

\* The winner has exactly the log its world gives it, and saved its own vote.
BecomeLeader ==
    LET last == lastIndex(rn, ms)
    IN  /\ rn.state = "StateCandidate" /\ ms.hs.Term = rn.Term
        /\ last < Len(Leader) /\ Leader[last + 1].term = rn.Term
        /\ \A i \in firstIndex(rn, ms)..last : entryAt(rn, ms, i) = Leader[i]
        /\ rn' = appendEntry([rn EXCEPT !.state = "StateLeader"], ms, Leader[last + 1])
        /\ Quiet

Propose ==
    LET last == lastIndex(rn, ms)
    IN  /\ rn.state = "StateLeader" /\ last < Len(Leader)
        /\ ~wouldExceed(rn, Leader[last + 1].size)
        /\ rn' = appendEntry(rn, ms, Leader[last + 1])
        /\ Quiet

LeaderCommit(c) ==
    /\ rn.state = "StateLeader"
    /\ c \in (rn.committed + 1)..world.commit[rn.Term]
    /\ c <= lastIndex(rn, ms) /\ term(rn, ms, c) = rn.Term
    /\ rn' = commitTo(rn, c)
    /\ Quiet

\* findConflict: the first of the leader's entries that does not match.
conflict(prev, last) ==
    LET C == {i \in (prev + 1)..last : term(rn, ms, i) # Leader[i].term}
    IN  IF C = {} THEN 0 ELSE CHOOSE i \in C : \A j \in C : i <= j

\* A MsgApp with the leader's entries prev+1..last, old or new. A commit index
\* that is no news counts as 0, one beyond the message as its last index.
HandleAppendEntries(prev, last, c) ==
    LET ci == conflict(prev, last)
    IN  /\ rn.Term \notin world.mine
        /\ prev \in 0..Len(Leader) /\ last \in prev..Len(Leader)
        /\ c \in {0} \cup (rn.committed + 1)..MinOf(world.commit[rn.Term], last)
        /\ prev >= rn.committed
        /\ prev > 0 => term(rn, ms, prev) = Leader[prev].term
        /\ rn' = commitTo(IF ci = 0 THEN rn
                          ELSE truncateAndAppend(rn, ci, SubSeq(Leader, ci, last)),
                          c)
        /\ Quiet

\* A MsgSnap of something committed: fast-forward, or restore.
HandleSnapshot(i) ==
    LET s == [index |-> i, term |-> Leader[i].term]
    IN  /\ rn.Term \notin world.mine
        /\ i \in (rn.committed + 1)..world.commit[rn.Term]
        /\ rn' = IF term(rn, ms, i) = s.term THEN commitTo(rn, i)
                 ELSE unstableRestore([rn EXCEPT !.committed = i], s)
        /\ Quiet

-----------------------------------------------------------------------------
(* Ready and the two threads. Each works off its messages in order, and    *)
(* its responses reach raft in order; the two are independent.             *)

hardState(r) == [Term |-> r.Term, commit |-> r.committed]

HasReady ==
    \/ hardState(rn) # rn.prevHardSt
    \/ hasNextSnapshot(rn)
    \/ nextEntries(rn) # << >>
    \/ hasNextCommittedEnts(rn)

\* newStorageAppendRespMsg: index 0 stands for an absent index.
AppendResp(r, m) ==
    [type |-> "MsgStorageAppendResp", term |-> r.Term,
     index   |-> IF r.entries = << >> THEN 0 ELSE lastIndex(r, m),
     logTerm |-> IF r.entries = << >> THEN 0 ELSE term(r, m, lastIndex(r, m)),
     snapshot |-> IF hasNextSnapshot(r) THEN r.snapshot ELSE NoSnap]

\* Mutant: only a Ready with entries of its own is answered.
needStorageAppendResp_OwnEntries(r) == nextEntries(r) # << >> \/ hasNextSnapshot(r)

needStorageAppendResp(r) == r.entries # << >> \/ hasNextSnapshot(r)

ApplyResp(ents, from) == [type |-> "MsgStorageApplyResp", ents |-> ents, from |-> from]

NewAppendMsg(r, m) ==
    [hs |-> IF hardState(r) = r.prevHardSt THEN EmptyHardState ELSE hardState(r),
     snapshot |-> IF hasNextSnapshot(r) THEN r.snapshot ELSE NoSnap,
     from |-> r.offsetInProgress, ents |-> nextEntries(r),
     resps |-> IF needStorageAppendResp(r) THEN <<AppendResp(r, m)>> ELSE << >>]

needStorageAppend(w) == w.hs # EmptyHardState \/ w.snapshot # NoSnap \/ w.ents # << >>

Accepted(r, m, ents) ==
    LET r1 == acceptInProgress([r EXCEPT !.prevHardSt = hardState(r)])
        r2 == IF ents = << >> THEN r1
              ELSE acceptApplying(r1, r.applying + Len(ents), entsSize(ents))
    IN  IF world.async THEN r2
        ELSE [r2 EXCEPT !.advancing = TRUE,
                        !.stepsOnAdvance =
                           NewAppendMsg(r, m).resps
                             \o (IF ents = << >> THEN << >>
                                 ELSE <<ApplyResp(ents, r.applying + 1)>>)]

Ready ==
    LET w    == NewAppendMsg(rn, ms)
        ents == nextCommittedEnts(rn, ms)
    IN  /\ HasReady /\ ~rn.advancing
        /\ Len(appendQ) < MaxQueue /\ Len(applyQ) < MaxQueue
        /\ rn' = Accepted(rn, ms, ents)
        /\ appendQ' = IF needStorageAppend(w) THEN Append(appendQ, w) ELSE appendQ
        /\ applyQ'  = IF ents = << >> THEN applyQ
                      ELSE Append(applyQ, ApplyResp(ents, rn.applying + 1))
        /\ UNCHANGED <<world, ms, appendResps, applyResps, sm, crashes>>

ProcessAppend ==
    /\ appendQ # << >>
    /\ ms' = Written(ms, Head(appendQ))
    /\ sm' = MaxOf(sm, Head(appendQ).snapshot.index)
    /\ appendQ' = Tail(appendQ)
    /\ appendResps' = IF world.async THEN appendResps \o Head(appendQ).resps ELSE appendResps
    /\ UNCHANGED <<world, rn, applyQ, applyResps, crashes>>

ProcessApply ==
    LET w == Head(applyQ)
    IN  /\ applyQ # << >>
        /\ sm' = MaxOf(sm, w.from + Len(w.ents) - 1)
        /\ applyQ' = Tail(applyQ)
        /\ applyResps' = IF world.async THEN Append(applyResps, w) ELSE applyResps
        /\ UNCHANGED <<world, rn, ms, appendQ, appendResps, crashes>>

\* Mutant: a response of an earlier term is taken like any other.
AppendResponded_AnyTerm(r, m) ==
    LET r1 == IF m.index = 0 THEN r ELSE stableTo(r, m.index, m.logTerm)
    IN  IF m.snapshot = NoSnap THEN r1 ELSE appliedSnap(r1, m.snapshot)

\* Step on a MsgStorageAppendResp; of a lower term only the snapshot counts.
AppendResponded(r, m) ==
    LET r1 == IF m.term < r.Term \/ m.index = 0 THEN r ELSE stableTo(r, m.index, m.logTerm)
    IN  IF m.snapshot = NoSnap THEN r1 ELSE appliedSnap(r1, m.snapshot)

ApplyResponded(r, m) ==
    reduceUncommittedSize(appliedTo(r, m.from + Len(m.ents) - 1, entsSize(m.ents)),
                          payloadsSize(m.ents))

Stepped(r, m) ==
    IF m.type = "MsgStorageAppendResp" THEN AppendResponded(r, m) ELSE ApplyResponded(r, m)

StepAppendResp ==
    /\ appendResps # << >>
    /\ rn' = Stepped(rn, Head(appendResps))
    /\ appendResps' = Tail(appendResps)
    /\ UNCHANGED <<world, ms, appendQ, applyQ, applyResps, sm, crashes>>

StepApplyResp ==
    /\ applyResps # << >>
    /\ rn' = Stepped(rn, Head(applyResps))
    /\ applyResps' = Tail(applyResps)
    /\ UNCHANGED <<world, ms, appendQ, applyQ, appendResps, sm, crashes>>

\* At any time after the Ready is saved, applied or not.
Advance ==
    LET steps == rn.stepsOnAdvance
        after[k \in 0..Len(steps)] == IF k = 0 THEN rn ELSE Stepped(after[k - 1], steps[k])
    IN  /\ rn.advancing /\ appendQ = << >>
        /\ rn' = [after[Len(steps)] EXCEPT !.advancing = FALSE, !.stepsOnAdvance = << >>]
        /\ Quiet

-----------------------------------------------------------------------------
(* The application's snapshots, and crashes.                               *)

CreateSnapshot(i) ==
    /\ i > ms.snapshot.index /\ i <= sm
    /\ CarefulSnapshots => i <= ms.hs.commit
    /\ ms' = [ms EXCEPT !.snapshot = [index |-> i, term |-> StorageTerm(ms, i)]]
    /\ UNCHANGED <<world, rn, appendQ, applyQ, appendResps, applyResps, sm, crashes>>

Compact(i) ==
    /\ i > ms.index /\ i <= ms.snapshot.index /\ i <= rn.applied
    /\ ms' = [ms EXCEPT !.index = i, !.term = StorageTerm(ms, i),
                        !.ents = SubSeq(@, i - ms.index + 1, Len(@))]
    /\ UNCHANGED <<world, rn, appendQ, applyQ, appendResps, applyResps, sm, crashes>>

\* The saved commit index lies within the saved log and covers the snapshot:
\* otherwise loadState or appliedTo panics.
CanRestart(m) == MaxOf(m.index, m.snapshot.index) <= m.hs.commit /\ m.hs.commit <= storageLast(m)

\* A crash comes between two saves, or in the middle of one.
CrashDisks == {ms} \cup {Torn(ms, appendQ[k]) : k \in DOMAIN appendQ \cap {1}}

Restart ==
    /\ crashes < MaxCrashes
    /\ \E m \in CrashDisks :
        /\ CanRestart(m)
        /\ ms' = m
        /\ rn' = newRaft(m)
        /\ sm' = m.snapshot.index
    /\ appendQ' = << >> /\ applyQ' = << >> /\ appendResps' = << >> /\ applyResps' = << >>
    /\ crashes' = crashes + 1
    /\ UNCHANGED <<world>>

RaftStep ==
    \/ \E t \in DOMAIN world.log : BecomeTerm(t)
    \/ BecomeLeader
    \/ Propose
    \/ rn.Term > 0 /\ \E i \in 1..Len(Leader) : LeaderCommit(i) \/ HandleSnapshot(i)
    \/ rn.Term > 0 /\ \E p, q, c \in 0..Len(Leader) : HandleAppendEntries(p, q, c)

Next ==
    \/ RaftStep
    \/ Ready \/ Advance
    \/ ProcessAppend \/ ProcessApply
    \/ StepAppendResp \/ StepApplyResp
    \/ \E i \in 1..storageLast(ms) : CreateSnapshot(i) \/ Compact(i)
    \/ Restart

(***************************************************************************)
(* Fairness: the application goes on taking Readys, its two threads work   *)
(* off their queues, the responses reach raft. Nothing is asked of the     *)
(* other servers, of the application's snapshots, or of crashes.           *)
(***************************************************************************)
Fairness ==
    /\ WF_vars(Ready) /\ WF_vars(Advance)
    /\ WF_vars(ProcessAppend) /\ WF_vars(ProcessApply)
    /\ WF_vars(StepAppendResp) /\ WF_vars(StepApplyResp)

Spec == Init /\ [][Next]_vars /\ Fairness

-----------------------------------------------------------------------------
(* Properties.                                                             *)

\* The log in memory and the log on disk, in the terms of DurableLog.
View(r, m) ==
    [Term |-> r.Term, committed |-> r.committed, index |-> firstIndex(r, m) - 1,
     term |-> term(r, m, firstIndex(r, m) - 1),
     ents |-> slice(r, m, firstIndex(r, m), lastIndex(r, m) + 1)]

Stored(m) == [Term |-> m.hs.Term, committed |-> m.hs.commit,
              index |-> m.index, term |-> m.term, ents |-> m.ents]

\* What the disk will hold after each of the queued writes.
Queued ==
    LET after[k \in 0..Len(appendQ)] ==
            IF k = 0 THEN ms ELSE Written(after[k - 1], appendQ[k])
    IN  [k \in DOMAIN appendQ |-> Stored(after[k])]

Durable == INSTANCE DurableLog WITH
    log <- View(rn, ms), disk <- Stored(ms), queue <- Queued

\* The two halves with their partial writes behave as one log in memory and
\* whole logs on their way to disk. In particular raft's log never changes
\* because entries became stable, though a response may name entries that were
\* replaced and written back since (newStorageAppendRespMsg's ABA problem).
ImplementsDurableLog == Durable!Spec

\* What is handed to the apply thread is what the cluster has committed at
\* these indexes, whichever half of the log it was read from; with asynchronous
\* writes it is on disk, or was compacted there; and the state machine misses no
\* entry: each batch starts at or below the index after the last it will have by
\* then, through snapshots and restarts.
AppliedIsCommitted == \A q \in DOMAIN applyQ :
    LET before == IF q = 1 THEN sm ELSE applyQ[q - 1].from + Len(applyQ[q - 1].ents) - 1
    IN  /\ applyQ[q].from <= MaxOf(sm, before) + 1
        /\ \A k \in DOMAIN applyQ[q].ents :
            LET i == applyQ[q].from + k - 1
            IN  /\ \E t \in DOMAIN world.log :
                    i <= world.commit[t] /\ world.log[t][i] = applyQ[q].ents[k]
                /\ world.async =>
                    i <= ms.index \/ entryAt(newRaft(ms), ms, i) = applyQ[q].ents[k]

\* applyingEntsSize is exactly the size of what was handed out and not yet
\* acknowledged, so the limit of MaxCommittedSizePerReady neither leaks nor
\* locks up.
Unacknowledged ==
    LET steps == rn.stepsOnAdvance
        last  == Len(steps)
    IN  IF world.async THEN applyResps \o applyQ
        ELSE IF last > 0 /\ steps[last].type = "MsgStorageApplyResp" THEN <<steps[last]>>
        ELSE << >>
ApplyingSizeIsExact ==
    rn.applyingEntsSize =
        LET sum[i \in 0..Len(Unacknowledged)] ==
                IF i = 0 THEN 0 ELSE sum[i - 1] + entsSize(Unacknowledged[i].ents)
        IN  sum[Len(Unacknowledged)]

\* uncommittedSize never exceeds the payload of the entries that are not yet
\* applied: once all is applied no proposal is refused.
UncommittedSizeIsBounded ==
    LET tail == slice(rn, ms, rn.applied + 1, lastIndex(rn, ms) + 1)
    IN  rn.applied + 1 >= firstIndex(rn, ms) => rn.uncommittedSize <= payloadsSize(tail)

\* No panic of log.go, storage.go or log_unstable.go can be reached: the cursors
\* and the offsets stay in order, writes follow the log without a gap, committed
\* entries can be read when they are wanted, acknowledged indexes are committed.
NoPanic ==
    /\ rn.offset <= rn.offsetInProgress /\ rn.offsetInProgress <= unstableLast(rn) + 1
    /\ rn.applied <= rn.applying /\ rn.applying <= rn.committed
    /\ rn.committed <= lastIndex(rn, ms)
    /\ appendQ # << >> /\ Head(appendQ).ents # << >> /\ Head(appendQ).snapshot = NoSnap
        => Head(appendQ).from <= storageLast(ms) + 1
    /\ hasNextCommittedEnts(rn) =>
        /\ rn.applyingEntsSize < MaxCommittedSizePerReady
        /\ rn.applying + 1 >= firstIndex(rn, ms)
        /\ \A i \in (rn.applying + 1)..maxAppliableIndex(rn) : entryAt(rn, ms, i) # Missing
    /\ \A k \in DOMAIN Unacknowledged :
        Unacknowledged[k].from + Len(Unacknowledged[k].ents) - 1 <= rn.committed

\* loadState's and appliedTo's assertions hold whenever the process may be
\* restarted, after a crash between two saves and in the middle of one: the saved
\* commit index is neither above the saved log nor below the snapshot. This takes
\* an application that saves in the order of Torn and takes no snapshot above the
\* commit index it has saved (CarefulSnapshots).
RestartInRange == \A m \in CrashDisks : CanRestart(m)

\* When the other servers fall silent, the unstable log is drained and all that
\* is committed gets applied: "entries in the unstable log which have been
\* appended to stable storage will eventually be truncated".
Drained ==
    <>[](rn.entries = << >> /\ rn.snapshot = NoSnap /\ rn.applied = rn.committed
         /\ Stored(ms) = View(rn, ms))
=============================================================================
