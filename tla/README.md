# A verification project for the raft library

This directory models the raft library of this repository (a Go implementation
of the Raft consensus protocol, without transport and without a disk of its own)
in TLA+, checks the models with TLC on small instances, and proves the central
facts about quorums, elections, logs, the storage of one server's log, reads and the
event loop of `Node` with TLAPS, for clusters of any size. It is independent of
the older specification under `src/tla/`, which abstracts pre-vote, leases,
snapshots, flow control and asynchronous storage away.

## 1. Inventory

| Component | State | Operations | Hard behaviour | What makes it correct |
|---|---|---|---|---|
| raft state machine (`raft.go`) | Term, Vote, state, lead, leadTransferee, timers | `Step` with one handler per message and role; ticks; `newRaft` | messages lost, repeated, late; crash between decision and write; leases | one winner per term, leader completeness, state-machine safety, r.lead is always a real leader |
| raft log (`log.go`, `types.go`) | entries, first index, committed, applying, applied | `maybeAppend`, `findConflict`, `findConflictByTerm`, `commitTo`, `restore` | stale appends, conflicts, compaction under the reader | log matching; commit index within the log; no panic reachable |
| unstable log (`log_unstable.go`) | offset, entries, snapshot, what is in progress | `truncateAndAppend`, `stableTo`, `acceptInProgress`, `restore` | acknowledgements of overwritten entries | nothing is taken as stable that a write in flight will replace |
| storage (`storage.go`) | HardState, entries, snapshot | `SetHardState`, `Append`, `ApplySnapshot`, `CreateSnapshot`, `Compact` | crash between two of them, and between the parts of one save | a restart always finds a consistent state |
| RawNode (`rawnode.go`) | last SoftState and HardState, pending steps | `Ready`, `acceptReady`, `Advance`, `Step`, reports | asynchronous append and apply threads | no promise leaves before what it promises is durable |
| progress tracker (`tracker/`) | per follower Match, Next, State, sentCommit, window; votes | `Become*`, `MaybeUpdate`, `MaybeDecrTo`, `SentEntries`, tallies | acks and rejections out of order, snapshots that fail | Match < Next, Match is durable at the follower, the window is exact |
| inflights (`tracker/inflights.go`) | ring buffer | `Add`, `FreeLE`, `Full` | wrap-around, growth, both limits | behaves as a bounded FIFO |
| quorum (`quorum/`) | none | `VoteResult`, `CommittedIndex` | even sizes, empty halves, missing answers | equal to the definition by majorities |
| configuration changes (`confchange/`, `raft.go`) | voters, learners, learnersNext, autoLeave; pendingConfIndex | `Simple`, `EnterJoint`, `LeaveJoint`, `Restore`; the check on proposals, `hup`, `applyConfChange`, the automatic leave | long sequences of changes, restart in the middle, servers in different configurations | what is admitted can be applied; consecutive quorums meet; one leader per term, one committed history |
| linearizable reads (`read_only.go`) | queue of requests, acknowledgements | `addRequest`, `recvAck`, `maybeAdvance` | deposed leaders, late acknowledgements | a read sees every commit that was complete when it was asked |
| Node (`node.go`) | channels | `run`, `Tick`, `Propose`, `Advance`, `Stop` | callers, loop and application waiting on each other | no call blocks for ever, Readys are accepted in order |

How they interact: the application (or `node.run`) calls `RawNode`, which calls
`raft.Step`. `Step` changes the raft struct, its log and its tracker, and puts
messages in two queues, `msgs` and `msgsAfterAppend`. `Ready` hands out what has
to be saved and sent; the messages of the second queue may only leave when that
Ready is saved. With `AsyncStorageWrites` the saving is done by an append thread
that answers with messages; without it, by the application before `Advance`.
A server that crashes starts again from `Storage`.

The hazards this leads to are listed one by one, with their lines, in
`PROJECT.json`.

## 2. Modules

| Module | Models | State or content |
|---|---|---|
| `Quorums` | `quorum/` | operators; a configuration is a pair of sets |
| `Progress` | `tracker/progress.go`, with a FIFO for the window | a follower's progress as a record and its transitions |
| `Inflights` | `tracker/inflights.go` | the ring buffer as a record, its methods as operators |
| `RaftLog` | `log.go`, both halves as one | a log as a record `ents, first, committed, snap`; append, conflict search, restore |
| `Raft` | `raft.go` driven by `rawnode.go` over `storage.go` | a cluster with a fixed membership |
| `DurableLog` | abstract | a log in memory, one on disk, whole logs on their way between |
| `LogStorage` | `log.go`, `log_unstable.go`, `storage.go`, `rawnode.go`, both storage threads | one server's log in detail; implements `DurableLog` |
| `Replication` | `maybeSendAppend` and the handlers around it | one leader, one follower, a network |
| `ConfChange` | `confchange/`, `raftpb/confchange.go` | a configuration as a record, the changes as operators |
| `Membership` | how `raft.go` uses `confchange/` | a cluster that changes its configuration; extends `ConfChange` |
| `ReadIndex` | `read_only.go` and the read paths of `raft.go` | a cluster that serves reads |
| `NodeLoop` | `node.go` | `node.run`, its callers and the application |
| `MCRaft`, `MCLogStorage`, `MCReplication`, `MCConfChange`, `MCMembership`, `MCReadIndex` | the instances of the runs | budgets, small sets, histories; `MCConfChange` also the sequence of changes it explores |
| `QuorumProofs` | | majorities, `VoteResult`, `CommittedIndex`, for any finite configuration |
| `ElectionProofs` | | type correctness, election safety, durable votes and known leaders of `Raft` |
| `LogProofs` | | log matching, commits, leader completeness, state-machine safety and the leader's progress records of `Raft` with synchronous writes |
| `LogStorageLemmas` | | the inductive invariant of `LogStorage`, and the steps of raft, of the responses, of `Advance` and of the application's snapshots that keep it |
| `LogStorageProofs` | | `Ready`, the append thread and restarts; from the invariant the safety of `LogStorage`, its refinement of `DurableLog` and its accounts |
| `ReplicationProofs` | | `Match`, the ring and the window of `Replication`, for any start, limits and number of faults |
| `NodeProofs` | | what goes through a Node: the safety of `NodeLoop` for any number of callers; configuration changes and `Restore` (`MCConfChange`) for any servers and any number of changes in one entry |
| `ReadIndexProofs` | | linearizable reads of `ReadIndex` for any configuration of more than one voter |

`Raft` composes `Quorums`, `Progress` and `RaftLog`; `Replication` composes
`RaftLog`, `Progress` and `Inflights`; `Membership` and `ReadIndex` compose
`Quorums` (and `ConfChange`) with as much of the protocol as they need. `Raft`
treats the log of a server and what is on its way to its disk as whole logs;
`DurableLog` states that picture, and `LogStorage` shows that the code, which
writes suffixes and frees entries when they are acknowledged, implements it.

Operators whose name ends in `_Something` and whose comment begins with "Mutant"
are deliberately wrong variants of the definition that follows them; each run's
properties are tested against them.

### The state of module Raft

| Variable | Code |
|---|---|
| `raft[i]` | `Term, Vote, state, lead, leadTransferee` of struct raft; `timedOut` is `electionElapsed >= electionTimeout` at a follower with a leader |
| `votes[i]` | `trk.Votes`; an absent key is `"missing"` |
| `trk[i][j]` | `trk.Progress[j]` |
| `raftLog[i]` | the log raft sees, stable and unstable part together |
| `disk[i]` | what `Storage` holds: HardState, entries, first index, snapshot |
| `pend[i]` | messages that wait for the next Ready (`msgsAfterAppend`, and `msgs` too when writes are synchronous) |
| `appendQ[i]` | the `MsgStorageAppend`s handed to the append thread |
| `net` | every message ever released |
| `elected` | history: who won which term |

One action is one call of `raft.Step` with everything it does: `HandleVote` is
the term check, `becomeFollower`, the vote and its response; `HandleAppendAck`
is the update of the progress, the commit, the broadcast that follows it, the
further sends to the same follower and the end of a leadership transfer.
`Ready`, `ProcessAppend` and `Restart` are the durability steps.

### What Raft abstracts

- A message that was sent stays in `net` and can be delivered at any time and
  any number of times; loss is not delivering it. A server's messages to itself
  travel the same way, which allows more orders than the code does.
- Entries carry a term and a value; sizes are counts (`MaxEntsPerMsg` for
  `MaxSizePerMsg`, `MaxInflight` messages in the window). The byte limits are in
  `Replication`, `uncommittedSize` in `LogStorage`. A `MsgProp` holds one entry.
- A log is stored from index 1 on. Entries below `first` stand for the state the
  snapshot at `first - 1` holds; nothing but snapshots reads them.
- An element of `appendQ` holds the whole log at the time of the Ready, not the
  new entries. Whether the new entries plus what earlier writes left give that
  log is what `LogStorage` answers.
- The commit index is saved with every Ready. `MustSync` allows a crash to lose
  its last change; a server would then restart with a lower commit index.
- A Ready is saved in one atomic write (`Saved`), as `README.md:116` allows. A crash in
  the middle of a save, which `CommitInRange` says nothing of, is in `LogStorage`.
- The membership is fixed, joint or not (`Membership` changes it), so
  `hasUnappliedConfChanges` is false.
- Reads and the contexts of heartbeats are in `ReadIndex`; `ForgetLeader` is
  modelled for `ReadOnlySafe`. `ErrSnapshotTemporarilyUnavailable` is not.
- Timers are nondeterministic: a campaign or a heartbeat can happen whenever its
  guard holds.

### LogStorage and DurableLog

`rn` is a RawNode: `Term`, `state`, `uncommittedSize`, the cursors `committed`,
`applying`, `applied`, the fields of `unstable` (`offset`, `offsetInProgress`,
`entries`, `snapshot`, `snapshotInProgress`) and what `Advance` has to step. `ms`
is MemoryStorage with its dummy entry. `appendQ` and `applyQ` are the messages
to the two threads, `appendResps` and `applyResps` their answers: each thread
works in order and its answers arrive in order, as `raft.go` asks for, and the
two are independent. The actions are the calls into raft that touch the log
(`BecomeTerm`, `BecomeLeader`, `Propose`, `LeaderCommit`, `HandleAppendEntries`,
`HandleSnapshot`), `Ready`, `Advance`, the threads, the steps of their answers,
the application's `CreateSnapshot` and `Compact`, and `Restart`. A save is one step for
raft, which reads what is being written from its unstable log, but a crash may come in
the middle of it (`Torn`, `CrashDisks`): the entries are then on disk and the HardState
is not. A snapshot, the HardState and the entries above it are saved atomically; the run
`save_documented` shows what happens otherwise. The other
servers are a `world`: for each term the log of its leader and how far it may
commit, constrained as Raft's theorems constrain them (`ValidWorld`). This server
may be any of the leaders or a follower of all.

The refinement mapping (`ImplementsDurableLog`): raft's log is what a reader of
`raftLog` sees through both halves (`View`); the disk is Storage; the queued
writes are turned into whole logs by applying them one after the other. Every
step of `LogStorage` is a step of `DurableLog` or changes none of the three; in
particular an acknowledgement by the append thread must not change what raft
sees.

### Replication

`lead` and `fol` are the logs, `pr` the leader's Progress, `ring` the same window
as the code keeps it, `toF` and `toL` the messages in order; `Lose`, `Overtake`
(early, and again later) and `Break` are the faults, `reports` the calls of
`ReportSnapshot` that are due. The leader was just elected (`Starts` are pairs of
logs an election can leave behind) and stays in office. `StartAssumption` says what
that means: the entries are of earlier terms, the logs match, and the leader has what
the follower knows to be committed, which is what `LogMatching` and
`LeaderCompleteness` of `Raft` give; TLC evaluates it on the starts of the run.

### ConfChange and Membership

A configuration is a record with `Voters` as a pair, learners, staged learners,
`AutoLeave` and the Progress map; an error is the value `Refused`. `Membership`
gives every server its own configuration, log, commit and applied index.
`Propose` is the leader's check and append, `ApplyConfChange` and `AppliedTo` the
two calls of the application for a committed change, the second with the
automatic leave. The application proposes what the leader's own configuration could take;
what the check lets through beyond that is what `MCConfChange` explores. An election and an append with its acknowledgement are one step
each, snapshots are left out, a restarted server applies its log again.

### ReadIndex

The fields of `readOnly` (`acks`, `unconfirmedReads`, `confirmedReads`) and
`pendingReadIndexMessages` on top of terms, logs of terms and commit indexes. The
context of a read is a fact about it: the highest index known committed anywhere
when it was asked, which is what the answer is compared with. A restart may fall
back to an older commit index, since `MustSync` does not ask for a write that
only moves it.

### NodeLoop

`run` holds the locals of `node.run` (which channels are armed, the offered
Ready), `call` what each caller waits for, `app` the application's place in its
loop, and `r` the RawNode reduced to how much work it has produced, how much it
takes as handed out, and its leader. A send that meets a receive is one action.
`ProposalsNeedLeader` says when proposals must not be taken. That they are taken again
is not claimed: a node that is removed and added under the same leader keeps `propc` off,
and the comment at `node.go:409` expects as much.

## 3. Runs

| Run | Instance | Shows |
|---|---|---|
| `election` | 3 servers with a leader, pre-vote and check-quorum; 1 campaign, 1 expired timer, 1 lost quorum, 1 transfer | `TypeOK`, `ElectionSafety`, `LeadIsElected`, `NoForwardPanic`, `DurableVote` |
| `logs` | 3 servers, empty or with a leader; 1 campaign, 2 proposals, 1 crash, logs up to 3 | `LogMatching`, `StateMachineSafety`, `LeaderCompleteness` |
| `durable` | incoming {s1,s2,s3}, outgoing {s3}, asynchronous writes, s3 with a slow disk, two Readys in flight; 1 campaign, 1 proposal | `CommittedOnQuorumDisks` |
| `snapshot` | a voter and a learner; 1 proposal, 2 snapshots, compaction, 2 reports, 1 heartbeat, 1 crash, 1 forgotten leader | `ProgressInv`, `CommitInRange`, `MatchIsDurable` |
| `logstorage` | 6 histories of up to 3 leaders, both modes, up to 3 queued messages per thread, 1 crash | `ImplementsDurableLog`, `AppliedIsCommitted`, `NoPanic`, `RestartInRange`, `ApplyingSizeIsExact`, `UncommittedSizeIsBounded`, `Drained` |
| `replication` | a conflicting follower or a compacted leader, logs up to 4, window of 2 messages and 2 bytes, 1 fault | `MatchIsReal`, `RingIsWindow`, `WindowIsOutstanding`, `EventuallyCaughtUp` |
| `confchange` | all configurations of 4 servers reached from none by changes of up to 2 steps | `AdmittedIsApplied`, `RestoreIsExact`, `QuorumsMeet`, `VotersKeepProgress`, `VoteResultIsExact` |
| `membership` | server 1 takes in server 2 and may leave; 3 terms, logs up to 5, 1 restart | `NoRefusedChange`, `OneLeaderPerTerm`, `CommittedAgree`, `AutoLeaveIsProposed` |
| `readindex` | 3 servers, 3 terms, logs up to 3, 2 reads or restarts, 3 messages on their way | `ReadIsFresh`, `ConfirmedWereAsked`, `PostponedAreReleased` |
| `nodeloop` | a proposer, a stepper, two calls of Stop, a leader that comes and goes, both modes | `NothingLost`, `ProposalsNeedLeader`, `CallsReturn`, `Delivered`, `LeaderSeen` |

The runs `async_vote` and `save_documented` end in a violation; see the findings below. `UncommittedSizeIsBounded` is an upper bound only: the code lets the size
fall short of what is uncommitted (`raft.go:2118`), so that the limit may be exceeded
for a while. With the one-message windows of `snapshot` the order inside a window is
idle there; `replication` has windows of two.

Each property is stated in words above its definition. No run checks for deadlock:
when the bounds are spent and every message has had its effect, the bounded
system really stops; that nobody waits for ever is stated as liveness where it
matters.

### The bounds of MCRaft

`MaxTerm`, `MaxLog` and `MaxQueue` bound terms, log lengths and the append
queues. Every kind of external event has a budget (`Budget`), so a run asks what
can go wrong with, say, a campaign, a transfer and a lost quorum under every
delivery of messages. `Delivered` names the message types that are delivered.
`Prompt` names servers that save their Ready and step their own responses before
anyone else moves. Without asynchronous writes that loses no behaviour the others
could see, since nothing of a Ready is out before it is saved; with them, the
servers outside `Prompt` are the slow disks. `LedSpec` starts with a leader of
term 1 whose first entry everyone has committed, a state the code reaches from an
empty cluster by one election; `MCSpec` starts there or with an empty cluster.
The cfgs use symmetry where the servers are interchangeable, and a VIEW that
hides the progress map of servers that do not lead: the code resets it before
they lead again.

### Why the bounds are enough to be interesting

Two candidates of one term need a campaign and a transfer or an expired timer; a
leader that misses a committed entry needs one proposal, a commit and a second
campaign; an overwritten entry that is written back (the ABA problem) needs three
leaders, the first and the third of which share an entry, and the history
`WrittenBack` is the smallest one; a full byte window needs two entries of two
bytes; a ring that wraps needs a window of two and three messages; a
configuration that is left behind needs one change that is committed and not
applied, an election and a second change; a read that a deposed leader answers
needs a second leader and a commit of its own. Every property is violated by a
plausible change of the code under the bounds of its own run (the `mutants` of
`PROJECT.json`).

### Fairness

Only three runs assume fairness.

- `logstorage` (`Drained`): weak fairness of taking Readys, of `Advance`, of both
  threads and of the delivery of their answers. `Ready` and the two threads are
  the application's side of the contract in `doc.go`; nothing is asked of other
  servers. The property is that the unstable log becomes empty and everything
  committed is applied, which is where a lost or ignored acknowledgement would
  show.
- `replication` (`EventuallyCaughtUp`): weak fairness of the leader's heartbeat
  (the clock ticks on), of delivery of what the network has not lost, and of the
  reports of snapshots that `node.go` obliges the application to make. Proposals
  and the peer's acks are not fair. Faults are finitely many, as they have to be.
- `nodeloop`: Go's `select` picks at random among the cases that can proceed, so
  one that stays possible is taken (weak fairness) and so is `Stop`, which becomes
  possible again and again (strong fairness); the application comes back for the
  next Ready and calls `Advance`, as `doc.go` asks. Ticks, proposals and
  cancellations are not fair.

### Findings

- `async_vote` (`LeaderCompleteness`). With asynchronous writes a candidate's
  `MsgVote` leaves before the candidate's term and entries are saved. It can be
  granted on the strength of an entry that the candidate then loses in a crash;
  the candidate campaigns again in the same term with its shorter log, counts the
  old grant, and leads without an entry that is committed. The comment in `send`
  says that sending other messages than responses early is not an issue.
- `save_documented` (`DocumentedOrderRestarts`). `README.md:116` has a Ready saved "in
  order, i.e. Entries first, then HardState and Snapshot". A follower that has restored
  a snapshot gets a HardState that commits the snapshot's index; a crash after the
  HardState and before the Snapshot leaves a commit index beyond the log, and
  `loadState` panics at every start. Atomic writes, which the same paragraph allows, or
  the snapshot before the HardState, avoid it. The test harness's own `processAppend`
  writes the HardState before everything else, under a TODO that doubts this order: the
  mutant `Torn_HardStateFirst` is that order, for entries.

### Observations

Seen with these models and not kept as runs of their own:

- A pre-candidate counts a granted `MsgPreVoteResp` of an earlier pre-campaign
  (`raft.go:1117`), though a comment (`raft.go:1674`) speaks of responses to our
  candidacy only. It costs an election, not safety.
- A heartbeat sets `sentCommit` of a follower in StateSnapshot below
  `PendingSnapshot` (`raft.go:709`), which the comment at `tracker/progress.go:48`
  excludes.
- The steps of handling a Ready "may be performed in parallel, except as noted in step 2"
  (`README.md:114`). An application that applies committed entries, takes a snapshot of
  the result and crashes before the HardState with their commit index is saved finds a
  snapshot above the commit index: `raftLog.appliedTo` panics for a `Config.Applied` at
  the snapshot, and after a compaction so does `loadState`. `MustSync` does not even ask
  for such a HardState to be synced. With `CarefulSnapshots = FALSE`, `logstorage.cfg`
  violates `RestartInRange` in ten states; as it stands, `CarefulSnapshots` is an
  obligation of the application that the documentation does not spell out: snapshots up to
  the saved commit index only.
- Of what the leader admits, with no other change pending, `applyConfChange` panics
  exactly on what its check leaves out (`Unchecked`): a change that removes every voter;
  a change without steps and with an explicit or implicit transition in a joint
  configuration, which `raft.go:1328` takes for a request to leave and
  `ConfChangeV2.LeaveJoint` does not; a joint transition of a group without voters.
  `raft.go:265` calls the check best-effort and announces the panic, so none of this
  contradicts the documentation.
- The same comment says that the check has false negatives because the leader's active
  configuration may trail its log. `NoRefusedChange` finds none of that kind: while a
  change is in the log that the leader has not applied, `pendingConfIndex` lets no other
  in, so that the configuration a change is checked against is the one it is applied
  to. The comment describes `DisableConfChangeValidation`, which turns that off together
  with the check and is not modelled.
- A cluster of one voter answers reads at once (`raft.go:1356`), without the check
  on an entry committed in its term. After a restart that lost an unsynced commit
  index the answer is below what was acknowledged before the crash: `ReadIsFresh`
  fails in `ReadIndex` with one voter.
- A Ready can hold a snapshot and entries; the test harness's `processAppend`
  refuses such a Ready. `LogStorage` saves the snapshot first.
- A leader that has been demoted, and then removes itself in a joint change that
  is left automatically, is no member any more when it proposes the leave: its
  proposal is dropped and it leads on, unless `StepDownOnRemoval` is set.
  `AutoLeaveIsProposed` speaks of members only.
- What keeps elections safe while configurations differ is the check for unapplied
  changes in `hup`: without it `CommittedAgree` fails on two servers.

## 4. Proofs

The theorems about `Raft` hold for every finite set of servers, every joint
configuration with a nonempty incoming half, every combination of PreVote,
CheckQuorum and DisableProposalForwarding, and every window and message size
(`ServerAssumption`, `OptionAssumption`, `MaxInflightAssumption`,
`MaxUint64Assumption`). They are about `Raft!Spec` itself, without the bounds of
`MCRaft`, with crashes, and with messages lost, repeated and reordered. Those of
`ElectionProofs` hold with and without AsyncStorageWrites, those of `LogProofs`
without.

`QuorumProofs`. Two majorities of a set meet (`MajoritiesMeet`). `VoteResult` is
won exactly when the granting servers are a majority of both halves (`JointWon`), and
lost exactly when those who have not refused are not (`JointLost`). Quorums of
configurations that are one change apart meet (`NeighboursMeet`): one voter more or
less moves a majority by less than its overlap, and a joint state asks the half that
it shares with the configuration before and with the one after it.
`CommittedIndex` is the largest index a majority, or a majority of both halves,
has acknowledged (`MajorityCommitted`, `JointCommitted`): the choice by position
in the sorted array is what it should be.

`ElectionProofs`, types. `TypeCorrect`: `Spec => []TypeOK`. The inductive invariant `IndType`
adds that an unstable snapshot lies within the log and at or below the commit
index: without it the Ready that hands out the snapshot, a prefix of the log,
would not be well-formed. The step that matters is that `maybeAppend` cuts the
log only above the commit index.

`ElectionProofs`, votes. `ElectionIsSafe`: `Spec => []ElectionSafety`, and
`DurableVoteHolds`: `Spec => DurableVote`. Election safety alone is not inductive.
`ElectionInv` follows a vote on its way from memory to disk:

- `QueueForward`: from the disk through the queue of the append thread to
  memory, Term never decreases and Vote never changes within a term;
- `GrantsBacked`: a grant in memory is backed by raft's vote, one in the queue by
  the vote of its item, one in the network by the disk, or that record has left
  the term;
- `OneGrantPerTerm`: all grants of one server in one term are for one candidate;
- `CountedGrants`: a candidate has counted only grants that were released;
- `ElectedByQuorum`: the released grants for a winner are a joint quorum.

Two winners of one term have a common granter by `MajoritiesMeet`, which has
granted that term only once. The invariant holds with asynchronous writes too:
what `async_vote` violates is not election safety but the log comparison behind
the grant. TLC checked `ElectionInv` on small instances with and without asynchronous
writes before it was proved; the runs check `ElectionSafety` without a crash, the
proof covers crashes as well.

The second invariant of the module, `LeadInv`, says that a leader, a known leader
and every message that only a leader sends come from a server that has won that
term. It gives `LeadIsTrue` (`LeadIsElected`) and `ForwardNeverPanics`
(`NoForwardPanic`).

`LogProofs`. From `LogInductive`, `Spec => []LogInv`, follow `LogsMatch`
(`LogMatching`), `StateMachinesAgree` (`StateMachineSafety`), `LeadersAreComplete`
(`LeaderCompleteness`), `CommittedIsDurable` (`CommittedOnQuorumDisks`),
`CommitIsInRange` (`CommitInRange`) and `MatchIsOnDisk` (`MatchIsDurable`). All of
them assume `~AsyncStorageWrites`. The assumption is not for convenience: with
asynchronous writes the run `async_vote` violates `LeaderCompleteness`, so that the
theorems would be false. (`durable` checks `CommittedOnQuorumDisks` with asynchronous
writes, the theorem proves it without.)

The argument needs the last log of each term's leader, which no variable keeps;
`LogInv` says that some `LL`, a log for every term, fits the state:

- `Sound`: every log, in memory, in the append queue, on disk or in a message, is up
  to each of its entries the log of the leader that made the entry;
- `Backed`: every commit index and every snapshot is covered by an entry that a
  leader made in its own term and a joint quorum acknowledged (`Certified`);
- `Kept`: what a server acknowledged in a term it still has, in memory and on disk,
  except where the entry can never be committed any more, because a quorum has left
  the term without acknowledging it (`Refuted`);
- `Informed`: whoever granted a candidate its vote has acknowledged nothing of an
  earlier term that can still be committed and that the candidate lacks;
- `Complete`: the log of a later leader has everything of an earlier leader's own
  entries that can still be committed;
- `MatchOf`: a leader's Match was acknowledged.

`SyncInv` is where synchronous writes enter: one write is on its way at a time, so
the acknowledgements that wait for a write were made after the write before it, and
a grant is compared with a log that no older write can bring back. `RangeInv` orders the commit
indexes of disk, queue and memory. A certified entry is not refuted, because two
joint quorums meet; so a later leader has it, and two commit indexes lie on one
leader's log. The steps are grouped by what they do to a server: those that change
only its memory (`MemKeeps`) and those that write its disk (`DiskKeeps`).

`ProgressIsSound` (`ProgressInv`) is proved beside them from one more invariant,
`TrackInv`: for a leader, every progress record is sound for the log it has
(`ProgressSound`: besides what `ProgressInv` says, a window only in StateReplicate and a
pending snapshot within the log), and for every server the snapshot that
Storage would hand out lies between the beginning and the end of the log. The second
part is what `becomeSnapshot` needs, and holds for servers that do not lead because
they may lead later. The rest comes from the invariants above: what a follower
acknowledged is in the leader's log, so Match cannot pass its end.

`LogStorageLemmas` and `LogStorageProofs`. The theorems hold for every set of
histories that satisfies `ValidWorld`, entries of any size, every limit, any number of
queued writes and crashes, and both modes (`WorldAssumption`, `LimitAssumption`).
None of the properties is inductive: a write that is queued is right or wrong
by what the writes before it leave on disk, and a response by what is
overwritten after it was sent. `LogsAreWhole` says that there are a log `G`, and logs
`D[k]` and HardStates `H[k]`, for the disk now (`k = 0`) and after each of the queued
writes, such that

- `Memory`: `G` is what raft has: made of leaders' logs, committed as far as it says,
  the leader's own if it leads; `unstable.entries` is its tail;
- `Disks`: Storage is `D[0]` from its first index on, each write turns `D[k - 1]` into
  `D[k]` (`Saves`: no gap), and each of them is a log that the server could restart with;
- `Queue`, `Link`: the writes start above what is compacted or applied, and the `D[k]`
  agree with `G` below `offset`, the last one below `offsetInProgress`, as soon as no
  snapshot is to be written after them;
- `Cursors`, `Pending`: the cursors are in order, a pending snapshot is ahead of them
  and right below the unstable entries;
- `Response`: an answer of the append thread that is on its way is of an old term,
  or names an entry that has left the unstable log (`Gone`), an entry that neither raft nor
  the leader of its term has (`Lacks`), or one that will be on disk when the answer
  arrives and is not overwritten by a later write (`Has`). This is the ABA problem:
  only the term in the answer, and that a leader never returns to an entry it does
  not have, tell the last two apart;
- `BatchInv`: what is on its way to or from the apply thread is committed, on disk,
  and without a gap.

`LogsStayWhole` is `Spec => []LogsAreWhole`; `NeverPanics` (`NoPanic`),
`OnlyCommittedIsApplied` (`AppliedIsCommitted`) and, with the assumption
`CarefulSnapshots`, `RestartFindsItsRange` (`RestartInRange`) follow. The last one is about every disk that a
crash can leave, also in the middle of a save: the entries of a write are on top of
`D[0]` while the HardState is still `H[0]`, and no write cuts below its commit index
(`CommitStays`, `TornIs`). Without the assumption it is false (section 3, observations). TLC checks the consequences and not
`LogsAreWhole`, which quantifies over all logs.

`LogRefinesDurableLog` (`ImplementsDurableLog`): a reader of `raftLog` sees exactly
`G` from the first index on, so the steps of raft that change `G` are writes in
memory, those that do not leave the view alone, whatever they do to `offset` and
`entries`. `Ready` hands out the log and HardState it sees, because the last `D[k]`
becomes `G`; `ProcessAppend` moves `D[1]` to the disk; compaction cuts disk, queue and
view at the same index; a restart takes `D[0]` for `G`.

The accounts are a second invariant, `Accounts`, on top of the first. `Ledger` says that
the unacknowledged batches have `applyingEntsSize` as their size, and follow each
other without a gap from what is covered: applied, or held by a pending snapshot.
The second half is why `uncommittedSize` cannot exceed what is left
(`PayloadAfter` the covered index): a batch that is acknowledged pays for everything
between the index covered before and its end, also when a snapshot has overtaken part of
it. It gives `ApplyingSizeStaysExact` (`ApplyingSizeIsExact`) and
`UncommittedSizeStaysBounded` (`UncommittedSizeIsBounded`). Both count with recursive
functions; that these are sums, and that sums split, is proved by induction in the
form `NatSetInduction` (a set of numbers with 0 and closed under successor is all of
them), which needs no operator parameter.

`ReplicationProofs`. `MatchStaysReal` (`MatchIsReal`), `RingStaysWindow`
(`RingIsWindow`) and `WindowStaysOutstanding` (`WindowIsOutstanding`), for every set of
starts that satisfies `StartAssumption`, every payload and message size, every limit on
the window and any number of faults. None of the three is inductive, and the invariant
`ReplicationInv` (`ReplicationInductive`) has three parts:

- the logs (`LeadOK`, `FolOK`): where the follower's entry has the leader's term at that
  index, the logs are the same up to there; they differ only beyond the follower's commit
  index; the follower has no entry of the leader's own term that the leader has not,
  which is why a proposal cannot make an old entry look like a new one;
- the messages (`TrueToFollower`, `TrueToLeader`): a `MsgApp` or `MsgSnap` carries entries
  of the leader's log, a heartbeat or an ack names an index up to which the two logs are
  the same. This stays true of a message for as long as it is on its way, because the
  follower never gives up what it shares with the leader (`FolStep`): `maybeAppend` cuts
  only at a real conflict, and a snapshot replaces the log only when it is ahead of all
  that is shared. So nothing depends on when, or how often, a message arrives;
- the window (`Flow`): some sequence of messages is what the ring holds, wherever it
  starts and however long its buffer is (`Holds`), and what Progress has in flight
  (`Outstanding`). `AddHolds`, `FreeHolds` and `ResetHolds` are the ring as a FIFO: all
  positions are taken at the size of the window, so a buffer that grows moves nothing,
  and a start that moves on over an acked prefix leaves the others where they are.

TLC checked `ReplicationInv` on the instance of the run, with the window bound to
`Window(ring)`, before it was proved.

`NodeProofs`, the loop. `NothingIsLost` and `ProposalsHaveLeader`, for any number of
callers and of calls of Stop, with and without asynchronous writes, from `LoopInv`:
at every select a Ready that is offered holds everything the RawNode has produced,
and the channel of proposals is armed only while there is a leader. What makes it inductive
is `HeadTracks`: the head of the loop restores this whatever the step before it did. While
`run` waits for the ConfState to be read, a configuration change has already moved the
RawNode on, and its locals speak of the one before (`Trails`).

`ReadIndexProofs`. `ReadsAreFresh`, `PositionsWereAsked` and `NoReadForgotten`, for
every joint configuration of more than one voter; with one voter `ReadIsFresh` is
false (section 3). `ReadIsFresh` alone says nothing of reads that are still waiting.
`ReadInv` says of each of them that it is fresh or that no quorum can confirm its
position any more: `MayConfirm` holds the voters that have confirmed it, whose
answer is on its way, or that have not left the leader's term, and this set only
shrinks. A read is accepted at a position nobody has confirmed, so at that moment
the set is those who have not left the term; if it is a quorum, `LeaderKnows` gives
that the leader's commit index is the highest there is. That rests on `Cluster`, the
argument of leader completeness for this module's logs of terms, with the histories
`LL` (the logs of the leaders) and `AK` (what each server has taken of them) bound
by an existential quantifier, as no variable keeps them. TLC therefore checks the
three properties and not `ReadInv`. The assumption on the constants is that there
are finitely many servers, that the voters are among them and that the incoming
half is not empty.

`NodeProofs`, configuration changes. All five properties of the run `confchange`, for any servers
(`NodeAssumption`; the ids may be infinitely many, the members never are) and any
number of changes in one entry (`BoundAssumption`):
`AdmittedStaysApplied` (`AdmittedIsApplied`), `RestoreStaysExact` (`RestoreIsExact`),
`VoteResultStaysExact` (`VoteResultIsExact`), `QuorumsAlwaysMeet` (`QuorumsMeet`) and
`VotersAlwaysKeepProgress` (`VotersKeepProgress`). The first says which admitted
changes panic, and that no others do. `checkInvariants` is not inductive: it
does not say that only voters and learners are tracked, or that a staged learner is
not an incoming voter any more. `ConfOK` (`ConfInductive`) adds both, and its first part,
`WellFormed`, holds between any two single changes (`ChangedIs`), also with two equal
halves in the middle of `EnterJoint`. From it:

- a change is refused only for leaving no voter, for moving more than one voter in a
  simple change, or for being in the wrong state. `Admitted` excludes the last but for
  empty changes; what one change does to the incoming voters (`NextVoters`) depends on
  nothing but these voters, so that `Left` follows them through any number of changes and
  says when none remains (`ApplyRefuses`, `UncheckedIsRefused`);
- `Restore` carries out the changes that `toConfChangeSingle` lays out (`Layout`,
  from the ranks in the sorted slices). `At` says where the first k of them have led, as sets
  of ids: removals first, then voters, then learners, so that no later change undoes an
  earlier one (`OrderlyStep`), and no step in between is left without a voter
  (`OneByOneLeadsTo`) or with the wrong ones at the end (`ApplyLeadsTo`);
- `ApplyMoves` and `StepIs`: a step either leaves every member in its role (`Alike`) or is
  a change between `Neighbours` that keeps what is known of the old voters.

TLC checked `ConfOK` on the instance of the run before it was proved.

Only model-checked: log safety with asynchronous writes, on the instances of
`durable`; `Membership`, whose safety needs the configurations of all servers in one
argument with their logs; and liveness (`Drained`,
`EventuallyCaughtUp`, `CallsReturn`, `Delivered`, `LeaderSeen`), which is out of the
prover's reach, as is `ENABLED`.

## 5. Not modelled

- `ReadOnlyLeaseBased` rests on bounded clock drift, which the code neither
  measures nor states.
- Several entries in one `MsgProp`, `DisableConfChangeValidation`, a leadership
  transfer during a joint change, and snapshots in `Membership`.
- Status, logging, tracing, formatting, parsing of changes in tests, and the
  generated protobuf code: they keep no state of the protocol.
- The test harness, apart from its append and apply threads, which stand for the
  application's.
- Append and apply threads whose answers arrive out of order: the code relies on
  order within a thread.

## 6. What is left

1. `Membership`: `OneLeaderPerTerm`, from the meeting of consecutive quorums.
2. Log safety with asynchronous writes for the behaviours in which no candidate
   campaigns twice in one term, which is what `async_vote` needs.
