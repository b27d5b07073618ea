-------------------------- MODULE LogStorageLemmas --------------------------
(***************************************************************************)
(* The inductive invariant of LogStorage: a whole log in memory and whole  *)
(* logs on disk, now and after each queued write, whose parts the unstable *)
(* log, Storage and the writes hold. And the proof that raft's own steps,  *)
(* the responses of the two threads, Advance and the application's         *)
(* snapshots keep it. LogStorageProofs has the other steps.                *)
(***************************************************************************)
EXTENDS LogStorage, WellFoundedInduction, TLAPS

-----------------------------------------------------------------------------
(* Types.                                                                  *)

\* The metadata of a snapshot; NoSnap is the absent one.
Snapshots  == [index : Nat, term : Nat]
\* What of the HardState this model keeps.
HardStates == [Term : Nat, commit : Nat]

\* Responses of the append thread (newStorageAppendRespMsg).
AppendResps ==
    [type : {"MsgStorageAppendResp"}, term : Nat, index : Nat, logTerm : Nat,
     snapshot : Snapshots]

\* Committed entries handed to the apply thread, and its response.
Batches == [type : {"MsgStorageApplyResp"}, ents : Seq(Entry), from : Nat]

\* What a Ready hands to the append thread (newStorageAppendMsg).
Writes ==
    [hs : HardStates, snapshot : Snapshots, from : Nat, ents : Seq(Entry),
     resps : Seq(AppendResps)]

\* MemoryStorage.
Storages ==
    [hs : HardStates, snapshot : Snapshots, index : Nat, term : Nat, ents : Seq(Entry)]

\* The node: raft with its raftLog and unstable log, and RawNode's fields.
Nodes ==
    [Term : Nat, state : {"StateFollower", "StateCandidate", "StateLeader"},
     uncommittedSize : Nat, committed : Nat, applied : Nat, applying : Nat,
     applyingEntsSize : Nat, applyingEntsPaused : BOOLEAN,
     snapshot : Snapshots, snapshotInProgress : BOOLEAN,
     entries : Seq(Entry), offset : Nat, offsetInProgress : Nat,
     prevHardSt : HardStates, advancing : BOOLEAN,
     stepsOnAdvance : Seq(AppendResps \cup Batches)]

-----------------------------------------------------------------------------
(* Whole logs.                                                             *)

\* Two logs are the same up to k.
Same(k, a, b) == k <= Len(a) /\ k <= Len(b) /\ \A j \in 1..k : a[j] = b[j]

\* es holds the entries of s from index from on.
TailOf(es, from, s) ==
    /\ from > 0 /\ from + Len(es) = Len(s) + 1
    /\ \A i \in 1..Len(es) : es[i] = s[from - 1 + i]

\* Entry i of s is some leader's, at this place, and so are those before it.
SoundAt(w, s, i) ==
    s[i].term \in DOMAIN w.log /\ Same(i, s, w.log[s[i].term])
\* Every entry of s is some leader's. Its term can be above the one in the
\* HardState: a crash came after the entries were saved and before the HardState.
Sound(w, s) == \A i \in 1..Len(s) : SoundAt(w, s, i)

\* The first c entries of s are those some leader up to term T has committed.
CommitOK(w, s, T, c) ==
    /\ c <= Len(s)
    /\ c = 0 \/ \E t \in DOMAIN w.log :
                    t <= T /\ c <= w.commit[t] /\ Same(c, s, w.log[t])

\* Storage m holds the whole log d, but for what was compacted.
Store(m, d) ==
    /\ Len(d) = m.index + Len(m.ents)
    /\ \A i \in 1..Len(m.ents) : m.ents[i] = d[m.index + i]
    /\ m.index > 0 => m.term = d[m.index].term
    /\ m.index = 0 => m.term = 0

\* Write x turns the whole log d into e.
Saves(d, x, e) ==
    /\ x.from > 0
    /\ x.snapshot = NoSnap /\ x.ents = << >> => e = d
    /\ x.snapshot # NoSnap \/ x.ents # << >> =>
        /\ Len(e) = x.from - 1 + Len(x.ents)
        /\ \A i \in 1..Len(x.ents) : e[x.from - 1 + i] = x.ents[i]
    /\ x.snapshot = NoSnap /\ x.ents # << >> => Same(x.from - 1, d, e)
    /\ x.snapshot # NoSnap =>
        x.from = x.snapshot.index + 1 /\ e[x.snapshot.index].term = x.snapshot.term

\* The HardState on disk after write x: an empty one is not written.
NextHS(h, x) == IF x.hs = EmptyHardState THEN h ELSE x.hs

\* D and H: the whole log and the HardState on disk now and after each write.
Disks(w, m, q, D, H) ==
    /\ D \in [0..Len(q) -> Seq(Entry)] /\ H \in [0..Len(q) -> HardStates]
    /\ Store(m, D[0]) /\ H[0] = m.hs
    /\ \A k \in 0..Len(q) :
        /\ Sound(w, D[k]) /\ CommitOK(w, D[k], H[k].Term, H[k].commit)
        /\ H[k].Term > 0 => H[k].Term \in DOMAIN w.log
    /\ \A k \in 1..Len(q) :
        /\ Saves(D[k - 1], q[k], D[k]) /\ H[k] = NextHS(H[k - 1], q[k])
        /\ H[k - 1].commit <= H[k].commit
        /\ q[k].snapshot.index <= H[k].commit

\* What the queued writes q have to do with Storage m and with the index a of
\* the state machine: they start above what is compacted, and the snapshots among
\* them rise, above what is applied.
Queue(m, q, a) ==
    /\ m.index <= m.snapshot.index /\ m.snapshot.index <= a
    /\ CarefulSnapshots => m.snapshot.index <= m.hs.commit
    /\ \A k \in 1..Len(q) :
        /\ m.index < q[k].from
        /\ Len(q[k].resps) <= 1
        /\ q[k].resps # << >> => q[k].resps[1].snapshot = q[k].snapshot
        /\ q[k].snapshot # NoSnap => q[k].resps # << >> /\ a < q[k].snapshot.index
    /\ \A j, k \in 1..Len(q) : j < k =>
        /\ q[j].snapshot.index < q[k].from
        /\ q[k].snapshot # NoSnap => q[j].snapshot.index < q[k].snapshot.index

\* G is the log that raft has: sound, committed up to r.committed, the leader's
\* if the node leads; the unstable log is its tail.
Memory(w, r, G) ==
    /\ G \in Seq(Entry)
    /\ Sound(w, G) /\ CommitOK(w, G, r.Term, r.committed)
    /\ r.Term > 0 => r.Term \in DOMAIN w.log
    /\ r.state # "StateFollower" => r.Term \in w.mine
    /\ r.state = "StateLeader" => Same(Len(G), G, w.log[r.Term])
    /\ TailOf(r.entries, r.offset, G)
    /\ r.offset <= r.offsetInProgress /\ r.offsetInProgress <= Len(G) + 1

\* The cursors are in order, and what was last handed out is not ahead of them.
Cursors(w, r) ==
    /\ r.applied <= r.applying /\ r.applying <= r.committed
    /\ r.applying < r.offsetInProgress
    /\ w.async => r.applying < r.offset
    /\ ~r.applyingEntsPaused => r.applyingEntsSize < MaxCommittedSizePerReady
    /\ r.prevHardSt.Term <= r.Term /\ r.prevHardSt.commit <= r.committed

\* A pending snapshot is committed, not yet applied, and right below the
\* unstable entries.
Pending(r, G) ==
    /\ r.snapshot # NoSnap =>
        /\ r.offset = r.snapshot.index + 1
        /\ r.applying < r.snapshot.index /\ r.snapshot.index <= r.committed
        /\ r.snapshot.term = G[r.snapshot.index].term
        /\ ~r.snapshotInProgress => r.offsetInProgress = r.offset
    /\ r.snapshotInProgress => r.snapshot # NoSnap

\* No snapshot is to come after the k-th write.
Rel(r, q, k) ==
    ~hasNextSnapshot(r) /\ \A j \in (k + 1)..Len(q) : q[j].snapshot = NoSnap

\* How the log in memory continues those on their way to disk: below offset
\* they are the same once no other snapshot is to come, and below
\* offsetInProgress the last of them is the log in memory.
Link(w, r, m, q, G, D) ==
    /\ m.index <= MaxOf(r.applied, r.snapshot.index)
    /\ Rel(r, q, 0) /\ r.snapshot # NoSnap => m.index = r.snapshot.index
    /\ \A k \in 0..Len(q) : Rel(r, q, k) => Same(r.offset - 1, D[k], G)
    /\ \A k \in 1..Len(q) :
        /\ Rel(r, q, k) =>
            /\ r.offset <= q[k].from
            /\ q[k].ents # << >> => r.offset <= Len(G)
            /\ q[k].snapshot # NoSnap => q[k].snapshot = r.snapshot
        /\ (IF w.async THEN r.applying ELSE r.applied) < q[k].from
        /\ q[k].snapshot # NoSnap =>
            /\ r.snapshot # NoSnap
            /\ q[k].snapshot.index <= r.snapshot.index
            /\ ~r.snapshotInProgress => q[k].snapshot.index < r.snapshot.index
            /\ r.applying < q[k].snapshot.index
    /\ ~hasNextSnapshot(r) =>
        /\ Same(r.offsetInProgress - 1, D[Len(q)], G)
        /\ r.offsetInProgress = Len(G) + 1 => D[Len(q)] = G

\* The response m names nothing that is in the unstable log any more.
Gone(r, m) == m.index < r.offset /\ m.index <= r.committed

\* The response m names an entry that neither raft nor the leader of its term
\* has, so that it can never match again.
Lacks(w, r, G, m) ==
    /\ m.index <= Len(w.log[r.Term]) => w.log[r.Term][m.index].term # m.logTerm
    /\ m.index <= Len(G) => G[m.index].term # m.logTerm

\* The response m names an entry of raft's log that is on disk after the p-th
\* queued write and stays there.
Has(r, q, G, D, m, p) ==
    /\ m.index <= Len(G) /\ m.index < r.offsetInProgress /\ G[m.index].term = m.logTerm
    /\ Rel(r, q, p)
    /\ \A k \in p..Len(q) : Same(m.index, D[k], G)
    /\ \A k \in (p + 1)..Len(q) :
        m.index < q[k].from /\ (q[k].ents # << >> => m.index < Len(G))

\* The response m, sent on after the p-th queued write, is harmless or true: of
\* an old term, or about an entry that is Gone, Lacking, or on disk by then
\* ("carried": with the pending snapshot answered for, too).
Response(w, r, q, G, D, m, p, carried) ==
    /\ m.term <= r.Term
    /\ \/ m.snapshot.index <= r.applied
       \/ /\ r.snapshot # NoSnap /\ m.snapshot.index <= r.snapshot.index
          /\ ~r.snapshotInProgress => m.snapshot.index < r.snapshot.index
    /\ \A k \in (p + 1)..Len(q) :
        /\ m.snapshot.index < q[k].from
        /\ q[k].snapshot # NoSnap => m.snapshot.index < q[k].snapshot.index
    /\ m.term = r.Term /\ m.index # 0 =>
        \/ Gone(r, m)
        \/ Lacks(w, r, G, m)
        \/ Has(r, q, G, D, m, p) /\ (r.snapshot # NoSnap => carried)

\* The pending snapshot is answered for by one of the first i responses.
CarriedBy(r, rs, i) == \E j \in 1..i : rs[j].snapshot = r.snapshot
\* The pending snapshot is answered for by a response or one of the first k writes.
CarriedUpTo(r, q, rs, k) ==
    CarriedBy(r, rs, Len(rs)) \/ \E j \in 1..k : q[j].snapshot = r.snapshot

\* A response of the append thread, as against one of the apply thread.
IsAppendResp(m) == m.type = "MsgStorageAppendResp"

\* Responses, asynchronous writes.
AsyncResponses(w, r, q, rs, a, G, D) ==
    /\ \A i \in 1..Len(rs) :
        /\ rs[i].snapshot.index <= a
        /\ Response(w, r, q, G, D, rs[i], 0, CarriedBy(r, rs, i))
    /\ \A k \in 1..Len(q) : q[k].resps # << >> =>
        Response(w, r, q, G, D, q[k].resps[1], k, CarriedUpTo(r, q, rs, k))
    /\ r.snapshotInProgress => CarriedUpTo(r, q, rs, Len(q))

\* The response m that Advance will step is true once the Ready is saved.
SyncResponse(w, r, q, a, G, D, m) ==
    /\ q = << >> => m.snapshot.index <= a
    /\ q # << >> => m.snapshot = q[1].snapshot
    /\ Response(w, r, q, G, D, m, Len(q), m.snapshot = r.snapshot)

\* Responses, with Ready and Advance.
SyncResponses(w, r, q, a, G, D) ==
    /\ \A i \in 1..Len(r.stepsOnAdvance) : IsAppendResp(r.stepsOnAdvance[i]) =>
        SyncResponse(w, r, q, a, G, D, r.stepsOnAdvance[i])
    /\ r.snapshotInProgress => \E i \in 1..Len(r.stepsOnAdvance) :
        IsAppendResp(r.stepsOnAdvance[i]) /\ r.stepsOnAdvance[i].snapshot = r.snapshot

\* With asynchronous writes Advance has nothing to do.
AsyncMode(r) == ~r.advancing /\ r.stepsOnAdvance = << >>
\* With Ready and Advance one Ready is out at most, and Advance steps the
\* response to its write, then that to its committed entries.
SyncMode(r, q, rs, as) ==
    /\ rs = << >> /\ as = << >> /\ Len(q) <= 1
    /\ q # << >> => r.advancing
    /\ ~r.advancing => r.stepsOnAdvance = << >>
    /\ Len(r.stepsOnAdvance) <= 2
    /\ Len(r.stepsOnAdvance) = 2 =>
        IsAppendResp(r.stepsOnAdvance[1]) /\ ~IsAppendResp(r.stepsOnAdvance[2])

\* The last index of a batch.
BatchEnd(b) == b.from + Len(b.ents) - 1
\* The cluster has committed entry e at index i.
Committed(w, i, e) == \E t \in DOMAIN w.log : i <= w.commit[t] /\ w.log[t][i] = e
\* Batch b is committed by the cluster, and raft counts it as handed out.
BatchOK(w, r, b) ==
    /\ b.from > 0 /\ BatchEnd(b) <= r.applying
    /\ \A j \in 1..Len(b.ents) : Committed(w, b.from + j - 1, b.ents[j])

\* Entry e of index i is on disk, or was compacted there.
OnDisk(m, d, i, e) == i <= m.index \/ (i <= Len(d) /\ d[i] = e)

\* The batches handed out are committed; with asynchronous writes those not yet
\* applied are on disk; and they follow the state machine's index without a gap.
BatchInv(w, r, m, aq, as, a, d) ==
    /\ \A k \in 1..Len(aq) : BatchOK(w, r, aq[k])
    /\ \A k \in 1..Len(as) : BatchOK(w, r, as[k])
    /\ \A k \in 1..Len(r.stepsOnAdvance) :
        ~IsAppendResp(r.stepsOnAdvance[k]) => BatchOK(w, r, r.stepsOnAdvance[k])
    /\ w.async => \A k \in 1..Len(aq) : \A j \in 1..Len(aq[k].ents) :
        OnDisk(m, d, aq[k].from + j - 1, aq[k].ents[j])
    /\ \A k \in 1..Len(aq) :
        aq[k].from <= MaxOf(a, IF k = 1 THEN a ELSE BatchEnd(aq[k - 1])) + 1
    /\ r.applying <= IF aq = << >> THEN a ELSE MaxOf(a, BatchEnd(aq[Len(aq)]))

\* Induction over the naturals, for a set.
LEMMA NatSetInduction ==
    ASSUME NEW S, 0 \in S, \A n \in Nat : n \in S => n + 1 \in S
    PROVE  \A n \in Nat : n \in S
<1> DEFINE R == OpToRel(<, Nat)
           T == Nat \ S
<1>1. SUFFICES ASSUME T # {} PROVE FALSE
  OBVIOUS
<1>2. IsWellFoundedOn(R, Nat)
  BY NatLessThanWellFounded
<1>3. PICK x \in T : \A y \in T : ~(<<y, x>> \in R)
  <2> HIDE DEF R, T
  <2>1. T \subseteq Nat BY DEF T
  <2> QED BY <1>1, <1>2, <2>1, WFMin
<1>4. x \in Nat /\ x # 0
  OBVIOUS
<1>5. x - 1 \in Nat
  BY <1>4
<1>6. x - 1 \in S
  <2>1. <<x - 1, x>> \in R
    BY <1>4, <1>5 DEF OpToRel
  <2> QED BY <1>3, <1>5, <2>1
<1>7. (x - 1) + 1 \in S
  BY <1>5, <1>6
<1> QED BY <1>4, <1>7

\* What ValidWorld says of types.
LEMMA WorldTypes ==
    ASSUME NEW w \in Worlds
    PROVE  /\ w.log \in Seq(Seq(Entry)) /\ w.async \in BOOLEAN /\ w.mine \subseteq DOMAIN w.log
           /\ \A t \in DOMAIN w.log :
                /\ t \in Nat /\ t > 0 /\ w.log[t] \in Seq(Entry)
                /\ w.commit[t] \in Nat /\ w.commit[t] <= Len(w.log[t])
<1>1. ValidWorld(w)
  BY WorldAssumption
<1>2. w.log \in Seq(Seq(Entry)) /\ w.async \in BOOLEAN /\ w.mine \subseteq DOMAIN w.log
  BY <1>1 DEF ValidWorld
<1>3. ASSUME NEW t \in DOMAIN w.log
      PROVE  /\ t \in Nat /\ t > 0 /\ w.log[t] \in Seq(Entry)
             /\ w.commit[t] \in Nat /\ w.commit[t] <= Len(w.log[t])
  <2>1. t \in Nat /\ t > 0 /\ w.log[t] \in Seq(Entry)
    BY <1>2
  <2>2. w.commit[t] \in 0..Len(w.log[t])
    BY <1>1 DEF ValidWorld
  <2>3. Len(w.log[t]) \in Nat
    BY <2>1
  <2> QED BY <2>1, <2>2, <2>3
<1> QED BY <1>2, <1>3

\* Agree, which compares sub-sequences, says that the entries are the same.
LEMMA AgreeSame ==
    ASSUME NEW a \in Seq(Entry), NEW b \in Seq(Entry), NEW k \in Nat, Agree(k, a, b)
    PROVE  Same(k, a, b)
<1>1. k <= Len(a) /\ k <= Len(b) /\ SubSeq(a, 1, k) = SubSeq(b, 1, k)
  BY DEF Agree
<1>2. ASSUME NEW j \in 1..k PROVE a[j] = b[j]
  <2>1. SubSeq(a, 1, k)[j] = a[j]
    BY <1>1
  <2>2. SubSeq(b, 1, k)[j] = b[j]
    BY <1>1
  <2> QED BY <1>1, <2>1, <2>2
<1> QED BY <1>1, <1>2 DEF Same

\* Logs that are the same as a third are the same, as far as both are.
LEMMA SameTrans ==
    ASSUME NEW a \in Seq(Entry), NEW b \in Seq(Entry), NEW c \in Seq(Entry),
           NEW i \in Nat, NEW j \in Nat, NEW k \in Nat, k <= i, k <= j, Same(i, a, b), Same(j, b, c)
    PROVE  Same(k, a, c)
<1>1. Len(a) \in Nat /\ Len(b) \in Nat /\ Len(c) \in Nat
  OBVIOUS
<1> QED BY <1>1 DEF Same

\* Being the same is symmetric.
LEMMA SameSym ==
    ASSUME NEW a, NEW b, NEW k, Same(k, a, b)
    PROVE  Same(k, b, a)
BY DEF Same

\* Logs that are the same up to k are so up to a smaller index.
LEMMA SameLess ==
    ASSUME NEW a \in Seq(Entry), NEW b \in Seq(Entry), NEW k \in Nat, NEW i \in Nat, i <= k, Same(k, a, b)
    PROVE  Same(i, a, b)
<1>1. Len(a) \in Nat /\ Len(b) \in Nat
  OBVIOUS
<1> QED BY <1>1 DEF Same

\* A part of a sound log is sound.
LEMMA SoundPrefix ==
    ASSUME NEW w \in Worlds, NEW s \in Seq(Entry), NEW d \in Seq(Entry),
           Sound(w, s), Same(Len(d), s, d)
    PROVE  Sound(w, d)
<1>1. SUFFICES ASSUME NEW i \in 1..Len(d) PROVE SoundAt(w, d, i)
  BY DEF Sound
<1>2. Len(s) \in Nat /\ Len(d) \in Nat /\ i \in Nat /\ i > 0 /\ i <= Len(s) /\ i <= Len(d) /\ s[i] = d[i]
  BY DEF Same
<1>3. SoundAt(w, s, i)
  BY <1>2 DEF Sound
<1>4. d[i].term \in DOMAIN w.log
  BY <1>2, <1>3 DEF SoundAt
<1>5. w.log[d[i].term] \in Seq(Entry)
  BY <1>4, WorldTypes
<1>6. Same(i, s, w.log[d[i].term])
  BY <1>2, <1>3 DEF SoundAt
<1>7. Same(Len(d), d, s)
  BY SameSym
<1>8. Same(i, d, w.log[d[i].term])
  BY <1>2, <1>5, <1>6, <1>7, SameTrans
<1> QED BY <1>4, <1>8 DEF SoundAt

\* The log of a leader is sound: by induction over the terms.
LEMMA LeadersSound ==
    ASSUME NEW w \in Worlds
    PROVE  \A t \in DOMAIN w.log : Sound(w, w.log[t])
<1> DEFINE S == {n \in Nat : \A t \in DOMAIN w.log : t <= n => Sound(w, w.log[t])}
<1>0. \A t \in DOMAIN w.log : t \in Nat /\ t > 0 /\ w.log[t] \in Seq(Entry)
  BY WorldTypes
<1>1. 0 \in S
  BY <1>0
<1>2. ASSUME NEW n \in Nat, n \in S PROVE n + 1 \in S
  <2>1. SUFFICES ASSUME NEW t \in DOMAIN w.log, t <= n + 1 PROVE Sound(w, w.log[t])
    OBVIOUS
  <2>2. CASE t <= n
    BY <1>2, <2>2
  <2>3. CASE ~(t <= n)
    <3>1. t \in Nat /\ t > 0 /\ t = n + 1 /\ w.log[t] \in Seq(Entry)
      BY <1>0, <2>1, <2>3
    <3>2. SUFFICES ASSUME NEW i \in 1..Len(w.log[t]) PROVE SoundAt(w, w.log[t], i)
      BY DEF Sound
    <3>3. Len(w.log[t]) \in Nat /\ i \in Nat /\ i > 0 /\ i <= Len(w.log[t]) /\ w.log[t] # << >>
      BY <3>1
    <3>4. ValidWorld(w)
      BY WorldAssumption
    <3>5. PICK k \in 0..(Len(w.log[t]) - 1) :
            /\ k = 0 \/ \E s \in 1..(t - 1) : Agree(k, w.log[s], w.log[t])
            /\ \A j \in (k + 1)..Len(w.log[t]) : w.log[t][j].term = t
      BY <3>3, <3>4 DEF ValidWorld
    <3>6. k \in Nat
      BY <3>3
    <3>7. CASE i > k
      <4>1. w.log[t][i].term = t
        BY <3>3, <3>5, <3>6, <3>7
      <4>2. Same(i, w.log[t], w.log[t])
        BY <3>3 DEF Same
      <4> QED BY <3>1, <4>1, <4>2 DEF SoundAt
    <3>8. CASE ~(i > k)
      <4>1. PICK s \in 1..(t - 1) : Agree(k, w.log[s], w.log[t])
        BY <3>3, <3>5, <3>6, <3>8
      <4>2. s \in Nat /\ s <= n /\ s > 0
        BY <3>1
      <4>3. s \in DOMAIN w.log
        <5>1. w.log \in Seq(Seq(Entry))
          BY WorldTypes
        <5>2. PICK m \in Nat : m = Len(w.log)
          BY <5>1
        <5>3. DOMAIN w.log = 1..m
          BY <5>1, <5>2
        <5> HIDE DEF S
        <5> QED BY <3>1, <4>2, <5>3, <2>1
      <4>4. w.log[s] \in Seq(Entry)
        BY <4>3, <1>0
      <4>5. Same(k, w.log[s], w.log[t])
        BY <4>1, <4>4, <3>1, <3>6, AgreeSame
      <4>6. Sound(w, w.log[s])
        BY <1>2, <4>2, <4>3
      <4>7. Len(w.log[s]) \in Nat /\ i <= Len(w.log[s]) /\ w.log[s][i] = w.log[t][i]
        BY <3>3, <3>6, <3>8, <4>4, <4>5 DEF Same
      <4>8. SoundAt(w, w.log[s], i)
        BY <4>6, <4>7, <3>3 DEF Sound
      <4>9. w.log[t][i].term \in DOMAIN w.log
        BY <3>1, <4>2, <4>7, <4>8 DEF SoundAt
      <4>10. Same(k, w.log[t], w.log[s])
        BY <4>5, SameSym
      <4>11. Same(i, w.log[s], w.log[w.log[t][i].term])
        BY <4>7, <4>8 DEF SoundAt
      <4>12. w.log[w.log[t][i].term] \in Seq(Entry)
        BY <4>9, <1>0
      <4>13. i <= k /\ i <= i
        BY <3>3, <3>6, <3>8
      <4>14. Same(i, w.log[t], w.log[w.log[t][i].term])
        <5> HIDE DEF S
        <5> QED BY <3>1, <3>3, <3>6, <4>4, <4>10, <4>11, <4>12, <4>13, SameTrans, SMTT(20)
      <4> QED BY <4>9, <4>14 DEF SoundAt
    <3> QED BY <3>7, <3>8
  <2> QED BY <2>2, <2>3
<1>3. \A n \in Nat : n \in S
  <2> HIDE DEF S
  <2> QED BY <1>1, <1>2, NatSetInduction
<1>4. ASSUME NEW t \in DOMAIN w.log PROVE Sound(w, w.log[t])
  BY <1>0, <1>3
<1> QED BY <1>4

\* Two sound logs with the same term at an index are the same up to there.
LEMMA LogMatching ==
    ASSUME NEW w \in Worlds, NEW a \in Seq(Entry), NEW b \in Seq(Entry), NEW i \in Nat,
           Sound(w, a), Sound(w, b), i > 0, i <= Len(a), i <= Len(b), a[i].term = b[i].term
    PROVE  Same(i, a, b)
<1>1. i \in 1..Len(a) /\ i \in 1..Len(b)
  OBVIOUS
<1>2. SoundAt(w, a, i) /\ SoundAt(w, b, i)
  BY <1>1 DEF Sound
<1>3. w.log[a[i].term] \in Seq(Entry)
  BY <1>2, WorldTypes DEF SoundAt
<1>4. Same(i, a, w.log[a[i].term]) /\ Same(i, w.log[a[i].term], b)
  BY <1>2, SameSym DEF SoundAt
<1> QED BY <1>3, <1>4, SameTrans

\* What was committed before is in the log of a later leader.
LEMMA CommittedInLeader ==
    ASSUME NEW w \in Worlds, NEW s \in Seq(Entry), NEW T \in DOMAIN w.log, NEW c \in Nat,
           CommitOK(w, s, T, c), w.log[T] # << >>
    PROVE  Same(c, s, w.log[T])
<1>0. T \in Nat /\ w.log[T] \in Seq(Entry)
  BY WorldTypes
<1>1. CASE c = 0
  BY <1>0, <1>1 DEF Same
<1>2. CASE c # 0
  <2>1. PICK t \in DOMAIN w.log : t <= T /\ c <= w.commit[t] /\ Same(c, s, w.log[t])
    BY <1>2 DEF CommitOK
  <2>2. t \in Nat /\ t > 0 /\ w.log[t] \in Seq(Entry) /\ w.commit[t] \in Nat
    BY WorldTypes
  <2>3. CASE t = T
    BY <2>1, <2>3
  <2>4. CASE t # T
    <3>1. t \in 1..(T - 1)
      BY <1>0, <2>1, <2>2, <2>4
    <3>2. ValidWorld(w)
      BY WorldAssumption
    <3>3. Agree(w.commit[t], w.log[t], w.log[T])
      BY <3>1, <3>2 DEF ValidWorld
    <3>4. Same(w.commit[t], w.log[t], w.log[T])
      BY <3>3, <1>0, <2>2, AgreeSame
    <3>5. c <= c
      OBVIOUS
    <3> QED BY <1>0, <2>1, <2>2, <3>4, <3>5, SameTrans
  <2> QED BY <2>3, <2>4
<1> QED BY <1>1, <1>2

\* How far the state machine can be ahead of what raft knows to be applied.
Ahead(r, a) ==
    /\ hasNextSnapshot(r) => a < r.snapshot.index
    /\ a <= r.applying \/ a <= r.snapshot.index

\* All of the invariant but the responses and the batches.
Core(w, r, m, q, a, G, D, H) ==
    /\ w \in Worlds /\ r \in Nodes /\ m \in Storages /\ q \in Seq(Writes) /\ a \in Nat
    /\ Disks(w, m, q, D, H) /\ Queue(m, q, a) /\ H[Len(q)] = r.prevHardSt
    /\ Memory(w, r, G) /\ Cursors(w, r) /\ Pending(r, G) /\ Link(w, r, m, q, G, D)
    /\ Ahead(r, a)

\* The types of a node's fields.
LEMMA NodeTypes ==
    ASSUME NEW r \in Nodes
    PROVE  /\ r.Term \in Nat /\ r.committed \in Nat /\ r.applied \in Nat /\ r.applying \in Nat
           /\ r.offset \in Nat /\ r.offsetInProgress \in Nat
           /\ r.entries \in Seq(Entry) /\ Len(r.entries) \in Nat
           /\ r.snapshot \in Snapshots /\ r.snapshot.index \in Nat /\ r.snapshot.term \in Nat
           /\ r.snapshotInProgress \in BOOLEAN /\ r.applyingEntsPaused \in BOOLEAN
           /\ r.applyingEntsSize \in Nat /\ r.uncommittedSize \in Nat
           /\ r.prevHardSt \in HardStates /\ r.prevHardSt.Term \in Nat /\ r.prevHardSt.commit \in Nat
BY DEF Nodes, Snapshots, HardStates

\* The types of Storage's fields.
LEMMA StorageTypes ==
    ASSUME NEW m \in Storages
    PROVE  /\ m.index \in Nat /\ m.term \in Nat /\ m.ents \in Seq(Entry) /\ Len(m.ents) \in Nat
           /\ m.snapshot \in Snapshots /\ m.snapshot.index \in Nat
           /\ m.hs \in HardStates /\ m.hs.Term \in Nat /\ m.hs.commit \in Nat
BY DEF Storages, Snapshots, HardStates

\* The types of a queued write's fields.
LEMMA WriteTypes ==
    ASSUME NEW q \in Seq(Writes), NEW k \in 1..Len(q)
    PROVE  /\ q[k] \in Writes /\ q[k].from \in Nat /\ q[k].ents \in Seq(Entry) /\ Len(q[k].ents) \in Nat
           /\ q[k].snapshot \in Snapshots /\ q[k].snapshot.index \in Nat
           /\ q[k].hs \in HardStates /\ q[k].resps \in Seq(AppendResps) /\ Len(q[k].resps) \in Nat
           /\ k \in Nat /\ Len(q) \in Nat
<1>1. q[k] \in Writes
  OBVIOUS
<1>2. /\ q[k].from \in Nat /\ q[k].ents \in Seq(Entry)
      /\ q[k].snapshot \in Snapshots /\ q[k].hs \in HardStates /\ q[k].resps \in Seq(AppendResps)
  BY <1>1 DEF Writes
<1> QED BY <1>1, <1>2 DEF Snapshots

\* Without a snapshot in the unstable log no write on its way carries one.
LEMMA NoSnapRel ==
    ASSUME NEW w, NEW r, NEW m, NEW q, NEW G, NEW D, NEW k \in Nat,
           Len(q) \in Nat, Link(w, r, m, q, G, D), r.snapshot = NoSnap
    PROVE  Rel(r, q, k)
<1>1. \A j \in 1..Len(q) : q[j].snapshot = NoSnap
  BY DEF Link
<1> QED BY <1>1 DEF Rel, hasNextSnapshot

\* When nothing is unstable, the disk has the log.
LEMMA DrainedDisk ==
    ASSUME NEW w, NEW r, NEW m, NEW q, NEW a, NEW G, NEW D, NEW H,
           Core(w, r, m, q, a, G, D, H), r.snapshot = NoSnap, r.entries = << >>
    PROVE  D[0] = G
<1> DEFINE n == Len(q)
           S == {k \in Nat : k <= n => D[k] = D[0]}
<1>1. n \in Nat /\ G \in Seq(Entry) /\ Len(G) \in Nat /\ r.offset \in Nat /\ r.offsetInProgress \in Nat
  BY NodeTypes DEF Core, Memory, TailOf
<1>2. \A k \in 0..n : Rel(r, q, k)
  BY <1>1, NoSnapRel DEF Core
<1>3. r.offset = Len(G) + 1 /\ r.offsetInProgress = Len(G) + 1
  <2>1. r.offset + 0 = Len(G) + 1 /\ r.offset <= r.offsetInProgress /\ r.offsetInProgress <= Len(G) + 1
    BY DEF Core, Memory, TailOf
  <2> QED BY <2>1, <1>1
<1>4. D[n] = G
  BY <1>1, <1>2, <1>3 DEF Core, Link, Rel
<1>5. \A k \in 1..n : q[k].ents = << >> /\ q[k].snapshot = NoSnap
  <2>1. \A k \in 1..n : q[k].ents # << >> => r.offset <= Len(G)
    BY <1>1, <1>2 DEF Core, Link
  <2>2. ~(r.offset <= Len(G))
    BY <1>1, <1>3
  <2>3. \A k \in 1..n : q[k].snapshot = NoSnap
    BY DEF Core, Link
  <2> QED BY <2>1, <2>2, <2>3
<1>6. \A k \in 1..n : D[k] = D[k - 1]
  BY <1>5 DEF Core, Disks, Saves
<1>7. \A k \in Nat : k \in S
  <2>1. 0 \in S
    BY <1>1
  <2>2. ASSUME NEW k \in Nat, k \in S PROVE k + 1 \in S
    <3>1. CASE k + 1 <= n
      <4>1. k + 1 \in 1..n /\ (k + 1) - 1 = k /\ k <= n
        BY <3>1, <1>1
      <4>2. D[k + 1] = D[k]
        BY <4>1, <1>6
      <4> QED BY <2>2, <4>1, <4>2
    <3>2. CASE ~(k + 1 <= n)
      BY <3>2
    <3> QED BY <3>1, <3>2
  <2> HIDE DEF S
  <2> QED BY <2>1, <2>2, NatSetInduction
<1> QED BY <1>1, <1>4, <1>7

\* Where raft's log begins: at its snapshot, or where Storage begins.
LEMMA FirstIs ==
    ASSUME NEW w, NEW r, NEW m, NEW q, NEW a, NEW G, NEW D, NEW H,
           Core(w, r, m, q, a, G, D, H)
    PROVE  /\ firstIndex(r, m) - 1 = IF r.snapshot # NoSnap THEN r.snapshot.index ELSE m.index
           /\ firstIndex(r, m) \in Nat /\ firstIndex(r, m) - 1 \in Nat
           /\ firstIndex(r, m) - 1 <= r.committed /\ r.committed <= Len(G)
           /\ Len(G) \in Nat /\ r.committed \in Nat
           /\ r.snapshot = NoSnap => m.index <= r.applied
<1>0. r \in Nodes /\ m \in Storages /\ G \in Seq(Entry)
  BY DEF Core, Memory, TailOf
<1>1. /\ r.snapshot.index \in Nat /\ m.index \in Nat /\ r.applied \in Nat /\ r.applying \in Nat
      /\ r.committed \in Nat /\ Len(G) \in Nat
  BY <1>0, NodeTypes, StorageTypes
<1>2. m.index <= MaxOf(r.applied, r.snapshot.index) /\ r.applied <= r.applying /\ r.applying <= r.committed
  BY DEF Core, Link, Cursors
<1>3. r.snapshot # NoSnap => r.snapshot.index <= r.committed
  BY DEF Core, Pending
<1>4. r.committed <= Len(G)
  BY DEF Core, Memory, CommitOK
<1>5. r.snapshot = NoSnap => r.snapshot.index = 0
  BY DEF NoSnap
<1>6. r.snapshot = NoSnap => m.index <= r.applied
  BY <1>1, <1>2, <1>5 DEF MaxOf
<1>7. firstIndex(r, m) - 1 = IF r.snapshot # NoSnap THEN r.snapshot.index ELSE m.index
  BY <1>1 DEF firstIndex
<1>8. firstIndex(r, m) \in Nat
  BY <1>1 DEF firstIndex
<1> QED BY <1>1, <1>2, <1>3, <1>4, <1>6, <1>7, <1>8

\* raftLog.lastIndex is the length of the whole log.
LEMMA LastIs ==
    ASSUME NEW w, NEW r, NEW m, NEW q, NEW a, NEW G, NEW D, NEW H,
           Core(w, r, m, q, a, G, D, H)
    PROVE  lastIndex(r, m) = Len(G) /\ unstableLast(r) = Len(G)
<1>0. r \in Nodes /\ m \in Storages /\ G \in Seq(Entry)
  BY DEF Core, Memory, TailOf
<1>1. /\ r.snapshot.index \in Nat /\ r.offset \in Nat /\ Len(r.entries) \in Nat /\ Len(G) \in Nat
      /\ r.entries \in Seq(Entry)
  BY <1>0, NodeTypes
<1>2. r.offset + Len(r.entries) = Len(G) + 1
  BY DEF Core, Memory, TailOf
<1>3. unstableLast(r) = Len(G)
  BY <1>1, <1>2 DEF unstableLast
<1>4. CASE r.entries # << >>
  BY <1>3, <1>4 DEF lastIndex
<1>5. CASE r.entries = << >> /\ r.snapshot # NoSnap
  <2>1. r.offset = r.snapshot.index + 1
    BY <1>5 DEF Core, Pending
  <2>2. Len(r.entries) = 0
    BY <1>5
  <2> QED BY <1>1, <1>2, <1>3, <1>5, <2>1, <2>2 DEF lastIndex
<1>6. CASE r.entries = << >> /\ r.snapshot = NoSnap
  <2>1. D[0] = G
    BY <1>6, DrainedDisk
  <2>2. Len(D[0]) = m.index + Len(m.ents)
    BY DEF Core, Disks, Store
  <2> QED BY <1>3, <1>6, <2>1, <2>2 DEF lastIndex, storageLast
<1> QED BY <1>4, <1>5, <1>6

\* Entries are read from the half that has them.
LEMMA EntryIs ==
    ASSUME NEW w, NEW r, NEW m, NEW q, NEW a, NEW G, NEW D, NEW H,
           Core(w, r, m, q, a, G, D, H), NEW i \in firstIndex(r, m)..Len(G)
    PROVE  entryAt(r, m, i) = G[i]
<1>0. r \in Nodes /\ m \in Storages /\ G \in Seq(Entry)
  BY DEF Core, Memory, TailOf
<1>1. /\ r.snapshot.index \in Nat /\ r.offset \in Nat /\ Len(r.entries) \in Nat /\ Len(G) \in Nat
      /\ m.index \in Nat /\ Len(m.ents) \in Nat /\ firstIndex(r, m) \in Nat
  BY <1>0, NodeTypes, StorageTypes, FirstIs
<1>2. i \in Nat /\ firstIndex(r, m) <= i /\ i <= Len(G)
  BY <1>1
<1>3. r.offset + Len(r.entries) = Len(G) + 1 /\ r.offset > 0
  BY DEF Core, Memory, TailOf
<1>4. CASE i >= r.offset
  <2>1. i <= unstableLast(r) /\ i - r.offset + 1 \in 1..Len(r.entries)
    BY <1>1, <1>2, <1>3, <1>4, SMTT(20) DEF unstableLast
  <2>2. r.entries[i - r.offset + 1] = G[r.offset - 1 + (i - r.offset + 1)]
    BY <2>1 DEF Core, Memory, TailOf
  <2>3. r.offset - 1 + (i - r.offset + 1) = i
    BY <1>1, <1>2
  <2> QED BY <1>4, <2>1, <2>2, <2>3 DEF entryAt
<1>5. CASE ~(i >= r.offset)
  <2>1. r.snapshot = NoSnap
    <3>1. SUFFICES ASSUME r.snapshot # NoSnap PROVE FALSE
      OBVIOUS
    <3>2. r.offset = r.snapshot.index + 1 /\ firstIndex(r, m) = r.snapshot.index + 1
      BY <3>1 DEF Core, Pending, firstIndex
    <3> QED BY <3>2, <1>1, <1>2, <1>5
  <2>2. firstIndex(r, m) = m.index + 1
    BY <2>1 DEF firstIndex
  <2>3. Same(r.offset - 1, D[0], G)
    <3>1. Rel(r, q, 0)
      BY <2>1, NoSnapRel DEF Core
    <3> QED BY <3>1 DEF Core, Link
  <2>4. Len(D[0]) = m.index + Len(m.ents) /\ \A j \in 1..Len(m.ents) : m.ents[j] = D[0][m.index + j]
    BY DEF Core, Disks, Store
  <2>5. i \in 1..(r.offset - 1) /\ i <= Len(D[0])
    <3>1. r.offset - 1 <= Len(D[0])
      BY <2>3 DEF Same
    <3> QED BY <1>1, <1>2, <1>3, <1>5, <2>2, <2>4, <3>1
  <2>6. D[0][i] = G[i]
    BY <2>3, <2>5 DEF Same
  <2>7. i \in (m.index + 1)..storageLast(m) /\ i - m.index \in 1..Len(m.ents) /\ m.index + (i - m.index) = i
    BY <1>1, <1>2, <2>2, <2>4, <2>5, SMTT(20) DEF storageLast
  <2>8. m.ents[i - m.index] = G[i]
    BY <2>4, <2>6, <2>7
  <2> QED BY <1>5, <2>7, <2>8 DEF entryAt
<1> QED BY <1>4, <1>5

\* raftLog.term: that of the whole log's entry, 0 for what is compacted or beyond.
LEMMA TermIs ==
    ASSUME NEW w, NEW r, NEW m, NEW q, NEW a, NEW G, NEW D, NEW H,
           Core(w, r, m, q, a, G, D, H), NEW i \in Nat, i > 0
    PROVE  /\ i < firstIndex(r, m) - 1 \/ i > Len(G) => term(r, m, i) = 0
           /\ firstIndex(r, m) - 1 <= i /\ i <= Len(G) => term(r, m, i) = G[i].term
<1>0. r \in Nodes /\ m \in Storages /\ G \in Seq(Entry)
  BY DEF Core, Memory, TailOf
<1>1. /\ r.snapshot.index \in Nat /\ r.offset \in Nat /\ Len(r.entries) \in Nat /\ Len(G) \in Nat
      /\ m.index \in Nat /\ Len(m.ents) \in Nat /\ firstIndex(r, m) - 1 \in Nat
  BY <1>0, NodeTypes, StorageTypes, FirstIs
<1>2. lastIndex(r, m) = Len(G) /\ unstableLast(r) = Len(G)
  BY LastIs
<1>3. i < firstIndex(r, m) - 1 \/ i > Len(G) => term(r, m, i) = 0
  BY <1>1, <1>2 DEF term
<1>4. ASSUME firstIndex(r, m) - 1 <= i, i <= Len(G) PROVE term(r, m, i) = G[i].term
  <2>0. i \in (firstIndex(r, m) - 1)..lastIndex(r, m)
    BY <1>1, <1>2, <1>4
  <2>1. r.offset + Len(r.entries) = Len(G) + 1 /\ r.offset > 0
    BY DEF Core, Memory, TailOf
  <2>2. CASE i >= r.offset
    <3>1. i \in r.offset..unstableLast(r) /\ i - r.offset + 1 \in 1..Len(r.entries)
      BY <1>1, <1>2, <1>4, <2>1, <2>2
    <3>2. r.entries[i - r.offset + 1] = G[r.offset - 1 + (i - r.offset + 1)]
      BY <3>1 DEF Core, Memory, TailOf
    <3>3. r.offset - 1 + (i - r.offset + 1) = i
      BY <1>1
    <3> QED BY <2>0, <3>1, <3>2, <3>3 DEF term
  <2>3. CASE ~(i >= r.offset) /\ r.snapshot # NoSnap
    <3>1. r.offset = r.snapshot.index + 1 /\ r.snapshot.term = G[r.snapshot.index].term
      BY <2>3 DEF Core, Pending
    <3>2. firstIndex(r, m) - 1 = r.snapshot.index
      BY <2>3, FirstIs
    <3>3. i = r.snapshot.index /\ i \notin r.offset..unstableLast(r)
      BY <3>1, <3>2, <1>1, <1>2, <1>4, <2>3
    <3> QED BY <2>0, <2>3, <3>1, <3>3 DEF term
  <2>4. CASE ~(i >= r.offset) /\ r.snapshot = NoSnap
    <3>1. firstIndex(r, m) - 1 = m.index
      BY <2>4, FirstIs
    <3>2. Same(r.offset - 1, D[0], G)
      <4>1. Rel(r, q, 0)
        BY <2>4, NoSnapRel DEF Core
      <4> QED BY <4>1 DEF Core, Link
    <3>3. /\ Len(D[0]) = m.index + Len(m.ents) /\ \A j \in 1..Len(m.ents) : m.ents[j] = D[0][m.index + j]
          /\ m.index > 0 => m.term = D[0][m.index].term
      BY DEF Core, Disks, Store
    <3>4. i \in 1..(r.offset - 1) /\ i <= Len(D[0]) /\ i \notin r.offset..unstableLast(r)
      BY <1>1, <1>2, <1>4, <2>1, <2>4, <3>2, <3>3 DEF Same
    <3>5. D[0][i] = G[i]
      BY <3>2, <3>4 DEF Same
    <3>6. term(r, m, i) = StorageTerm(m, i)
      BY <2>0, <2>4, <3>4 DEF term
    <3>7. CASE i = m.index
      BY <3>3, <3>5, <3>6, <3>7 DEF StorageTerm
    <3>8. CASE i # m.index
      <4>1. i \in (m.index + 1)..storageLast(m) /\ i - m.index \in 1..Len(m.ents) /\ m.index + (i - m.index) = i
        BY <1>1, <1>4, <3>1, <3>3, <3>4, <3>8 DEF storageLast
      <4>2. m.ents[i - m.index] = G[i]
        BY <3>3, <3>5, <4>1
      <4> QED BY <3>6, <3>8, <4>1, <4>2 DEF StorageTerm
    <3> QED BY <3>7, <3>8
  <2> QED BY <2>2, <2>3, <2>4
<1> QED BY <1>3, <1>4

\* What raft's own steps leave alone.
Keeps(r, r2) ==
    /\ r2 \in Nodes
    /\ r2.applied = r.applied /\ r2.applying = r.applying
    /\ r2.applyingEntsSize = r.applyingEntsSize /\ r2.applyingEntsPaused = r.applyingEntsPaused
    /\ r2.prevHardSt = r.prevHardSt
    /\ r2.advancing = r.advancing /\ r2.stepsOnAdvance = r.stepsOnAdvance

\* A step that leaves the log as it is: a new term, a new commit index.
LeavesLog(w, r, G, r2) ==
    /\ Keeps(r, r2)
    /\ r2.snapshot = r.snapshot /\ r2.snapshotInProgress = r.snapshotInProgress
    /\ r2.offset = r.offset /\ r2.offsetInProgress = r.offsetInProgress /\ r2.entries = r.entries
    /\ r.Term <= r2.Term /\ r2.Term \in DOMAIN w.log
    /\ r.committed <= r2.committed /\ CommitOK(w, G, r2.Term, r2.committed)
    /\ r2.state # "StateFollower" => r2.Term \in w.mine
    /\ r2.state = "StateLeader" => r2.Term = r.Term /\ r.state = "StateLeader"

\* A step that overwrites the log with the leader's from index from on.
Overwrites(w, r, G, r2, G2, from) ==
    /\ Keeps(r, r2)
    /\ r2.snapshot = r.snapshot /\ r2.snapshotInProgress = r.snapshotInProgress
    /\ r2.Term = r.Term /\ r.Term \in DOMAIN w.log
    /\ r.committed <= r2.committed /\ CommitOK(w, G2, r.Term, r2.committed)
    /\ r2.state # "StateFollower" => r.Term \in w.mine
    /\ G2 \in Seq(Entry) /\ Same(Len(G2), G2, w.log[r.Term])
    /\ from \in Nat /\ r.committed < from /\ from <= Len(G) + 1 /\ from <= Len(G2)
    /\ Same(from - 1, G, G2)
    /\ from <= Len(G) => G[from].term # G2[from].term
    /\ r2.offset = MinOf(r.offset, from) /\ r2.offsetInProgress = MinOf(r.offsetInProgress, from)
    /\ TailOf(r2.entries, r2.offset, G2)

\* A snapshot of the leader's log up to i takes the place of the log.
Restores(w, r, G, r2, G2, i) ==
    /\ Keeps(r, r2)
    /\ r2.snapshot = [index |-> i, term |-> G2[i].term] /\ r2.snapshotInProgress = FALSE
    /\ r2.Term = r.Term /\ r.Term \in DOMAIN w.log
    /\ r2.committed = i /\ CommitOK(w, G2, r.Term, i)
    /\ r2.state = r.state /\ r.Term \notin w.mine
    /\ G2 \in Seq(Entry) /\ Same(Len(G2), G2, w.log[r.Term])
    /\ i \in Nat /\ r.committed < i /\ i = Len(G2)
    /\ i <= Len(G) => G[i].term # G2[i].term
    /\ r2.offset = i + 1 /\ r2.offsetInProgress = i + 1 /\ r2.entries = << >>

\* A step that leaves the log as it is keeps Core.
LEMMA LeavesLogCore ==
    ASSUME NEW w, NEW r, NEW m, NEW q, NEW a, NEW G, NEW D, NEW H, NEW r2,
           Core(w, r, m, q, a, G, D, H), LeavesLog(w, r, G, r2)
    PROVE  Core(w, r2, m, q, a, G, D, H)
<1>0. r \in Nodes /\ r2 \in Nodes /\ w \in Worlds /\ G \in Seq(Entry)
  BY DEF Core, Memory, LeavesLog, Keeps
<1>1. /\ r.Term \in Nat /\ r2.Term \in Nat /\ r.committed \in Nat /\ r2.committed \in Nat
      /\ r.prevHardSt.Term \in Nat /\ r.prevHardSt.commit \in Nat /\ r.applying \in Nat
      /\ r.snapshot.index \in Nat /\ Len(G) \in Nat
  BY <1>0, NodeTypes
<1>2. /\ r2.applied = r.applied /\ r2.applying = r.applying
      /\ r2.applyingEntsSize = r.applyingEntsSize /\ r2.applyingEntsPaused = r.applyingEntsPaused
      /\ r2.prevHardSt = r.prevHardSt
      /\ r2.snapshot = r.snapshot /\ r2.snapshotInProgress = r.snapshotInProgress
      /\ r2.offset = r.offset /\ r2.offsetInProgress = r.offsetInProgress /\ r2.entries = r.entries
  BY DEF LeavesLog, Keeps
<1>3. /\ r.Term <= r2.Term /\ r2.Term \in DOMAIN w.log /\ r.committed <= r2.committed
      /\ CommitOK(w, G, r2.Term, r2.committed)
      /\ r2.state = "StateLeader" => r2.Term = r.Term /\ r.state = "StateLeader"
      /\ r2.state # "StateFollower" => r2.Term \in w.mine
  BY DEF LeavesLog
<1>4. Memory(w, r2, G)
  <2>1. Sound(w, G)
    BY DEF Core, Memory
  <2>2. r2.state = "StateLeader" => Same(Len(G), G, w.log[r2.Term])
    BY <1>3 DEF Core, Memory
  <2> QED BY <1>2, <1>3, <2>1, <2>2 DEF Core, Memory
<1>5. Cursors(w, r2)
  <2>1. Cursors(w, r)
    BY DEF Core
  <2> QED BY <2>1, <1>1, <1>2, <1>3 DEF Cursors
<1>6. Pending(r2, G)
  <2>1. Pending(r, G)
    BY DEF Core
  <2>2. r.snapshot # NoSnap => r.snapshot.index <= r2.committed
    BY <2>1, <1>1, <1>3 DEF Pending
  <2> QED BY <2>1, <2>2, <1>2 DEF Pending
<1>7. Link(w, r2, m, q, G, D)
  <2>1. Link(w, r, m, q, G, D)
    BY DEF Core
  <2>2. hasNextSnapshot(r2) = hasNextSnapshot(r)
    BY <1>2 DEF hasNextSnapshot
  <2>3. \A k : Rel(r2, q, k) = Rel(r, q, k)
    BY <2>2 DEF Rel
  <2> QED BY <2>1, <2>2, <2>3, <1>2 DEF Link
<1>8. Ahead(r2, a)
  BY <1>2 DEF Core, Ahead, hasNextSnapshot
<1> QED BY <1>0, <1>2, <1>4, <1>5, <1>6, <1>7, <1>8 DEF Core

\* A step that overwrites the log from an index above the commit index keeps Core.
LEMMA OverwritesCore ==
    ASSUME NEW w, NEW r, NEW m, NEW q, NEW a, NEW G, NEW D, NEW H, NEW r2, NEW G2, NEW from,
           Core(w, r, m, q, a, G, D, H), Overwrites(w, r, G, r2, G2, from)
    PROVE  Core(w, r2, m, q, a, G2, D, H)
<1>0. r \in Nodes /\ r2 \in Nodes /\ w \in Worlds /\ G \in Seq(Entry) /\ G2 \in Seq(Entry)
  BY DEF Core, Memory, Overwrites, Keeps
<1>1. /\ r.Term \in Nat /\ r.committed \in Nat /\ r2.committed \in Nat /\ from \in Nat
      /\ r.prevHardSt.Term \in Nat /\ r.prevHardSt.commit \in Nat /\ r.applying \in Nat
      /\ r.snapshot.index \in Nat /\ Len(G) \in Nat /\ Len(G2) \in Nat
      /\ r.offset \in Nat /\ r.offsetInProgress \in Nat /\ r2.offset \in Nat /\ r2.offsetInProgress \in Nat
      /\ Len(r2.entries) \in Nat /\ Len(q) \in Nat
  BY <1>0, NodeTypes, SMTT(20) DEF Overwrites, Core
<1>2. /\ r2.applied = r.applied /\ r2.applying = r.applying
      /\ r2.applyingEntsSize = r.applyingEntsSize /\ r2.applyingEntsPaused = r.applyingEntsPaused
      /\ r2.prevHardSt = r.prevHardSt
      /\ r2.snapshot = r.snapshot /\ r2.snapshotInProgress = r.snapshotInProgress
      /\ r2.Term = r.Term
  BY DEF Overwrites, Keeps
<1>3. /\ r.Term \in DOMAIN w.log /\ r.committed <= r2.committed
      /\ CommitOK(w, G2, r.Term, r2.committed)
      /\ r2.state # "StateFollower" => r.Term \in w.mine
      /\ Same(Len(G2), G2, w.log[r.Term])
      /\ r.committed < from /\ from <= Len(G) + 1 /\ from <= Len(G2) /\ Same(from - 1, G, G2)
      /\ TailOf(r2.entries, r2.offset, G2)
  BY DEF Overwrites
<1>30. r.committed <= r2.committed /\ r.committed < from /\ from <= Len(G) + 1 /\ from <= Len(G2)
  BY <1>3
<1>31. /\ r.committed \in Nat /\ from \in Nat /\ Len(G) \in Nat /\ Len(G2) \in Nat
       /\ r.offset \in Nat /\ r2.offset \in Nat
  BY <1>1
<1>32. /\ r.committed \in Nat /\ from \in Nat /\ Len(G) \in Nat /\ Len(G2) \in Nat
       /\ r.offsetInProgress \in Nat /\ r2.offsetInProgress \in Nat
  BY <1>1
<1>4. /\ r2.offset <= r.offset /\ r2.offset <= from /\ (r2.offset = r.offset \/ r2.offset = from)
      /\ r2.offsetInProgress <= r.offsetInProgress /\ r2.offsetInProgress <= from
      /\ (r2.offsetInProgress = r.offsetInProgress \/ r2.offsetInProgress = from)
  BY <1>1, SMTT(20) DEF Overwrites, MinOf
<1>5. r.offset > 0 /\ r.offset <= r.offsetInProgress /\ r.offsetInProgress <= Len(G) + 1
  BY DEF Core, Memory, TailOf
<1>6. Memory(w, r2, G2)
  <2>1. Sound(w, G2)
    <3>1. Sound(w, w.log[r.Term]) /\ w.log[r.Term] \in Seq(Entry)
      BY <1>0, <1>3, LeadersSound, WorldTypes
    <3>2. Same(Len(G2), w.log[r.Term], G2)
      BY <1>3, SameSym
    <3> QED BY <1>0, <1>1, <1>2, <3>1, <3>2, SoundPrefix
  <2>2. r2.offset > 0 /\ r2.offset <= r2.offsetInProgress /\ r2.offsetInProgress <= Len(G2) + 1
    BY <1>1, <1>30, <1>4, <1>5
  <2> QED BY <1>0, <1>2, <1>3, <2>1, <2>2 DEF Memory
<1>7. Cursors(w, r2)
  <2>1. Cursors(w, r)
    BY DEF Core
  <2>2. r.applying <= r.committed /\ r.applying < r.offsetInProgress /\ (w.async => r.applying < r.offset)
    BY <2>1 DEF Cursors
  <2>3. r.applying < r2.offsetInProgress /\ (w.async => r.applying < r2.offset) /\ r.applying <= r2.committed
    BY <1>1, <1>30, <1>4, <2>2, SMTT(20)
  <2>4. r.prevHardSt.commit <= r2.committed
    <3>1. r.prevHardSt.commit <= r.committed
      BY <2>1 DEF Cursors
    <3>2. r.committed <= r2.committed
      BY <1>30
    <3>3. r.prevHardSt.commit \in Nat /\ r.committed \in Nat /\ r2.committed \in Nat
      BY <1>1
    <3> QED BY <3>1, <3>2, <3>3
  <2> QED BY <2>1, <2>3, <2>4, <1>2 DEF Cursors
<1>8. Pending(r2, G2)
  <2>1. Pending(r, G)
    BY DEF Core
  <2>2. ASSUME r.snapshot # NoSnap
        PROVE  /\ r2.offset = r.snapshot.index + 1 /\ r.snapshot.index <= r2.committed
               /\ r.snapshot.term = G2[r.snapshot.index].term
               /\ ~r.snapshotInProgress => r2.offsetInProgress = r2.offset
    <3>1. /\ r.offset = r.snapshot.index + 1 /\ r.snapshot.index <= r.committed
          /\ r.snapshot.term = G[r.snapshot.index].term /\ r.applying < r.snapshot.index
          /\ ~r.snapshotInProgress => r.offsetInProgress = r.offset
      BY <2>1, <2>2 DEF Pending
    <3>20. r.offset = r.snapshot.index + 1 /\ r.snapshot.index <= r.committed /\ r.applying < r.snapshot.index
      BY <3>1
    <3>2. r2.offset = r.offset /\ r.snapshot.index \in 1..(from - 1)
      <4>1. r.snapshot.index \in Nat /\ r.applying \in Nat
        BY <1>1
      <4>2. r2.offset = r.offset
        BY <3>20, <4>1, <1>31, <1>30, <1>4
      <4>3. r.snapshot.index > 0 /\ r.snapshot.index <= from - 1
        BY <3>20, <4>1, <1>31, <1>30
      <4> QED BY <4>1, <4>2, <4>3, <1>31
    <3>3. G2[r.snapshot.index] = G[r.snapshot.index]
      BY <3>2, <1>3 DEF Same
    <3>4. ~r.snapshotInProgress => r2.offsetInProgress = r2.offset
      <4>1. SUFFICES ASSUME ~r.snapshotInProgress PROVE r2.offsetInProgress = r2.offset
        OBVIOUS
      <4>2. r.offsetInProgress = r.offset
        BY <3>1, <4>1
      <4>3. r.offset <= from
        BY <3>2, <1>31, <1>4
      <4> QED BY <3>2, <4>2, <4>3, <1>31, <1>32, <1>4
    <3>5. r.snapshot.index <= r2.committed
      <4>1. r.snapshot.index \in Nat /\ r.committed \in Nat /\ r2.committed \in Nat
        BY <1>1
      <4> QED BY <4>1, <3>20, <1>30
    <3> QED BY <3>1, <3>2, <3>3, <3>4, <3>5
  <2> QED BY <2>1, <2>2, <1>2 DEF Pending
<1>9. Link(w, r2, m, q, G2, D)
  <2>1. Link(w, r, m, q, G, D)
    BY DEF Core
  <2>2. hasNextSnapshot(r2) = hasNextSnapshot(r)
    BY <1>2 DEF hasNextSnapshot
  <2>3. \A k : Rel(r2, q, k) = Rel(r, q, k)
    BY <2>2 DEF Rel
  <2>4. ASSUME NEW k \in 0..Len(q), Rel(r, q, k) PROVE Same(r2.offset - 1, D[k], G2)
    <3>1. Same(r.offset - 1, D[k], G)
      BY <2>1, <2>4 DEF Link
    <3>2. D[k] \in Seq(Entry)
      BY DEF Core, Disks
    <3>3. /\ r2.offset - 1 \in Nat /\ r.offset - 1 \in Nat /\ from - 1 \in Nat
          /\ r2.offset - 1 <= r.offset - 1 /\ r2.offset - 1 <= from - 1
      <4>1. r.offset > 0 /\ from > 0
        BY <1>31, <1>30, <1>5
      <4> QED BY <4>1, <1>31, <1>4
    <3> QED BY <1>0, <1>3, <3>1, <3>2, <3>3, SameTrans
  <2>5. ASSUME NEW k \in 1..Len(q), Rel(r, q, k)
        PROVE  r2.offset <= q[k].from /\ r2.offset <= Len(G2)
    <3>1. r.offset <= q[k].from
      BY <2>1, <2>5 DEF Link
    <3>2. q[k].from \in Nat
      BY WriteTypes DEF Core
    <3> QED BY <3>1, <3>2, <1>1, <1>30, <1>4, SMTT(20)
  <2>6. ASSUME ~hasNextSnapshot(r)
        PROVE  /\ Same(r2.offsetInProgress - 1, D[Len(q)], G2)
               /\ r2.offsetInProgress = Len(G2) + 1 => D[Len(q)] = G2
    <3>1. Same(r.offsetInProgress - 1, D[Len(q)], G)
      BY <2>1, <2>6 DEF Link
    <3>2. D[Len(q)] \in Seq(Entry)
      BY <1>1, SMTT(20) DEF Core, Disks
    <3>3. /\ r2.offsetInProgress - 1 \in Nat /\ r.offsetInProgress - 1 \in Nat /\ from - 1 \in Nat
          /\ r2.offsetInProgress - 1 <= r.offsetInProgress - 1 /\ r2.offsetInProgress - 1 <= from - 1
      <4>1. r.offsetInProgress > 0 /\ from > 0
        BY <1>31, <1>32, <1>30, <1>5
      <4> QED BY <4>1, <1>32, <1>4
    <3>4. Same(r2.offsetInProgress - 1, D[Len(q)], G2)
      BY <1>0, <1>3, <3>1, <3>2, <3>3, SameTrans
    <3>5. ~(r2.offsetInProgress = Len(G2) + 1)
      BY <1>1, <1>30, <1>4
    <3> QED BY <3>4, <3>5
  <2>7. m.index <= MaxOf(r2.applied, r2.snapshot.index) /\ (Rel(r2, q, 0) /\ r2.snapshot # NoSnap => m.index = r2.snapshot.index)
    BY <2>1, <2>3, <1>2 DEF Link
  <2>8. ASSUME NEW k \in 1..Len(q)
        PROVE  /\ Rel(r, q, k) => (q[k].snapshot # NoSnap => q[k].snapshot = r.snapshot)
               /\ (IF w.async THEN r.applying ELSE r.applied) < q[k].from
               /\ q[k].snapshot # NoSnap =>
                    /\ r.snapshot # NoSnap
                    /\ q[k].snapshot.index <= r.snapshot.index
                    /\ ~r.snapshotInProgress => q[k].snapshot.index < r.snapshot.index
                    /\ r.applying < q[k].snapshot.index
    BY <2>1 DEF Link
  <2> QED BY <2>2, <2>3, <2>4, <2>5, <2>6, <2>7, <2>8, <1>2 DEF Link
<1>10. Ahead(r2, a)
  BY <1>2 DEF Core, Ahead, hasNextSnapshot
<1> QED BY <1>0, <1>2, <1>6, <1>7, <1>8, <1>9, <1>10 DEF Core

\* A restored snapshot keeps Core: what was on its way to disk no longer counts.
LEMMA RestoresCore ==
    ASSUME NEW w, NEW r, NEW m, NEW q, NEW a, NEW G, NEW D, NEW H, NEW r2, NEW G2, NEW i,
           Core(w, r, m, q, a, G, D, H), Restores(w, r, G, r2, G2, i)
    PROVE  Core(w, r2, m, q, a, G2, D, H)
<1>0. r \in Nodes /\ r2 \in Nodes /\ w \in Worlds /\ G \in Seq(Entry) /\ G2 \in Seq(Entry) /\ m \in Storages
  BY DEF Core, Memory, Restores, Keeps
<1>1. /\ r.Term \in Nat /\ r.committed \in Nat /\ i \in Nat
      /\ r.prevHardSt.Term \in Nat /\ r.prevHardSt.commit \in Nat /\ r.applying \in Nat /\ r.applied \in Nat
      /\ r.snapshot.index \in Nat /\ Len(G) \in Nat /\ Len(G2) \in Nat /\ Len(q) \in Nat /\ m.index \in Nat
  BY <1>0, NodeTypes, StorageTypes DEF Restores, Core
<1>2. /\ r2.applied = r.applied /\ r2.applying = r.applying
      /\ r2.applyingEntsSize = r.applyingEntsSize /\ r2.applyingEntsPaused = r.applyingEntsPaused
      /\ r2.prevHardSt = r.prevHardSt
      /\ r2.Term = r.Term /\ r2.committed = i /\ r2.state = r.state
      /\ r2.offset = i + 1 /\ r2.offsetInProgress = i + 1 /\ r2.entries = << >>
      /\ r2.snapshotInProgress = FALSE
  BY DEF Restores, Keeps
<1>3. /\ r.Term \in DOMAIN w.log /\ CommitOK(w, G2, r.Term, i) /\ r.Term \notin w.mine
      /\ Same(Len(G2), G2, w.log[r.Term])
      /\ r.committed < i /\ i = Len(G2)
  BY DEF Restores
<1>4. r2.snapshot.index = i /\ r2.snapshot.term = G2[i].term /\ r2.snapshot # NoSnap
  <2>1. r2.snapshot = [index |-> i, term |-> G2[i].term]
    BY DEF Restores
  <2>2. i # 0
    BY <1>1, <1>3
  <2> QED BY <2>1, <2>2 DEF NoSnap
<1>5. r.applied <= r.applying /\ r.applying <= r.committed /\ Cursors(w, r)
  BY DEF Core, Cursors
<1>6. Memory(w, r2, G2)
  <2>1. Sound(w, G2)
    <3>1. Sound(w, w.log[r.Term]) /\ w.log[r.Term] \in Seq(Entry)
      BY <1>0, <1>3, LeadersSound, WorldTypes
    <3>2. Same(Len(G2), w.log[r.Term], G2)
      BY <1>3, SameSym
    <3> QED BY <1>0, <1>1, <1>2, <3>1, <3>2, SoundPrefix
  <2>2. r2.state = "StateFollower"
    BY <1>2, <1>3 DEF Core, Memory
  <2>3. Len(r2.entries) = 0
    BY <1>2
  <2>4. r2.offset > 0 /\ r2.offset + Len(r2.entries) = Len(G2) + 1 /\ r2.offset <= r2.offsetInProgress
        /\ r2.offsetInProgress <= Len(G2) + 1
    BY <1>1, <1>2, <1>3, <2>3
  <2>5. TailOf(r2.entries, r2.offset, G2)
    BY <2>3, <2>4 DEF TailOf
  <2>6. ~(r2.state = "StateLeader")
    BY <2>2
  <2> QED BY <1>0, <1>2, <1>3, <2>1, <2>2, <2>4, <2>5, <2>6 DEF Memory
<1>7. Cursors(w, r2)
  BY <1>1, <1>2, <1>3, <1>5 DEF Cursors
<1>8. Pending(r2, G2)
  BY <1>1, <1>2, <1>3, <1>4, <1>5 DEF Pending
<1>9. Link(w, r2, m, q, G2, D)
  <2>1. Link(w, r, m, q, G, D)
    BY DEF Core
  <2>2. hasNextSnapshot(r2) /\ \A k : ~Rel(r2, q, k)
    BY <1>2, <1>4 DEF hasNextSnapshot, Rel
  <2>3. m.index <= i
    <3>1. m.index <= MaxOf(r.applied, r.snapshot.index)
      BY <2>1 DEF Link
    <3>2. r.snapshot # NoSnap => r.snapshot.index <= r.committed
      BY DEF Core, Pending
    <3>3. r.snapshot = NoSnap => r.snapshot.index = 0
      BY DEF NoSnap
    <3> QED BY <3>1, <3>2, <3>3, <1>1, <1>3, <1>5 DEF MaxOf
  <2>4. m.index <= MaxOf(r2.applied, r2.snapshot.index)
    BY <2>3, <1>1, <1>2, <1>4, <1>5, <1>3 DEF MaxOf
  <2>5. ASSUME NEW k \in 1..Len(q)
        PROVE  /\ (IF w.async THEN r2.applying ELSE r2.applied) < q[k].from
               /\ q[k].snapshot # NoSnap =>
                    q[k].snapshot.index < r2.snapshot.index /\ r2.applying < q[k].snapshot.index
    <3>1. /\ (IF w.async THEN r.applying ELSE r.applied) < q[k].from
          /\ q[k].snapshot # NoSnap =>
               r.snapshot # NoSnap /\ q[k].snapshot.index <= r.snapshot.index /\ r.applying < q[k].snapshot.index
      BY <2>1 DEF Link
    <3>2. r.snapshot # NoSnap => r.snapshot.index <= r.committed
      BY DEF Core, Pending
    <3>3. q[k].snapshot.index \in Nat
      BY WriteTypes DEF Core
    <3>4. q[k].snapshot # NoSnap => q[k].snapshot.index < r2.snapshot.index
      BY <3>1, <3>2, <3>3, <1>1, <1>3, <1>4
    <3> QED BY <3>1, <3>4, <1>2
  <2>6. ASSUME NEW k \in 1..Len(q), q[k].snapshot # NoSnap PROVE q[k].snapshot.index <= r2.snapshot.index
    <3>1. q[k].snapshot.index < r2.snapshot.index
      BY <2>5, <2>6
    <3>2. q[k].snapshot.index \in Nat
      BY WriteTypes DEF Core
    <3> QED BY <3>1, <3>2, <1>1, <1>4
  <2> QED BY <2>2, <2>4, <2>5, <2>6, <1>4 DEF Link
<1>10. Ahead(r2, a)
  <2>1. a <= r.applying \/ a <= r.snapshot.index
    BY DEF Core, Ahead
  <2>2. r.snapshot # NoSnap => r.snapshot.index <= r.committed
    BY DEF Core, Pending
  <2>3. r.snapshot = NoSnap => r.snapshot.index = 0
    BY DEF NoSnap
  <2>4. a \in Nat
    BY DEF Core
  <2>5. a < i
    BY <2>1, <2>2, <2>3, <2>4, <1>1, <1>3, <1>5
  <2> QED BY <2>4, <2>5, <1>1, <1>4 DEF Ahead
<1> QED BY <1>0, <1>2, <1>6, <1>7, <1>8, <1>9, <1>10 DEF Core

\* The types of a response's fields.
LEMMA RespTypes ==
    ASSUME NEW x \in AppendResps
    PROVE  x.term \in Nat /\ x.index \in Nat /\ x.logTerm \in Nat /\ x.snapshot \in Snapshots
           /\ x.snapshot.index \in Nat
BY DEF AppendResps, Snapshots

\* A step that leaves the log as it is leaves the responses true.
LEMMA LeavesLogResponse ==
    ASSUME NEW w, NEW r, NEW m, NEW q, NEW a, NEW G, NEW D, NEW H, NEW r2, NEW x \in AppendResps, NEW p, NEW c,
           Core(w, r, m, q, a, G, D, H), LeavesLog(w, r, G, r2), Response(w, r, q, G, D, x, p, c)
    PROVE  Response(w, r2, q, G, D, x, p, c)
<1>0. r \in Nodes /\ r2 \in Nodes
  BY DEF Core, LeavesLog, Keeps
<1>1. r.Term \in Nat /\ r2.Term \in Nat /\ r.committed \in Nat /\ r2.committed \in Nat /\ x.term \in Nat /\ x.index \in Nat
  BY <1>0, NodeTypes, RespTypes
<1>2. /\ r2.applied = r.applied /\ r2.snapshot = r.snapshot /\ r2.snapshotInProgress = r.snapshotInProgress
      /\ r2.offset = r.offset /\ r2.offsetInProgress = r.offsetInProgress
      /\ r.Term <= r2.Term /\ r.committed <= r2.committed
  BY DEF LeavesLog, Keeps
<1>3. x.term <= r.Term
  BY DEF Response
<1>4. x.term <= r2.Term
  BY <1>1, <1>2, <1>3
<1>5. ASSUME x.term = r2.Term, x.index # 0
      PROVE  Gone(r2, x) \/ Lacks(w, r2, G, x) \/ (Has(r2, q, G, D, x, p) /\ (r2.snapshot # NoSnap => c))
  <2>1. r2.Term = r.Term
    BY <1>1, <1>2, <1>3, <1>5
  <2>2. Gone(r, x) \/ Lacks(w, r, G, x) \/ (Has(r, q, G, D, x, p) /\ (r.snapshot # NoSnap => c))
    BY <1>5, <2>1 DEF Response
  <2>3. CASE Gone(r, x)
    BY <2>3, <1>1, <1>2 DEF Gone
  <2>4. CASE Lacks(w, r, G, x)
    BY <2>1, <2>4 DEF Lacks
  <2>5. CASE Has(r, q, G, D, x, p) /\ (r.snapshot # NoSnap => c)
    <3>1. Rel(r2, q, p) = Rel(r, q, p)
      BY <1>2 DEF Rel, hasNextSnapshot
    <3> QED BY <2>5, <3>1, <1>2 DEF Has
  <2> QED BY <2>2, <2>3, <2>4, <2>5
<1> QED BY <1>2, <1>4, <1>5 DEF Response

\* An overwritten entry is one that the leader Lacks: the ABA problem does not
\* arise within a term, and a response of another term does not count.
LEMMA OverwritesResponse ==
    ASSUME NEW w, NEW r, NEW m, NEW q, NEW a, NEW G, NEW D, NEW H, NEW r2, NEW G2, NEW from,
           NEW x \in AppendResps, NEW p \in 0..Len(q), NEW c,
           Core(w, r, m, q, a, G, D, H), Overwrites(w, r, G, r2, G2, from), Response(w, r, q, G, D, x, p, c)
    PROVE  Response(w, r2, q, G2, D, x, p, c)
<1>0. r \in Nodes /\ r2 \in Nodes /\ w \in Worlds /\ G \in Seq(Entry) /\ G2 \in Seq(Entry) /\ Len(q) \in Nat
  BY DEF Core, Memory, Overwrites, Keeps
<1>1. /\ r.committed \in Nat /\ r2.committed \in Nat /\ x.index \in Nat /\ from \in Nat
      /\ r.offset \in Nat /\ r2.offset \in Nat /\ Len(G) \in Nat /\ Len(G2) \in Nat
      /\ r.offsetInProgress \in Nat /\ r2.offsetInProgress \in Nat
  BY <1>0, NodeTypes, RespTypes DEF Overwrites
<1>2. /\ r2.applied = r.applied /\ r2.snapshot = r.snapshot /\ r2.snapshotInProgress = r.snapshotInProgress
      /\ r.Term = r2.Term
  BY DEF Overwrites, Keeps
<1>3. r.committed <= r2.committed /\ r.committed < from /\ from <= Len(G) + 1 /\ from <= Len(G2)
  BY DEF Overwrites
<1>4. /\ Same(from - 1, G, G2) /\ Same(Len(G2), G2, w.log[r.Term]) /\ r.Term \in DOMAIN w.log
      /\ from <= Len(G) => G[from].term # G2[from].term
  BY DEF Overwrites
<1>5. /\ (r2.offset = r.offset \/ r2.offset = from)
      /\ (r2.offsetInProgress = r.offsetInProgress \/ r2.offsetInProgress = from)
  BY <1>1 DEF Overwrites, MinOf
<1>6. w.log[r.Term] \in Seq(Entry) /\ Sound(w, w.log[r.Term]) /\ Sound(w, G)
  BY <1>0, <1>4, WorldTypes, LeadersSound DEF Core, Memory
<1>7. \A i \in 1..Len(G2) : i <= Len(w.log[r.Term]) /\ G2[i] = w.log[r.Term][i]
  <2>1. Len(w.log[r.Term]) \in Nat
    BY <1>6
  <2>2. Len(G2) <= Len(w.log[r.Term])
    BY <1>4 DEF Same
  <2> QED BY <2>1, <2>2, <1>1, <1>4 DEF Same
<1>8. ASSUME x.term = r.Term, x.index # 0
      PROVE  Gone(r2, x) \/ Lacks(w, r2, G2, x) \/ (Has(r2, q, G2, D, x, p) /\ (r2.snapshot # NoSnap => c))
  <2>1. Gone(r, x) \/ Lacks(w, r, G, x) \/ (Has(r, q, G, D, x, p) /\ (r.snapshot # NoSnap => c))
    BY <1>8 DEF Response
  <2>2. CASE Gone(r, x)
    <3>1. x.index < r.offset /\ x.index <= r.committed
      BY <2>2 DEF Gone
    <3>2. x.index < r2.offset
      BY <3>1, <1>1, <1>3, <1>5
    <3>3. x.index <= r2.committed
      BY <3>1, <1>1, <1>3
    <3> QED BY <3>2, <3>3 DEF Gone
  <2>3. CASE Lacks(w, r, G, x)
    <3>1. x.index <= Len(w.log[r.Term]) => w.log[r.Term][x.index].term # x.logTerm
      BY <2>3 DEF Lacks
    <3>2. ASSUME x.index <= Len(G2) PROVE G2[x.index].term # x.logTerm
      <4>1. x.index \in 1..Len(G2)
        BY <3>2, <1>1, <1>8
      <4> QED BY <3>1, <4>1, <1>7
    <3> QED BY <3>1, <3>2, <1>2 DEF Lacks
  <2>4. CASE Has(r, q, G, D, x, p) /\ (r.snapshot # NoSnap => c)
    <3>1. x.index <= Len(G) /\ x.index < r.offsetInProgress /\ G[x.index].term = x.logTerm
      BY <2>4 DEF Has
    <3>2. CASE x.index < from
      <4>1. x.index \in 1..(from - 1) /\ x.index < r2.offsetInProgress /\ x.index <= Len(G2) /\ x.index < Len(G2)
        BY <1>1, <1>3, <1>5, <1>8, <3>1, <3>2, SMTT(20)
      <4>2. G2[x.index].term = x.logTerm
        BY <4>1, <3>1, <1>4 DEF Same
      <4>3. Rel(r2, q, p)
        BY <2>4, <1>2 DEF Has, Rel, hasNextSnapshot
      <4>4. ASSUME NEW k \in p..Len(q) PROVE Same(x.index, D[k], G2)
        <5>1. Same(x.index, D[k], G)
          BY <2>4 DEF Has
        <5>20. k \in 0..Len(q)
          BY <1>0
        <5>2. D[k] \in Seq(Entry)
          BY <5>20 DEF Core, Disks
        <5>3. from - 1 \in Nat /\ x.index <= from - 1 /\ x.index <= x.index
          BY <1>1, <1>3, <3>2
        <5> QED BY <5>1, <5>2, <5>3, <1>0, <1>1, <1>4, SameTrans
      <4>5. \A k \in (p + 1)..Len(q) : x.index < q[k].from /\ (q[k].ents # << >> => x.index < Len(G2))
        BY <2>4, <4>1 DEF Has
      <4>6. Has(r2, q, G2, D, x, p)
        BY <4>1, <4>2, <4>3, <4>4, <4>5 DEF Has
      <4> QED BY <4>6, <2>4, <1>2
    <3>3. CASE ~(x.index < from)
      <4>1. from <= Len(G) /\ from \in 1..x.index
        BY <3>1, <3>3, <1>1, <1>3
      <4>2. G[from].term # G2[from].term /\ G2[from] = w.log[r.Term][from]
        <5>1. from \in 1..Len(G2)
          BY <4>1, <1>1, <1>3
        <5> QED BY <4>1, <5>1, <1>4, <1>7
      <4>3. ASSUME x.index <= Len(w.log[r.Term]) PROVE w.log[r.Term][x.index].term # x.logTerm
        <5>1. SUFFICES ASSUME w.log[r.Term][x.index].term = x.logTerm PROVE FALSE
          OBVIOUS
        <5>2. x.index > 0
          BY <1>1, <1>8
        <5>3. Same(x.index, G, w.log[r.Term])
          BY <5>1, <5>2, <4>3, <3>1, <1>0, <1>1, <1>6, LogMatching
        <5>4. G[from] = w.log[r.Term][from]
          BY <5>3, <4>1 DEF Same
        <5> QED BY <5>4, <4>2
      <4>4. ASSUME x.index <= Len(G2) PROVE G2[x.index].term # x.logTerm
        <5>1. x.index \in 1..Len(G2)
          BY <4>4, <1>1, <1>8
        <5> QED BY <4>3, <5>1, <1>7
      <4>5. Lacks(w, r2, G2, x)
        BY <4>3, <4>4, <1>2 DEF Lacks
      <4> QED BY <4>5
    <3> QED BY <3>2, <3>3
  <2> QED BY <2>1, <2>2, <2>3, <2>4
<1> QED BY <1>2, <1>8 DEF Response

\* After a restored snapshot a response on its way is Gone or Lacking.
LEMMA RestoresResponse ==
    ASSUME NEW w, NEW r, NEW m, NEW q, NEW a, NEW G, NEW D, NEW H, NEW r2, NEW G2, NEW i,
           NEW x \in AppendResps, NEW p \in 0..Len(q), NEW c, NEW c2,
           Core(w, r, m, q, a, G, D, H), Restores(w, r, G, r2, G2, i), Response(w, r, q, G, D, x, p, c)
    PROVE  Response(w, r2, q, G2, D, x, p, c2)
<1>0. r \in Nodes /\ r2 \in Nodes /\ w \in Worlds /\ G \in Seq(Entry) /\ G2 \in Seq(Entry) /\ Len(q) \in Nat
  BY DEF Core, Memory, Restores, Keeps
<1>1. /\ r.committed \in Nat /\ x.index \in Nat /\ i \in Nat
      /\ Len(G) \in Nat /\ Len(G2) \in Nat
  BY <1>0, NodeTypes, RespTypes DEF Restores
<1>2. /\ r2.applied = r.applied /\ r2.Term = r.Term /\ r2.committed = i /\ r2.offset = i + 1
      /\ r.committed < i /\ i = Len(G2)
  BY DEF Restores, Keeps
<1>3. /\ Same(Len(G2), G2, w.log[r.Term]) /\ r.Term \in DOMAIN w.log
      /\ i <= Len(G) => G[i].term # G2[i].term
  BY DEF Restores
<1>4. r2.snapshot.index = i /\ r2.snapshot # NoSnap
  <2>1. r2.snapshot = [index |-> i, term |-> G2[i].term]
    BY DEF Restores
  <2>2. i # 0
    BY <1>1, <1>2
  <2> QED BY <2>1, <2>2 DEF NoSnap
<1>6. w.log[r.Term] \in Seq(Entry) /\ Sound(w, w.log[r.Term]) /\ Sound(w, G)
  BY <1>0, <1>3, WorldTypes, LeadersSound DEF Core, Memory
<1>7. \A j \in 1..Len(G2) : j <= Len(w.log[r.Term]) /\ G2[j] = w.log[r.Term][j]
  <2>1. Len(w.log[r.Term]) \in Nat
    BY <1>6
  <2>2. Len(G2) <= Len(w.log[r.Term])
    BY <1>3 DEF Same
  <2> QED BY <2>1, <2>2, <1>1, <1>3 DEF Same
<1>8. ASSUME x.term = r.Term, x.index # 0
      PROVE  Gone(r2, x) \/ Lacks(w, r2, G2, x)
  <2>1. Gone(r, x) \/ Lacks(w, r, G, x) \/ Has(r, q, G, D, x, p)
    BY <1>8 DEF Response
  <2>2. CASE x.index <= i
    BY <2>2, <1>1, <1>2 DEF Gone
  <2>3. CASE ~(x.index <= i)
    <3>1. ~(x.index <= Len(G2))
      BY <2>3, <1>2
    <3>2. ASSUME x.index <= Len(w.log[r.Term]), w.log[r.Term][x.index].term = x.logTerm PROVE FALSE
      <4>1. ~Gone(r, x)
        BY <2>3, <1>1, <1>2 DEF Gone
      <4>2. ~Lacks(w, r, G, x)
        BY <3>2 DEF Lacks
      <4>3. x.index <= Len(G) /\ G[x.index].term = x.logTerm
        BY <4>1, <4>2, <2>1 DEF Has
      <4>4. x.index > 0
        BY <1>1, <1>8
      <4>5. Same(x.index, G, w.log[r.Term])
        BY <3>2, <4>3, <4>4, <1>0, <1>1, <1>6, LogMatching
      <4>6. i \in 1..x.index /\ i <= Len(G) /\ i \in 1..Len(G2)
        BY <2>3, <4>3, <1>1, <1>2
      <4>7. G[i] = w.log[r.Term][i] /\ G2[i] = w.log[r.Term][i]
        BY <4>5, <4>6, <1>7 DEF Same
      <4> QED BY <4>6, <4>7, <1>3
    <3> QED BY <3>1, <3>2, <1>2 DEF Lacks
  <2> QED BY <2>2, <2>3
<1>9. x.snapshot.index <= r2.applied \/ x.snapshot.index < r2.snapshot.index
  <2>1. x.snapshot.index <= r.applied \/ (r.snapshot # NoSnap /\ x.snapshot.index <= r.snapshot.index)
    BY DEF Response
  <2>2. r.snapshot # NoSnap => r.snapshot.index <= r.committed
    BY DEF Core, Pending
  <2>3. r.snapshot.index \in Nat /\ x.snapshot.index \in Nat
    BY <1>0, NodeTypes, RespTypes
  <2> QED BY <2>1, <2>2, <2>3, <1>1, <1>2, <1>4
<1>10. \/ x.snapshot.index <= r2.applied
       \/ /\ r2.snapshot # NoSnap /\ x.snapshot.index <= r2.snapshot.index
          /\ ~r2.snapshotInProgress => x.snapshot.index < r2.snapshot.index
  <2>1. x.snapshot.index \in Nat /\ r2.snapshot.index \in Nat
    BY <1>1, <1>4, RespTypes
  <2> QED BY <2>1, <1>4, <1>9
<1> QED BY <1>2, <1>8, <1>10 DEF Response

\* The whole invariant, of the values it is about.
Whole(w, r, m, q, aq, rs, as, a, G, D, H) ==
    /\ Core(w, r, m, q, a, G, D, H)
    /\ aq \in Seq(Batches) /\ rs \in Seq(AppendResps) /\ as \in Seq(Batches)
    /\ w.async => AsyncMode(r) /\ AsyncResponses(w, r, q, rs, a, G, D)
    /\ ~w.async => SyncMode(r, q, rs, as) /\ SyncResponses(w, r, q, a, G, D)
    /\ BatchInv(w, r, m, aq, as, a, D[0])

\* A response of the append thread that Advance will step is one.
LEMMA StepTypes ==
    ASSUME NEW r \in Nodes, NEW i \in 1..Len(r.stepsOnAdvance), IsAppendResp(r.stepsOnAdvance[i])
    PROVE  r.stepsOnAdvance[i] \in AppendResps
<1>1. r.stepsOnAdvance \in Seq(AppendResps \cup Batches)
  BY DEF Nodes
<1>2. r.stepsOnAdvance[i] \in AppendResps \cup Batches
  BY <1>1
<1>3. \A b \in Batches : b.type = "MsgStorageApplyResp"
  BY DEF Batches
<1>4. "MsgStorageApplyResp" # "MsgStorageAppendResp"
  OBVIOUS
<1> QED BY <1>2, <1>3, <1>4 DEF IsAppendResp

\* A write's response is one of the append thread.
LEMMA QueueRespTypes ==
    ASSUME NEW q \in Seq(Writes), NEW k \in 1..Len(q), q[k].resps # << >>
    PROVE  q[k].resps[1] \in AppendResps
<1>1. q[k].resps \in Seq(AppendResps)
  BY WriteTypes
<1> QED BY <1>1

\* The batches depend on the node by its applying cursor and its steps only.
LEMMA BatchInvKeeps ==
    ASSUME NEW w, NEW r, NEW m, NEW aq, NEW as, NEW a, NEW d, NEW r2,
           BatchInv(w, r, m, aq, as, a, d), r2.applying = r.applying, r2.stepsOnAdvance = r.stepsOnAdvance
    PROVE  BatchInv(w, r2, m, aq, as, a, d)
BY DEF BatchInv, BatchOK

\* A step of raft that keeps the pending snapshot and the truth of the responses
\* keeps the whole invariant.
LEMMA SameSnapshotWhole ==
    ASSUME NEW w, NEW r, NEW m, NEW q, NEW aq, NEW rs, NEW as, NEW a, NEW G, NEW D, NEW H, NEW r2, NEW G2,
           Whole(w, r, m, q, aq, rs, as, a, G, D, H), Core(w, r2, m, q, a, G2, D, H), Keeps(r, r2),
           r2.snapshot = r.snapshot, r2.snapshotInProgress = r.snapshotInProgress,
           \A x \in AppendResps, p \in 0..Len(q) : \A c :
               Response(w, r, q, G, D, x, p, c) => Response(w, r2, q, G2, D, x, p, c)
    PROVE  Whole(w, r2, m, q, aq, rs, as, a, G2, D, H)
<1>0. q \in Seq(Writes) /\ r \in Nodes /\ Len(q) \in Nat /\ rs \in Seq(AppendResps)
  BY DEF Whole, Core
<1>1. r2.applying = r.applying /\ r2.stepsOnAdvance = r.stepsOnAdvance /\ r2.advancing = r.advancing
  BY DEF Keeps
<1>2. BatchInv(w, r2, m, aq, as, a, D[0])
  BY <1>1, BatchInvKeeps DEF Whole
<1>3. ASSUME w.async PROVE AsyncMode(r2) /\ AsyncResponses(w, r2, q, rs, a, G2, D)
  <2>1. AsyncMode(r) /\ AsyncResponses(w, r, q, rs, a, G, D)
    BY <1>3 DEF Whole
  <2>2. AsyncMode(r2)
    BY <2>1, <1>1 DEF AsyncMode
  <2>3. \A i : CarriedBy(r2, rs, i) = CarriedBy(r, rs, i)
    BY DEF CarriedBy
  <2>4. \A k : CarriedUpTo(r2, q, rs, k) = CarriedUpTo(r, q, rs, k)
    BY <2>3 DEF CarriedUpTo
  <2>5. ASSUME NEW i \in 1..Len(rs)
        PROVE  rs[i].snapshot.index <= a /\ Response(w, r2, q, G2, D, rs[i], 0, CarriedBy(r2, rs, i))
    <3>1. rs[i].snapshot.index <= a /\ Response(w, r, q, G, D, rs[i], 0, CarriedBy(r, rs, i))
      BY <2>1 DEF AsyncResponses
    <3>2. rs[i] \in AppendResps /\ 0 \in 0..Len(q)
      BY <1>0
    <3> QED BY <3>1, <3>2, <2>3
  <2>6. ASSUME NEW k \in 1..Len(q), q[k].resps # << >>
        PROVE  Response(w, r2, q, G2, D, q[k].resps[1], k, CarriedUpTo(r2, q, rs, k))
    <3>1. Response(w, r, q, G, D, q[k].resps[1], k, CarriedUpTo(r, q, rs, k))
      BY <2>1, <2>6 DEF AsyncResponses
    <3>2. q[k].resps[1] \in AppendResps /\ k \in 0..Len(q)
      BY <1>0, <2>6, QueueRespTypes
    <3> QED BY <3>1, <3>2, <2>4
  <2>7. r2.snapshotInProgress => CarriedUpTo(r2, q, rs, Len(q))
    BY <2>1, <2>4 DEF AsyncResponses
  <2> QED BY <2>2, <2>5, <2>6, <2>7 DEF AsyncResponses
<1>4. ASSUME ~w.async PROVE SyncMode(r2, q, rs, as) /\ SyncResponses(w, r2, q, a, G2, D)
  <2>1. SyncMode(r, q, rs, as) /\ SyncResponses(w, r, q, a, G, D)
    BY <1>4 DEF Whole
  <2>2. SyncMode(r2, q, rs, as)
    BY <2>1, <1>1 DEF SyncMode
  <2>3. ASSUME NEW i \in 1..Len(r2.stepsOnAdvance), IsAppendResp(r2.stepsOnAdvance[i])
        PROVE  SyncResponse(w, r2, q, a, G2, D, r2.stepsOnAdvance[i])
    <3>1. SyncResponse(w, r, q, a, G, D, r.stepsOnAdvance[i])
      BY <2>1, <2>3, <1>1 DEF SyncResponses
    <3>2. r.stepsOnAdvance[i] \in AppendResps
      BY <2>3, <1>0, <1>1, StepTypes
    <3>3. Len(q) \in 0..Len(q)
      BY <1>0
    <3> QED BY <3>1, <3>2, <3>3, <1>1 DEF SyncResponse
  <2>4. r2.snapshotInProgress => \E i \in 1..Len(r2.stepsOnAdvance) :
            IsAppendResp(r2.stepsOnAdvance[i]) /\ r2.stepsOnAdvance[i].snapshot = r2.snapshot
    BY <2>1, <1>1 DEF SyncResponses
  <2> QED BY <2>2, <2>3, <2>4 DEF SyncResponses
<1> QED BY <1>2, <1>3, <1>4 DEF Whole

\* A step that leaves the log as it is keeps the whole invariant.
LEMMA LeavesLogWhole ==
    ASSUME NEW w, NEW r, NEW m, NEW q, NEW aq, NEW rs, NEW as, NEW a, NEW G, NEW D, NEW H, NEW r2,
           Whole(w, r, m, q, aq, rs, as, a, G, D, H), LeavesLog(w, r, G, r2)
    PROVE  Whole(w, r2, m, q, aq, rs, as, a, G, D, H)
<1>1. Core(w, r, m, q, a, G, D, H)
  BY DEF Whole
<1>2. Core(w, r2, m, q, a, G, D, H)
  BY <1>1, LeavesLogCore
<1>3. ASSUME NEW x \in AppendResps, NEW p \in 0..Len(q), NEW c, Response(w, r, q, G, D, x, p, c)
      PROVE  Response(w, r2, q, G, D, x, p, c)
  BY <1>1, <1>3, LeavesLogResponse
<1>4. Keeps(r, r2) /\ r2.snapshot = r.snapshot /\ r2.snapshotInProgress = r.snapshotInProgress
  BY DEF LeavesLog
<1> QED BY <1>2, <1>3, <1>4, SameSnapshotWhole

\* A step that overwrites the log keeps the whole invariant.
LEMMA OverwritesWhole ==
    ASSUME NEW w, NEW r, NEW m, NEW q, NEW aq, NEW rs, NEW as, NEW a, NEW G, NEW D, NEW H, NEW r2, NEW G2, NEW from,
           Whole(w, r, m, q, aq, rs, as, a, G, D, H), Overwrites(w, r, G, r2, G2, from)
    PROVE  Whole(w, r2, m, q, aq, rs, as, a, G2, D, H)
<1>1. Core(w, r, m, q, a, G, D, H)
  BY DEF Whole
<1>2. Core(w, r2, m, q, a, G2, D, H)
  BY <1>1, OverwritesCore
<1>3. ASSUME NEW x \in AppendResps, NEW p \in 0..Len(q), NEW c, Response(w, r, q, G, D, x, p, c)
      PROVE  Response(w, r2, q, G2, D, x, p, c)
  BY <1>1, <1>3, OverwritesResponse
<1>4. Keeps(r, r2) /\ r2.snapshot = r.snapshot /\ r2.snapshotInProgress = r.snapshotInProgress
  BY DEF Overwrites
<1> QED BY <1>2, <1>3, <1>4, SameSnapshotWhole

\* A restored snapshot keeps the whole invariant.
LEMMA RestoresWhole ==
    ASSUME NEW w, NEW r, NEW m, NEW q, NEW aq, NEW rs, NEW as, NEW a, NEW G, NEW D, NEW H, NEW r2, NEW G2, NEW j,
           Whole(w, r, m, q, aq, rs, as, a, G, D, H), Restores(w, r, G, r2, G2, j)
    PROVE  Whole(w, r2, m, q, aq, rs, as, a, G2, D, H)
<1>0. q \in Seq(Writes) /\ r \in Nodes /\ Len(q) \in Nat /\ rs \in Seq(AppendResps) /\ Core(w, r, m, q, a, G, D, H)
  BY DEF Whole, Core
<1>1. /\ r2.applying = r.applying /\ r2.stepsOnAdvance = r.stepsOnAdvance /\ r2.advancing = r.advancing
      /\ ~r2.snapshotInProgress
  BY DEF Keeps, Restores
<1>2. BatchInv(w, r2, m, aq, as, a, D[0])
  BY <1>1, BatchInvKeeps DEF Whole
<1>3. ASSUME w.async PROVE AsyncMode(r2) /\ AsyncResponses(w, r2, q, rs, a, G2, D)
  <2>1. AsyncMode(r) /\ AsyncResponses(w, r, q, rs, a, G, D)
    BY <1>3 DEF Whole
  <2>2. AsyncMode(r2)
    BY <2>1, <1>1 DEF AsyncMode
  <2>5. ASSUME NEW i \in 1..Len(rs)
        PROVE  rs[i].snapshot.index <= a /\ Response(w, r2, q, G2, D, rs[i], 0, CarriedBy(r2, rs, i))
    <3>1. rs[i].snapshot.index <= a /\ Response(w, r, q, G, D, rs[i], 0, CarriedBy(r, rs, i))
      BY <2>1 DEF AsyncResponses
    <3>2. rs[i] \in AppendResps /\ 0 \in 0..Len(q)
      BY <1>0
    <3> QED BY <3>1, <3>2, <1>0, RestoresResponse
  <2>6. ASSUME NEW k \in 1..Len(q), q[k].resps # << >>
        PROVE  Response(w, r2, q, G2, D, q[k].resps[1], k, CarriedUpTo(r2, q, rs, k))
    <3>1. Response(w, r, q, G, D, q[k].resps[1], k, CarriedUpTo(r, q, rs, k))
      BY <2>1, <2>6 DEF AsyncResponses
    <3>2. q[k].resps[1] \in AppendResps /\ k \in 0..Len(q)
      BY <1>0, <2>6, QueueRespTypes
    <3> QED BY <3>1, <3>2, <1>0, RestoresResponse
  <2> QED BY <2>2, <2>5, <2>6, <1>1 DEF AsyncResponses
<1>4. ASSUME ~w.async PROVE SyncMode(r2, q, rs, as) /\ SyncResponses(w, r2, q, a, G2, D)
  <2>1. SyncMode(r, q, rs, as) /\ SyncResponses(w, r, q, a, G, D)
    BY <1>4 DEF Whole
  <2>2. SyncMode(r2, q, rs, as)
    BY <2>1, <1>1 DEF SyncMode
  <2>3. ASSUME NEW i \in 1..Len(r2.stepsOnAdvance), IsAppendResp(r2.stepsOnAdvance[i])
        PROVE  SyncResponse(w, r2, q, a, G2, D, r2.stepsOnAdvance[i])
    <3> DEFINE x == r.stepsOnAdvance[i]
    <3>1. SyncResponse(w, r, q, a, G, D, x)
      BY <2>1, <2>3, <1>1 DEF SyncResponses
    <3>2. x \in AppendResps /\ Len(q) \in 0..Len(q)
      BY <2>3, <1>0, <1>1, StepTypes
    <3>3. Response(w, r, q, G, D, x, Len(q), x.snapshot = r.snapshot)
      BY <3>1 DEF SyncResponse
    <3>4. Response(w, r2, q, G2, D, x, Len(q), x.snapshot = r2.snapshot)
      BY <3>2, <3>3, <1>0, RestoresResponse
    <3> QED BY <3>1, <3>4, <1>1 DEF SyncResponse
  <2> QED BY <2>2, <2>3, <1>1 DEF SyncResponses
<1>5. Core(w, r2, m, q, a, G2, D, H)
  BY <1>0, RestoresCore
<1> QED BY <1>2, <1>3, <1>4, <1>5 DEF Whole

\* The invariant of a state: G is the log in memory, D and H the logs and
\* HardStates on disk now and after each queued write.
StateInv(G, D, H) ==
    /\ Whole(world, rn, ms, appendQ, applyQ, appendResps, applyResps, sm, G, D, H)
    /\ crashes \in Nat

\* A step of raft alone: what it leaves alone can be unprimed.
LEMMA QuietInv ==
    ASSUME NEW G, NEW D, NEW H, NEW G2, StateInv(G, D, H), Quiet,
           Whole(world, rn', ms, appendQ, applyQ, appendResps, applyResps, sm, G2, D, H)
    PROVE  StateInv(G2, D, H)'
BY DEF StateInv, Quiet

\* What a truncation leaves alone.
Truncates(r, x) ==
    /\ Keeps(r, x)
    /\ x.snapshot = r.snapshot /\ x.snapshotInProgress = r.snapshotInProgress
    /\ x.Term = r.Term /\ x.committed = r.committed /\ x.state = r.state

\* What truncateAndAppend leaves alone.
LEMMA TruncateKeeps ==
    ASSUME NEW r \in Nodes, NEW from \in Nat, NEW ents \in Seq(Entry),
           NEW o \in Nat, NEW n \in Nat, o = r.offset, n = Len(r.entries), from <= o + n,
           NEW x, x = truncateAndAppend(r, from, ents)
    PROVE  Truncates(r, x)
<1>0. r.entries \in Seq(Entry) /\ Len(r.entries) \in Nat /\ r.offset \in Nat /\ r.offsetInProgress \in Nat
  BY NodeTypes
<1>1. CASE from = unstableLast(r) + 1
  <2>1. x = [r EXCEPT !.entries = r.entries \o ents]
    BY <1>1 DEF truncateAndAppend
  <2>2. r.entries \o ents \in Seq(Entry)
    BY <1>0
  <2>3. x \in Nodes
    BY <2>1, <2>2 DEF Nodes
  <2> QED BY <2>1, <2>3 DEF Nodes, Keeps, Truncates
<1>2. CASE from # unstableLast(r) + 1 /\ from <= r.offset
  <2>1. x = [r EXCEPT !.entries = ents, !.offset = from, !.offsetInProgress = from]
    BY <1>2 DEF truncateAndAppend
  <2>3. x \in Nodes
    BY <2>1 DEF Nodes
  <2> QED BY <2>1, <2>3 DEF Nodes, Keeps, Truncates
<1>3. CASE from # unstableLast(r) + 1 /\ ~(from <= r.offset)
  <2>1. x = [r EXCEPT !.entries = SubSeq(r.entries, 1, from - r.offset) \o ents,
                      !.offsetInProgress = MinOf(r.offsetInProgress, from)]
    BY <1>3 DEF truncateAndAppend
  <2>2. from - r.offset \in Nat /\ from - r.offset <= Len(r.entries)
    BY <1>0, <1>3
  <2>4. SubSeq(r.entries, 1, from - r.offset) \in Seq(Entry)
    BY <1>0, <2>2
  <2>5. SubSeq(r.entries, 1, from - r.offset) \o ents \in Seq(Entry)
    BY <2>4
  <2>6. MinOf(r.offsetInProgress, from) \in Nat
    BY <1>0 DEF MinOf
  <2>3. x \in Nodes
    BY <2>1, <2>5, <2>6 DEF Nodes
  <2> QED BY <2>1, <2>3 DEF Nodes, Keeps, Truncates
<1> QED BY <1>1, <1>2, <1>3

\* x is r with the log G2 from index from on.
TruncatesTo(r, x, from, G2) ==
    /\ Truncates(r, x)
    /\ x.offset = MinOf(r.offset, from) /\ x.offsetInProgress = MinOf(r.offsetInProgress, from)
    /\ TailOf(x.entries, x.offset, G2)

\* The entries of two logs joined.
LEMMA ConcatIs ==
    ASSUME NEW a \in Seq(Entry), NEW b \in Seq(Entry), NEW n \in Nat, NEW k \in Nat, n = Len(a), k = Len(b)
    PROVE  /\ a \o b \in Seq(Entry) /\ Len(a \o b) = n + k
           /\ \A i \in 1..n : (a \o b)[i] = a[i]
           /\ \A i \in 1..k : (a \o b)[n + i] = b[i]
OBVIOUS

\* The entries of a part of a log.
LEMMA SubSeqIs ==
    ASSUME NEW a \in Seq(Entry), NEW i \in Nat, NEW j \in Nat, i > 0, i <= j + 1, j <= Len(a)
    PROVE  /\ SubSeq(a, i, j) \in Seq(Entry) /\ Len(SubSeq(a, i, j)) = j + 1 - i
           /\ \A k \in 1..(j + 1 - i) : SubSeq(a, i, j)[k] = a[i - 1 + k]
<1>1. j + 1 - i \in Nat
  OBVIOUS
<1>2. \A k \in 1..(j + 1 - i) : SubSeq(a, i, j)[k] = a[i - 1 + k]
  <2>1. \A k \in 1..(j + 1 - i) : i - 1 + k = i + k - 1
    OBVIOUS
  <2>2. \A k \in 1..(j + 1 - i) : SubSeq(a, i, j)[k] = a[i + k - 1]
    OBVIOUS
  <2> QED BY <2>1, <2>2
<1>3. Len(SubSeq(a, i, j)) = j + 1 - i
  BY <1>1
<1>4. SubSeq(a, i, j) \in Seq(Entry)
  <2>1. \A k \in 1..(j + 1 - i) : i + k - 1 \in 1..Len(a)
    OBVIOUS
  <2> QED BY <2>1, <1>1
<1> QED BY <1>2, <1>3, <1>4

\* Part of a tail, continued by another tail.
LEMMA TailConcat ==
    ASSUME NEW es \in Seq(Entry), NEW ents \in Seq(Entry), NEW G \in Seq(Entry), NEW G2 \in Seq(Entry),
           NEW o \in Nat, NEW f \in Nat, NEW k \in Nat,
           TailOf(es, o, G), TailOf(ents, f, G2), Same(f - 1, G, G2), f = o + k, k <= Len(es)
    PROVE  TailOf(SubSeq(es, 1, k) \o ents, o, G2)
<1> DEFINE h == SubSeq(es, 1, k)
           x == h \o ents
<1>1. PICK e \in Nat : e = Len(ents)
  OBVIOUS
<1>2. PICK g2 \in Nat : g2 = Len(G2)
  OBVIOUS
<1>3. PICK n \in Nat : n = Len(es)
  OBVIOUS
<1>4. f + e = g2 + 1 /\ o > 0 /\ k <= n
  BY <1>1, <1>2, <1>3 DEF TailOf
<1>5. /\ h \in Seq(Entry) /\ Len(h) = k
      /\ \A i \in 1..k : h[i] = es[i]
  <2>1. 1 <= k + 1 /\ k <= Len(es) /\ k + 1 - 1 = k /\ 1 > 0
    BY <1>3, <1>4
  <2>2. \A i \in 1..k : 1 - 1 + i = i
    OBVIOUS
  <2>3. 1 \in Nat
    OBVIOUS
  <2> QED BY <2>1, <2>2, <2>3, SubSeqIs
<1> HIDE DEF h
<1>6. /\ Len(x) = k + e
      /\ \A i \in 1..k : x[i] = h[i]
      /\ \A i \in 1..e : x[k + i] = ents[i]
  <2>1. k = Len(h) /\ h \in Seq(Entry)
    BY <1>5
  <2> QED BY <2>1, <1>1, ConcatIs
<1> HIDE DEF x
<1>7. o + (k + e) = g2 + 1
  BY <1>4
<1>8. ASSUME NEW i \in 1..(k + e) PROVE x[i] = G2[o - 1 + i]
  <2>1. CASE i <= k
    <3>1. i \in 1..k /\ i \in 1..n /\ o - 1 + i \in 1..(f - 1)
      BY <2>1, <1>4
    <3>2. x[i] = es[i]
      BY <3>1, <1>5, <1>6
    <3>3. es[i] = G[o - 1 + i]
      BY <3>1, <1>3 DEF TailOf
    <3>4. G[o - 1 + i] = G2[o - 1 + i]
      BY <3>1 DEF Same
    <3> QED BY <3>2, <3>3, <3>4
  <2>2. CASE ~(i <= k)
    <3>1. PICK j \in 1..e : i = k + j
      <4>1. i - k \in 1..e /\ i = k + (i - k)
        BY <2>2
      <4> QED BY <4>1
    <3>2. x[i] = ents[j]
      BY <3>1, <1>6
    <3>3. ents[j] = G2[f - 1 + j]
      BY <1>1 DEF TailOf
    <3>4. f - 1 + j = o - 1 + i
      BY <3>1
    <3> QED BY <3>2, <3>3, <3>4
  <2> QED BY <2>1, <2>2
<1>9. TailOf(x, o, G2)
  BY <1>2, <1>4, <1>6, <1>7, <1>8 DEF TailOf
<1> QED BY <1>9 DEF x, h

\* What truncateAndAppend does to the unstable log: it holds the new log's tail.
LEMMA TruncateIs ==
    ASSUME NEW r \in Nodes, NEW from \in Nat, NEW ents \in Seq(Entry), NEW G \in Seq(Entry), NEW G2 \in Seq(Entry),
           TailOf(r.entries, r.offset, G),
           r.offset <= r.offsetInProgress, r.offsetInProgress <= Len(G) + 1,
           from <= Len(G) + 1, Same(from - 1, G, G2), TailOf(ents, from, G2),
           NEW x, x = truncateAndAppend(r, from, ents)
    PROVE  TruncatesTo(r, x, from, G2)
<1>0. r.entries \in Seq(Entry) /\ r.offset \in Nat /\ r.offsetInProgress \in Nat
  BY NodeTypes
<1>1. PICK n \in Nat : n = Len(r.entries)
  BY <1>0
<1>2. PICK o \in Nat : o = r.offset
  BY <1>0
<1>3. PICK p \in Nat : p = r.offsetInProgress
  BY <1>0
<1>4. PICK g \in Nat : g = Len(G)
  OBVIOUS
<1>5. o + n = g + 1 /\ from <= g + 1 /\ o <= p /\ p <= g + 1 /\ o > 0
  BY <1>1, <1>2, <1>3, <1>4 DEF TailOf
<1>50. o + n - 1 + 1 = g + 1
  BY <1>5
<1>51. Truncates(r, x)
  <2>1. from <= o + n
    BY <1>5
  <2> QED BY <2>1, <1>1, <1>2, TruncateKeeps
<1>6. unstableLast(r) + 1 = g + 1
  BY <1>1, <1>2, <1>50 DEF unstableLast
<1>7. CASE from = g + 1
  <2>1. x = [r EXCEPT !.entries = r.entries \o ents]
    BY <1>6, <1>7 DEF truncateAndAppend
  <2>2. x.entries = r.entries \o ents /\ x.offset = o /\ x.offsetInProgress = p
    BY <2>1, <1>2, <1>3 DEF Nodes
  <2>3. MinOf(o, from) = o /\ MinOf(p, from) = p
    BY <1>5, <1>7 DEF MinOf
  <2>4. SubSeq(r.entries, 1, n) = r.entries
    BY <1>0, <1>1
  <2>5. from = o + n /\ n <= Len(r.entries)
    BY <1>1, <1>5, <1>7
  <2>6. TailOf(r.entries \o ents, o, G2)
    BY <2>4, <2>5, <1>0, <1>2, TailConcat
  <2> QED BY <2>2, <2>3, <2>6, <1>2, <1>3, <1>51 DEF TruncatesTo
<1>8. CASE from # g + 1 /\ from <= o
  <2>1. x = [r EXCEPT !.entries = ents, !.offset = from, !.offsetInProgress = from]
    BY <1>6, <1>8, <1>2 DEF truncateAndAppend
  <2>2. x.entries = ents /\ x.offset = from /\ x.offsetInProgress = from
    BY <2>1 DEF Nodes
  <2>3. MinOf(o, from) = from /\ MinOf(p, from) = from
    BY <1>5, <1>8 DEF MinOf
  <2> QED BY <2>2, <2>3, <1>2, <1>3, <1>51 DEF TruncatesTo
<1>9. CASE from # g + 1 /\ ~(from <= o)
  <2>0. PICK k \in Nat : from = o + k /\ k <= n /\ from - o = k
    <3>1. from - o \in Nat /\ from = o + (from - o) /\ from - o <= n
      BY <1>5, <1>9
    <3> QED BY <3>1
  <2>1. x = [r EXCEPT !.entries = SubSeq(r.entries, 1, k) \o ents,
                      !.offsetInProgress = MinOf(r.offsetInProgress, from)]
    BY <1>2, <1>6, <1>9, <2>0 DEF truncateAndAppend
  <2>2. x.entries = SubSeq(r.entries, 1, k) \o ents /\ x.offset = o
        /\ x.offsetInProgress = MinOf(p, from)
    BY <2>1, <1>2, <1>3 DEF Nodes
  <2>3. MinOf(o, from) = o
    BY <1>5, <1>9 DEF MinOf
  <2>4. k <= Len(r.entries)
    BY <2>0, <1>1
  <2>6. TailOf(SubSeq(r.entries, 1, k) \o ents, o, G2)
    BY <2>0, <2>4, <1>0, <1>2, TailConcat
  <2> QED BY <2>2, <2>3, <2>6, <1>2, <1>3, <1>51 DEF TruncatesTo
<1> QED BY <1>7, <1>8, <1>9

\* What StateInv says, for steps of raft.
LEMMA StateFacts ==
    ASSUME NEW G, NEW D, NEW H, StateInv(G, D, H)
    PROVE  /\ Whole(world, rn, ms, appendQ, applyQ, appendResps, applyResps, sm, G, D, H)
           /\ Core(world, rn, ms, appendQ, sm, G, D, H)
           /\ Memory(world, rn, G) /\ Cursors(world, rn) /\ Pending(rn, G)
           /\ world \in Worlds /\ rn \in Nodes /\ ms \in Storages /\ appendQ \in Seq(Writes) /\ sm \in Nat
           /\ G \in Seq(Entry) /\ Len(G) \in Nat /\ rn.committed \in Nat /\ rn.Term \in Nat /\ Len(appendQ) \in Nat
           /\ Sound(world, G) /\ CommitOK(world, G, rn.Term, rn.committed)
           /\ TailOf(rn.entries, rn.offset, G)
           /\ rn.offset <= rn.offsetInProgress /\ rn.offsetInProgress <= Len(G) + 1
           /\ rn.Term > 0 => rn.Term \in DOMAIN world.log
<1>1. Core(world, rn, ms, appendQ, sm, G, D, H) /\ Whole(world, rn, ms, appendQ, applyQ, appendResps, applyResps, sm, G, D, H)
  BY DEF StateInv, Whole
<1>2. /\ Memory(world, rn, G) /\ Cursors(world, rn) /\ Pending(rn, G)
      /\ world \in Worlds /\ rn \in Nodes /\ ms \in Storages /\ appendQ \in Seq(Writes) /\ sm \in Nat
  BY <1>1 DEF Core
<1>3. G \in Seq(Entry) /\ Len(G) \in Nat
  BY <1>2 DEF Memory
<1>4. rn.committed \in Nat /\ rn.Term \in Nat /\ Len(appendQ) \in Nat
  BY <1>2, NodeTypes
<1>5. /\ Sound(world, G) /\ CommitOK(world, G, rn.Term, rn.committed)
      /\ TailOf(rn.entries, rn.offset, G)
      /\ rn.offset <= rn.offsetInProgress /\ rn.offsetInProgress <= Len(G) + 1
      /\ rn.Term > 0 => rn.Term \in DOMAIN world.log
  BY <1>2 DEF Memory
<1> QED BY <1>1, <1>2, <1>3, <1>4, <1>5

\* A new term keeps the invariant.
LEMMA BecomeTermInv ==
    ASSUME NEW G, NEW D, NEW H, StateInv(G, D, H), NEW t \in DOMAIN world.log, BecomeTerm(t)
    PROVE  StateInv(G, D, H)'
<1>0. /\ Whole(world, rn, ms, appendQ, applyQ, appendResps, applyResps, sm, G, D, H)
      /\ world \in Worlds /\ rn \in Nodes /\ rn.Term \in Nat /\ rn.committed \in Nat
      /\ CommitOK(world, G, rn.Term, rn.committed)
  BY StateFacts
<1>1. t \in Nat /\ t > rn.Term /\ Quiet
  BY <1>0, WorldTypes DEF BecomeTerm
<1>2. rn' = [rn EXCEPT !.Term = t, !.uncommittedSize = 0,
                       !.state = IF t \in world.mine THEN "StateCandidate" ELSE "StateFollower"]
  BY DEF BecomeTerm
<1>3. rn' \in Nodes
  BY <1>0, <1>1, <1>2 DEF Nodes
<1>4. /\ Keeps(rn, rn')
      /\ rn'.snapshot = rn.snapshot /\ rn'.snapshotInProgress = rn.snapshotInProgress
      /\ rn'.offset = rn.offset /\ rn'.offsetInProgress = rn.offsetInProgress /\ rn'.entries = rn.entries
      /\ rn'.Term = t /\ rn'.committed = rn.committed
      /\ rn'.state # "StateLeader"
      /\ rn'.state # "StateFollower" => t \in world.mine
  BY <1>0, <1>2, <1>3 DEF Nodes, Keeps
<1>5. CommitOK(world, G, t, rn.committed)
  <2>1. \A u \in DOMAIN world.log : u <= rn.Term => u <= t
    BY <1>0, <1>1, WorldTypes
  <2> QED BY <1>0, <2>1 DEF CommitOK
<1>6. LeavesLog(world, rn, G, rn')
  <2>1. rn.Term <= t /\ rn.committed <= rn.committed
    BY <1>0, <1>1
  <2> QED BY <2>1, <1>4, <1>5 DEF LeavesLog
<1> QED BY <1>0, <1>1, <1>6, LeavesLogWhole, QuietInv

\* The log of a leader extends, entry by entry, as its world has it.
LEMMA AppendEntryInv ==
    ASSUME NEW G, NEW D, NEW H, StateInv(G, D, H), NEW e, NEW st,
           st = "StateLeader" /\ rn.Term \in world.mine,
           Len(G) < Len(Leader), e = Leader[Len(G) + 1], Same(Len(G), G, Leader),
           rn' = appendEntry([rn EXCEPT !.state = st], ms, e), Quiet
    PROVE  StateInv(Append(G, e), D, H)'
<1> DEFINE G2 == Append(G, e)
           r1 == [rn EXCEPT !.state = st]
           r2 == increaseUncommittedSize(r1, e.size)
<1>0. /\ Whole(world, rn, ms, appendQ, applyQ, appendResps, applyResps, sm, G, D, H)
      /\ Core(world, rn, ms, appendQ, sm, G, D, H)
      /\ world \in Worlds /\ rn \in Nodes /\ rn.Term \in Nat /\ rn.committed \in Nat
      /\ CommitOK(world, G, rn.Term, rn.committed) /\ G \in Seq(Entry) /\ Len(G) \in Nat
      /\ TailOf(rn.entries, rn.offset, G)
      /\ rn.offset <= rn.offsetInProgress /\ rn.offsetInProgress <= Len(G) + 1
  BY StateFacts
<1>1. rn.Term \in DOMAIN world.log /\ Leader \in Seq(Entry) /\ Len(Leader) \in Nat
  <2>1. rn.Term \in DOMAIN world.log
    BY <1>0, WorldTypes
  <2> QED BY <2>1, <1>0, WorldTypes DEF Leader
<1>2. e \in Entry /\ e.size \in Nat
  <2>1. Len(G) + 1 \in 1..Len(Leader)
    BY <1>0, <1>1
  <2>2. e \in Entry
    BY <2>1, <1>1
  <2> QED BY <2>2 DEF Entry
<1>3. r1 \in Nodes
  BY <1>0 DEF Nodes
<1>4. r2 = [r1 EXCEPT !.uncommittedSize = r1.uncommittedSize + e.size]
  BY DEF increaseUncommittedSize
<1>5. r2 \in Nodes
  <2>0. r1.uncommittedSize \in Nat
    BY <1>3, NodeTypes
  <2>1. r1.uncommittedSize + e.size \in Nat
    <3> HIDE DEF r1
    <3> QED BY <2>0, <1>2
  <2> QED BY <2>1, <1>3, <1>4 DEF Nodes
<1>6. /\ Keeps(rn, r2) /\ r2.snapshot = rn.snapshot /\ r2.snapshotInProgress = rn.snapshotInProgress
      /\ r2.offset = rn.offset /\ r2.offsetInProgress = rn.offsetInProgress /\ r2.entries = rn.entries
      /\ r2.Term = rn.Term /\ r2.committed = rn.committed /\ r2.state = "StateLeader"
  <2>1. /\ Keeps(rn, r1) /\ r1.snapshot = rn.snapshot /\ r1.snapshotInProgress = rn.snapshotInProgress
        /\ r1.offset = rn.offset /\ r1.offsetInProgress = rn.offsetInProgress /\ r1.entries = rn.entries
        /\ r1.Term = rn.Term /\ r1.committed = rn.committed /\ r1.state = "StateLeader"
    BY <1>0, <1>3 DEF Nodes, Keeps
  <2> HIDE DEF r1
  <2> QED BY <2>1, <1>3, <1>4, <1>5 DEF Nodes, Keeps
<1>7. lastIndex(r1, ms) = Len(G)
  <2>1. lastIndex(rn, ms) = Len(G)
    BY <1>0, LastIs
  <2>2. r1.entries = rn.entries /\ r1.snapshot = rn.snapshot /\ r1.offset = rn.offset
    BY <1>0 DEF Nodes
  <2> QED BY <2>1, <2>2 DEF lastIndex, unstableLast
<1> HIDE DEF r1, r2
<1>8. rn' = truncateAndAppend(r2, Len(G) + 1, <<e>>)
  BY <1>7 DEF appendEntry, r1, r2
<1>9. /\ G2 \in Seq(Entry) /\ Len(G2) = Len(G) + 1 /\ G2[Len(G) + 1] = e
      /\ \A i \in 1..Len(G) : G2[i] = G[i]
  BY <1>0, <1>2
<1>10. PICK g \in Nat : g = Len(G)
  BY <1>0
<1>11. PICK l \in Nat : l = Len(Leader)
  BY <1>1
<1> HIDE DEF G2
<1>12. Same(Len(G2), G2, Leader)
  <2>1. g + 1 <= l
    BY <1>10, <1>11
  <2>2. ASSUME NEW i \in 1..(g + 1) PROVE G2[i] = Leader[i]
    <3>1. CASE i = g + 1
      BY <3>1, <1>9, <1>10
    <3>2. CASE i # g + 1
      <4>1. i \in 1..g
        BY <3>2
      <4>2. G2[i] = G[i]
        BY <4>1, <1>9, <1>10
      <4>3. G[i] = Leader[i]
        BY <4>1, <1>10 DEF Same
      <4> QED BY <4>2, <4>3
    <3> QED BY <3>1, <3>2
  <2> QED BY <2>1, <2>2, <1>9, <1>10, <1>11 DEF Same
<1>13. Same((Len(G) + 1) - 1, G, G2)
  <2>1. (g + 1) - 1 = g /\ g <= g + 1
    OBVIOUS
  <2> QED BY <2>1, <1>9, <1>10 DEF Same
<1>14. TailOf(<<e>>, Len(G) + 1, G2)
  <2>1. Len(<<e>>) = 1 /\ <<e>>[1] = e /\ 1..1 = {1}
    OBVIOUS
  <2>2. g + 1 > 0 /\ g + 1 + 1 = (g + 1) + 1 /\ g + 1 - 1 + 1 = g + 1
    OBVIOUS
  <2>3. \A i \in 1..Len(<<e>>) : <<e>>[i] = G2[g + 1 - 1 + i]
    BY <2>1, <2>2, <1>9, <1>10
  <2> QED BY <2>1, <2>2, <2>3, <1>9, <1>10 DEF TailOf
<1>15. <<e>> \in Seq(Entry) /\ Len(G) + 1 \in Nat
  BY <1>0, <1>2
<1>16. /\ rn'.offset = MinOf(rn.offset, Len(G) + 1) /\ rn'.offsetInProgress = MinOf(rn.offsetInProgress, Len(G) + 1)
       /\ TailOf(rn'.entries, rn'.offset, G2)
       /\ Keeps(r2, rn') /\ rn'.snapshot = r2.snapshot /\ rn'.snapshotInProgress = r2.snapshotInProgress
       /\ rn'.Term = r2.Term /\ rn'.committed = r2.committed
  <2>1. TailOf(r2.entries, r2.offset, G) /\ r2.offset <= r2.offsetInProgress /\ r2.offsetInProgress <= Len(G) + 1
    BY <1>0, <1>6
  <2>2. Len(G) + 1 <= Len(G) + 1
    BY <1>15
  <2>3. PICK f \in Nat : f = Len(G) + 1
    BY <1>15
  <2>4. /\ f <= Len(G) + 1 /\ Same(f - 1, G, G2) /\ TailOf(<<e>>, f, G2)
        /\ rn' = truncateAndAppend(r2, f, <<e>>)
    BY <2>2, <2>3, <1>8, <1>13, <1>14
  <2>5. TruncatesTo(r2, rn', f, G2)
    BY <2>1, <2>4, <1>0, <1>5, <1>9, <1>15, TruncateIs
  <2> QED BY <2>3, <2>5, <1>6 DEF TruncatesTo, Truncates
<1>18. CommitOK(world, G2, rn.Term, rn.committed)
  <2>1. rn.committed <= g
    BY <1>0, <1>10 DEF CommitOK
  <2>2. rn.committed <= Len(G2)
    BY <2>1, <1>0, <1>9, <1>10
  <2>3. Same(rn.committed, G2, G)
    BY <2>1, <2>2, <1>0, <1>9, <1>10 DEF Same
  <2>4. ASSUME NEW t \in DOMAIN world.log, Same(rn.committed, G, world.log[t]) PROVE Same(rn.committed, G2, world.log[t])
    <3>1. world.log[t] \in Seq(Entry) /\ rn.committed <= rn.committed
      BY <1>0, WorldTypes
    <3> QED BY <2>3, <2>4, <3>1, <1>0, <1>9, SameTrans
  <2> QED BY <2>2, <2>4, <1>0 DEF CommitOK
<1>19. Overwrites(world, rn, G, rn', G2, Len(G) + 1)
  <2>1. Keeps(rn, rn')
    BY <1>6, <1>16 DEF Keeps
  <2>2. rn.committed < Len(G) + 1 /\ Len(G) + 1 <= Len(G2) /\ ~(Len(G) + 1 <= Len(G)) /\ Len(G) + 1 <= Len(G) + 1
        /\ rn.committed <= rn.committed
    <3>1. rn.committed <= Len(G)
      BY <1>0 DEF CommitOK
    <3> QED BY <3>1, <1>0, <1>9
  <2>3. Same(Len(G2), G2, world.log[rn.Term])
    BY <1>12 DEF Leader
  <2> QED BY <2>1, <2>2, <2>3, <1>1, <1>6, <1>9, <1>13, <1>15, <1>16, <1>18 DEF Overwrites
<1>20. Whole(world, rn', ms, appendQ, applyQ, appendResps, applyResps, sm, G2, D, H)
  BY <1>0, <1>19, OverwritesWhole
<1>21. StateInv(G2, D, H)'
  BY <1>20, QuietInv
<1> QED BY <1>21 DEF G2

\* What is committed in a log is so in one that is the same that far.
LEMMA CommitKeeps ==
    ASSUME NEW w \in Worlds, NEW a \in Seq(Entry), NEW b \in Seq(Entry), NEW T, NEW c \in Nat, NEW k \in Nat,
           CommitOK(w, a, T, c), Same(k, a, b), c <= k
    PROVE  CommitOK(w, b, T, c)
<1>1. Same(c, a, b)
  BY SameLess
<1>2. c <= Len(b)
  BY <1>1 DEF Same
<1>3. Same(c, b, a)
  BY <1>1, SameSym
<1>4. ASSUME NEW t \in DOMAIN w.log, Same(c, a, w.log[t]) PROVE Same(c, b, w.log[t])
  <2>1. w.log[t] \in Seq(Entry) /\ c <= c
    BY WorldTypes
  <2> QED BY <1>3, <1>4, <2>1, SameTrans
<1> QED BY <1>2, <1>4 DEF CommitOK

\* An entry of the leader's that raft's log has, by its term.
LEMMA MatchTerm ==
    ASSUME NEW w, NEW r, NEW m, NEW q, NEW a, NEW G, NEW D, NEW H, Core(w, r, m, q, a, G, D, H),
           NEW L, r.Term \in DOMAIN w.log, L = w.log[r.Term], NEW i \in 1..Len(L), r.committed <= i
    PROVE  /\ term(r, m, i) = L[i].term => i <= Len(G) /\ Same(i, G, L)
           /\ term(r, m, i) # L[i].term => (i <= Len(G) => G[i].term # L[i].term)
<1>0. w \in Worlds /\ G \in Seq(Entry) /\ L \in Seq(Entry) /\ Sound(w, G) /\ Sound(w, L)
  BY WorldTypes, LeadersSound DEF Core, Memory
<1>1. /\ firstIndex(r, m) \in Nat /\ firstIndex(r, m) - 1 \in Nat /\ firstIndex(r, m) - 1 <= r.committed
      /\ Len(G) \in Nat /\ r.committed \in Nat /\ lastIndex(r, m) = Len(G)
  BY FirstIs, LastIs
<1>2. i \in Nat /\ i > 0 /\ i <= Len(L) /\ firstIndex(r, m) - 1 <= i
  <2>1. i \in Nat /\ i > 0 /\ i <= Len(L)
    BY <1>0
  <2>2. PICK f \in Nat : f = firstIndex(r, m) - 1
    BY <1>1
  <2>3. f <= i
    BY <2>1, <2>2, <1>1
  <2> QED BY <2>1, <2>2, <2>3
<1>3. L[i].term > 0 /\ L[i].term \in Nat
  <2>1. L[i].term \in DOMAIN w.log
    BY <1>0 DEF Sound, SoundAt
  <2> QED BY <2>1, <1>0, WorldTypes
<1>4. i <= Len(G) => term(r, m, i) = G[i].term
  <2>1. ASSUME i <= Len(G) PROVE i \in (firstIndex(r, m) - 1)..Len(G)
    BY <2>1, <1>1, <1>2
  <2> QED BY <2>1, <1>2, TermIs
<1>5. i > Len(G) => term(r, m, i) = 0
  <2>1. ASSUME i > Len(G) PROVE i \notin (firstIndex(r, m) - 1)..lastIndex(r, m)
    BY <2>1, <1>1, <1>2
  <2> QED BY <2>1 DEF term
<1>6. ASSUME term(r, m, i) = L[i].term PROVE i <= Len(G) /\ Same(i, G, L)
  <2>1. i <= Len(G)
    BY <1>1, <1>2, <1>3, <1>5, <1>6
  <2> QED BY <2>1, <1>0, <1>2, <1>4, <1>6, LogMatching
<1> QED BY <1>4, <1>6

\* becomeLeader, with its empty entry, keeps the invariant.
LEMMA BecomeLeaderInv ==
    ASSUME NEW G, NEW D, NEW H, StateInv(G, D, H), BecomeLeader,
           NEW e, e = Leader[Len(G) + 1]
    PROVE  StateInv(Append(G, e), D, H)'
<1>0. /\ Core(world, rn, ms, appendQ, sm, G, D, H) /\ Memory(world, rn, G)
      /\ world \in Worlds /\ rn \in Nodes /\ rn.Term \in Nat /\ rn.committed \in Nat
      /\ CommitOK(world, G, rn.Term, rn.committed) /\ G \in Seq(Entry) /\ Len(G) \in Nat
      /\ Sound(world, G)
  BY StateFacts
<1>1. lastIndex(rn, ms) = Len(G)
  BY <1>0, LastIs
<1>2. /\ rn.state = "StateCandidate" /\ Len(G) < Len(Leader)
      /\ \A i \in firstIndex(rn, ms)..Len(G) : entryAt(rn, ms, i) = Leader[i]
      /\ rn' = appendEntry([rn EXCEPT !.state = "StateLeader"], ms, Leader[Len(G) + 1])
      /\ Quiet
  BY <1>1 DEF BecomeLeader
<1>3. rn.Term \in world.mine
  BY <1>0, <1>2 DEF Memory
<1>4. rn.Term \in DOMAIN world.log /\ Leader \in Seq(Entry) /\ Len(Leader) \in Nat /\ Sound(world, Leader)
  <2>1. rn.Term \in DOMAIN world.log
    BY <1>0, <1>3, WorldTypes
  <2> QED BY <2>1, <1>0, WorldTypes, LeadersSound DEF Leader
<1>5. Leader # << >>
  BY <1>0, <1>2, <1>4
<1>6. Same(rn.committed, G, Leader)
  BY <1>0, <1>4, <1>5, CommittedInLeader DEF Leader
<1>7. /\ firstIndex(rn, ms) \in Nat /\ firstIndex(rn, ms) - 1 \in Nat
      /\ firstIndex(rn, ms) - 1 <= rn.committed /\ rn.committed <= Len(G)
  BY <1>0, FirstIs
<1>8. Same(Len(G), G, Leader)
  <2>1. CASE firstIndex(rn, ms) <= Len(G)
    <3>1. Len(G) \in firstIndex(rn, ms)..Len(G) /\ Len(G) > 0 /\ Len(G) <= Len(G) /\ Len(G) <= Len(Leader)
      BY <2>1, <1>0, <1>2, <1>4, <1>7
    <3>2. entryAt(rn, ms, Len(G)) = Leader[Len(G)]
      BY <3>1, <1>2
    <3>3. entryAt(rn, ms, Len(G)) = G[Len(G)]
      BY <3>1, <1>0, EntryIs
    <3> QED BY <3>1, <3>2, <3>3, <1>0, <1>4, LogMatching
  <2>2. CASE ~(firstIndex(rn, ms) <= Len(G))
    <3>1. Len(G) = rn.committed
      BY <2>2, <1>0, <1>7
    <3> QED BY <3>1, <1>6
  <2> QED BY <2>1, <2>2
<1> QED BY <1>2, <1>3, <1>8, AppendEntryInv

\* A proposal appended by the leader keeps the invariant.
LEMMA ProposeInv ==
    ASSUME NEW G, NEW D, NEW H, StateInv(G, D, H), Propose,
           NEW e, e = Leader[Len(G) + 1]
    PROVE  StateInv(Append(G, e), D, H)'
<1>0. Core(world, rn, ms, appendQ, sm, G, D, H) /\ Memory(world, rn, G) /\ rn \in Nodes
  BY StateFacts
<1>1. lastIndex(rn, ms) = Len(G)
  BY <1>0, LastIs
<1>2. rn.state = "StateLeader" /\ Len(G) < Len(Leader) /\ rn' = appendEntry(rn, ms, Leader[Len(G) + 1]) /\ Quiet
  BY <1>1 DEF Propose
<1>3. rn = [rn EXCEPT !.state = "StateLeader"]
  BY <1>0, <1>2 DEF Nodes
<1>4. rn.Term \in world.mine /\ Same(Len(G), G, Leader)
  BY <1>0, <1>2 DEF Memory, Leader
<1>5. rn' = appendEntry([rn EXCEPT !.state = "StateLeader"], ms, Leader[Len(G) + 1])
  BY <1>2, <1>3
<1> QED BY <1>2, <1>4, <1>5, AppendEntryInv

\* A commit index that rises within what the leader has committed.
LEMMA CommitInv ==
    ASSUME NEW G, NEW D, NEW H, StateInv(G, D, H), rn.Term \in DOMAIN world.log,
           NEW c \in Nat, rn' = commitTo(rn, c), Quiet,
           c <= rn.committed \/ (c <= world.commit[rn.Term] /\ Same(c, G, Leader))
    PROVE  StateInv(G, D, H)'
<1>0. /\ Whole(world, rn, ms, appendQ, applyQ, appendResps, applyResps, sm, G, D, H)
      /\ world \in Worlds /\ rn \in Nodes /\ rn.Term \in Nat /\ rn.committed \in Nat /\ Memory(world, rn, G)
      /\ CommitOK(world, G, rn.Term, rn.committed)
  BY StateFacts
<1> DEFINE n == MaxOf(rn.committed, c)
<1>1. n \in Nat /\ rn.committed <= n /\ (c <= rn.committed => n = rn.committed) /\ (~(c <= rn.committed) => n = c)
  BY <1>0 DEF MaxOf
<1>2. rn' = [rn EXCEPT !.committed = n]
  BY DEF commitTo
<1> HIDE DEF n
<1>3. rn' \in Nodes
  BY <1>0, <1>1, <1>2 DEF Nodes
<1>4. /\ Keeps(rn, rn')
      /\ rn'.snapshot = rn.snapshot /\ rn'.snapshotInProgress = rn.snapshotInProgress
      /\ rn'.offset = rn.offset /\ rn'.offsetInProgress = rn.offsetInProgress /\ rn'.entries = rn.entries
      /\ rn'.Term = rn.Term /\ rn'.committed = n /\ rn'.state = rn.state
  BY <1>0, <1>2, <1>3 DEF Nodes, Keeps
<1>5. CommitOK(world, G, rn.Term, n)
  <2>1. CASE c <= rn.committed
    BY <2>1, <1>0, <1>1
  <2>2. CASE ~(c <= rn.committed)
    <3>1. c <= Len(G) /\ c <= world.commit[rn.Term] /\ Same(c, G, world.log[rn.Term]) /\ n = c
      BY <2>2, <1>1 DEF Same, Leader
    <3>2. rn.Term <= rn.Term
      BY <1>0
    <3> QED BY <3>1, <3>2 DEF CommitOK
  <2> QED BY <2>1, <2>2
<1>6. rn.Term <= rn'.Term /\ rn.committed <= rn'.committed
  BY <1>0, <1>1, <1>4
<1>7. rn'.state # "StateFollower" => rn'.Term \in world.mine
  BY <1>0, <1>4 DEF Memory
<1>8. LeavesLog(world, rn, G, rn')
  BY <1>4, <1>5, <1>6, <1>7 DEF LeavesLog
<1> QED BY <1>0, <1>8, LeavesLogWhole, QuietInv

\* The leader's commit keeps the invariant.
LEMMA LeaderCommitInv ==
    ASSUME NEW G, NEW D, NEW H, StateInv(G, D, H), NEW c \in 1..Len(Leader), LeaderCommit(c), rn.Term > 0
    PROVE  StateInv(G, D, H)'
<1>0. /\ Core(world, rn, ms, appendQ, sm, G, D, H) /\ Memory(world, rn, G) /\ rn \in Nodes
      /\ world \in Worlds /\ G \in Seq(Entry) /\ Len(G) \in Nat /\ rn.committed \in Nat
      /\ rn.Term \in DOMAIN world.log
  BY StateFacts
<1>1. lastIndex(rn, ms) = Len(G)
  BY <1>0, LastIs
<1>2. Leader \in Seq(Entry) /\ world.commit[rn.Term] \in Nat
  BY <1>0, WorldTypes DEF Leader
<1>3. /\ rn.state = "StateLeader" /\ c \in (rn.committed + 1)..world.commit[rn.Term] /\ c <= Len(G)
      /\ rn' = commitTo(rn, c) /\ Quiet
  BY <1>1 DEF LeaderCommit
<1>4. c \in Nat /\ c <= world.commit[rn.Term]
  BY <1>0, <1>2, <1>3
<1>5. Same(Len(G), G, Leader)
  BY <1>0, <1>3 DEF Memory, Leader
<1>6. Same(c, G, Leader)
  BY <1>0, <1>2, <1>3, <1>4, <1>5, SameLess
<1> QED BY <1>0, <1>3, <1>4, <1>6, CommitInv

\* The first i entries of a log, as a log.
LEMMA PrefixIs ==
    ASSUME NEW L \in Seq(Entry), NEW i \in Nat, i <= Len(L), NEW P, P = SubSeq(L, 1, i)
    PROVE  P \in Seq(Entry) /\ Len(P) = i /\ Same(i, P, L) /\ Same(Len(P), P, L)
<1>1. 1 \in Nat /\ 1 > 0 /\ 1 <= i + 1 /\ i + 1 - 1 = i
  OBVIOUS
<1>2. \A k \in 1..i : 1 - 1 + k = k
  OBVIOUS
<1>3. P \in Seq(Entry) /\ Len(P) = i /\ \A k \in 1..i : P[k] = L[k]
  BY <1>1, <1>2, SubSeqIs
<1>4. i <= i
  OBVIOUS
<1> QED BY <1>3, <1>4 DEF Same

\* A MsgSnap, fast-forwarded or restored, keeps the invariant.
LEMMA HandleSnapshotInv ==
    ASSUME NEW G, NEW D, NEW H, StateInv(G, D, H), NEW i \in 1..Len(Leader), HandleSnapshot(i), rn.Term > 0,
           NEW P, P = SubSeq(Leader, 1, i)
    PROVE  StateInv(G, D, H)' \/ StateInv(P, D, H)'
<1>0. /\ Core(world, rn, ms, appendQ, sm, G, D, H) /\ Memory(world, rn, G) /\ rn \in Nodes
      /\ Whole(world, rn, ms, appendQ, applyQ, appendResps, applyResps, sm, G, D, H)
      /\ world \in Worlds /\ G \in Seq(Entry) /\ Len(G) \in Nat /\ rn.committed \in Nat /\ rn.Term \in Nat
      /\ rn.Term \in DOMAIN world.log
  BY StateFacts
<1>1. Leader \in Seq(Entry) /\ Len(Leader) \in Nat /\ world.commit[rn.Term] \in Nat /\ Leader = world.log[rn.Term]
  BY <1>0, WorldTypes DEF Leader
<1>2. /\ rn.Term \notin world.mine
      /\ i \in (rn.committed + 1)..world.commit[rn.Term]
      /\ Quiet
  BY DEF HandleSnapshot
<1>3. i \in Nat /\ rn.committed < i /\ i <= world.commit[rn.Term] /\ i <= Len(Leader) /\ i > 0 /\ rn.committed <= i
  BY <1>0, <1>1, <1>2
<1>4. CASE term(rn, ms, i) = Leader[i].term
  <2>1. rn' = commitTo(rn, i)
    BY <1>4 DEF HandleSnapshot
  <2>2. Same(i, G, Leader)
    BY <1>0, <1>1, <1>3, <1>4, MatchTerm
  <2> QED BY <2>1, <2>2, <1>0, <1>2, <1>3, CommitInv
<1>5. CASE term(rn, ms, i) # Leader[i].term
  <2> DEFINE s == [index |-> i, term |-> Leader[i].term]
             r1 == [rn EXCEPT !.committed = i]
  <2>1. i <= Len(G) => G[i].term # Leader[i].term
    BY <1>0, <1>1, <1>3, <1>5, MatchTerm
  <2>2. rn' = unstableRestore(r1, s)
    BY <1>5 DEF HandleSnapshot
  <2>3. Leader[i].term \in Nat
    <3>1. Leader[i] \in Entry
      BY <1>1
    <3> QED BY <3>1 DEF Entry
  <2>4. s \in Snapshots /\ s.index = i
    BY <2>3, <1>3 DEF Snapshots
  <2>5. r1 \in Nodes
    BY <1>0, <1>3 DEF Nodes
  <2>6. /\ Keeps(rn, r1) /\ r1.Term = rn.Term /\ r1.committed = i /\ r1.state = rn.state
    BY <2>5, <1>0 DEF Nodes, Keeps
  <2> HIDE DEF r1
  <2>7. rn' = [r1 EXCEPT !.offset = i + 1, !.offsetInProgress = i + 1,
              !.entries = << >>, !.snapshot = s, !.snapshotInProgress = FALSE]
    BY <2>2, <2>4 DEF unstableRestore
  <2> HIDE DEF s
  <2>8. rn' \in Nodes
    <3>1. i + 1 \in Nat /\ << >> \in Seq(Entry)
      BY <1>3
    <3> QED BY <3>1, <2>4, <2>5, <2>7 DEF Nodes
  <2>9. /\ Keeps(r1, rn') /\ rn'.Term = r1.Term /\ rn'.committed = r1.committed /\ rn'.state = r1.state
        /\ rn'.offset = i + 1 /\ rn'.offsetInProgress = i + 1 /\ rn'.entries = << >>
        /\ rn'.snapshot = s /\ rn'.snapshotInProgress = FALSE
    BY <2>5, <2>7, <2>8 DEF Nodes, Keeps
  <2>10. P \in Seq(Entry) /\ Len(P) = i /\ Same(i, P, Leader) /\ Same(Len(P), P, Leader)
    BY <1>1, <1>3, PrefixIs
  <2>11. P[i] = Leader[i]
    BY <2>10, <1>3 DEF Same
  <2>12. CommitOK(world, P, rn.Term, i)
    <3>1. rn.Term <= rn.Term /\ i <= Len(P)
      BY <1>0, <1>3, <2>10
    <3> QED BY <3>1, <2>10, <1>0, <1>1, <1>3 DEF CommitOK
  <2>13. Keeps(rn, rn')
    BY <2>6, <2>9 DEF Keeps
  <2>14. rn'.snapshot = [index |-> i, term |-> P[i].term]
    BY <2>9, <2>11 DEF s
  <2>15. i <= Len(G) => G[i].term # P[i].term
    BY <2>1, <2>11
  <2>16. Restores(world, rn, G, rn', P, i)
    BY <1>0, <1>1, <1>2, <1>3, <2>6, <2>9, <2>10, <2>12, <2>13, <2>14, <2>15 DEF Restores
  <2> QED BY <2>16, <1>0, <1>2, RestoresWhole, QuietInv
<1> QED BY <1>4, <1>5

\* What findConflict finds: all before it match.
LEMMA ConflictIs ==
    ASSUME NEW prev \in Nat, NEW last \in Nat, NEW ci, ci = conflict(prev, last)
    PROVE  /\ ci = 0 => \A i \in (prev + 1)..last : term(rn, ms, i) = Leader[i].term
           /\ ci # 0 => /\ ci \in (prev + 1)..last /\ term(rn, ms, ci) # Leader[ci].term
                        /\ \A i \in (prev + 1)..(ci - 1) : term(rn, ms, i) = Leader[i].term
<1> DEFINE C == {i \in (prev + 1)..last : term(rn, ms, i) # Leader[i].term}
<1>1. CASE C = {}
  <2>1. ci = 0
    BY <1>1 DEF conflict
  <2> QED BY <2>1, <1>1
<1>2. CASE C # {}
  <2>0. C \subseteq Nat
    OBVIOUS
  <2>1. \E i \in C : \A j \in C : i <= j
    <3> DEFINE S == {n \in Nat : \A j \in C : n <= j}
    <3>1. 0 \in S
      BY <2>0
    <3>2. SUFFICES ASSUME \A i \in C : ~(\A j \in C : i <= j) PROVE FALSE
      OBVIOUS
    <3>3. \A n \in Nat : n \in S => n + 1 \in S
      <4>1. SUFFICES ASSUME NEW n \in Nat, n \in S, NEW j \in C PROVE n + 1 <= j
        OBVIOUS
      <4>2. n <= j /\ j \in Nat
        BY <4>1, <2>0
      <4>3. n # j
        BY <3>2, <4>1
      <4> QED BY <4>2, <4>3
    <3> HIDE DEF S
    <3>4. \A n \in Nat : n \in S
      BY <3>1, <3>3, NatSetInduction
    <3>5. PICK j \in C : j \in Nat
      BY <1>2, <2>0
    <3>6. j + 1 \in S /\ j + 1 \in Nat
      BY <3>4, <3>5
    <3>7. j + 1 <= j
      BY <3>6 DEF S
    <3> QED BY <3>5, <3>7
  <2>2. ci = CHOOSE i \in C : \A j \in C : i <= j
    BY <1>2 DEF conflict
  <2>3. ci \in C /\ \A j \in C : ci <= j
    BY <2>1, <2>2
  <2>4. ci \in Nat /\ ci # 0
    BY <2>3, <2>0
  <2>5. ASSUME NEW i \in (prev + 1)..(ci - 1) PROVE term(rn, ms, i) = Leader[i].term
    <3>1. i \in (prev + 1)..last /\ ~(ci <= i)
      BY <2>3, <2>4
    <3>2. i \notin C
      BY <3>1, <2>3
    <3> QED BY <3>1, <3>2
  <2> QED BY <2>3, <2>4, <2>5
<1> QED BY <1>1, <1>2

\* A MsgApp, whatever it overwrites and commits, keeps the invariant.
LEMMA HandleAppendEntriesInv ==
    ASSUME NEW G, NEW D, NEW H, StateInv(G, D, H), NEW prev \in 0..Len(Leader), NEW last \in 0..Len(Leader),
           NEW c \in 0..Len(Leader), HandleAppendEntries(prev, last, c), rn.Term > 0,
           NEW P, P = SubSeq(Leader, 1, last)
    PROVE  StateInv(G, D, H)' \/ StateInv(P, D, H)'
<1>0. /\ Core(world, rn, ms, appendQ, sm, G, D, H) /\ Memory(world, rn, G) /\ rn \in Nodes
      /\ Whole(world, rn, ms, appendQ, applyQ, appendResps, applyResps, sm, G, D, H)
      /\ world \in Worlds /\ G \in Seq(Entry) /\ Len(G) \in Nat /\ rn.committed \in Nat /\ rn.Term \in Nat
      /\ rn.Term \in DOMAIN world.log /\ CommitOK(world, G, rn.Term, rn.committed)
      /\ TailOf(rn.entries, rn.offset, G)
      /\ rn.offset <= rn.offsetInProgress /\ rn.offsetInProgress <= Len(G) + 1
  BY StateFacts
<1>1. Leader \in Seq(Entry) /\ Len(Leader) \in Nat /\ world.commit[rn.Term] \in Nat /\ Leader = world.log[rn.Term]
  BY <1>0, WorldTypes DEF Leader
<1>10. Leader \in Seq(Entry)
  BY <1>1
<1>11. G \in Seq(Entry)
  BY <1>0
<1>2. PICK ci : ci = conflict(prev, last)
  OBVIOUS
<1>3. /\ rn.Term \notin world.mine /\ last \in prev..Len(Leader)
      /\ c \in {0} \cup (rn.committed + 1)..MinOf(world.commit[rn.Term], last)
      /\ prev >= rn.committed
      /\ prev > 0 => term(rn, ms, prev) = Leader[prev].term
      /\ rn' = commitTo(IF ci = 0 THEN rn
                        ELSE truncateAndAppend(rn, ci, SubSeq(Leader, ci, last)), c)
      /\ Quiet
  BY <1>2 DEF HandleAppendEntries
<1>4. prev \in Nat /\ last \in Nat /\ c \in Nat /\ prev <= last /\ last <= Len(Leader) /\ prev <= Len(Leader)
  BY <1>1, <1>3
<1>5. c = 0 \/ (rn.committed < c /\ c <= world.commit[rn.Term] /\ c <= last)
  BY <1>0, <1>1, <1>3, <1>4 DEF MinOf
<1>6. Same(prev, G, Leader) /\ prev <= Len(G)
  <2>1. CASE prev = 0
    BY <2>1, <1>0, <1>1 DEF Same
  <2>2. CASE prev > 0
    <3>1. prev \in 1..Len(Leader) /\ rn.committed <= prev
      BY <2>2, <1>0, <1>3, <1>4, <1>1
    <3> QED BY <3>1, <2>2, <1>0, <1>1, <1>3, MatchTerm, SMTT(20)
  <2> QED BY <2>1, <2>2, <1>4
<1>7. ASSUME NEW i \in (prev + 1)..last, term(rn, ms, i) = Leader[i].term PROVE i <= Len(G) /\ Same(i, G, Leader)
  <2>1. i \in 1..Len(Leader) /\ rn.committed <= i
    BY <1>0, <1>1, <1>3, <1>4
  <2> QED BY <2>1, <1>7, <1>0, <1>1, MatchTerm
<1>8. CASE ci = 0
  <2>1. rn' = commitTo(rn, c)
    BY <1>3, <1>8
  <2>2. \A i \in (prev + 1)..last : term(rn, ms, i) = Leader[i].term
    BY <1>2, <1>4, <1>8, ConflictIs
  <2>3. CASE c = 0
    <3>1. c <= rn.committed
      BY <2>3, <1>0
    <3> QED BY <3>1, <2>1, <1>0, <1>3, <1>4, CommitInv
  <2>4. CASE c # 0 /\ c <= prev
    <3>1. Same(c, G, Leader)
      BY <2>4, <1>0, <1>1, <1>4, <1>6, SameLess
    <3> QED BY <3>1, <2>1, <2>4, <1>0, <1>3, <1>4, <1>5, CommitInv
  <2>5. CASE c # 0 /\ ~(c <= prev)
    <3>1. c \in (prev + 1)..last
      BY <2>5, <1>4, <1>5
    <3>2. Same(c, G, Leader)
      BY <3>1, <2>2, <1>7
    <3> QED BY <3>2, <2>1, <2>5, <1>0, <1>3, <1>4, <1>5, CommitInv
  <2> QED BY <2>3, <2>4, <2>5
<1>9. CASE ci # 0
  <2> DEFINE es == SubSeq(Leader, ci, last)
             r1 == truncateAndAppend(rn, ci, es)
  <2>1. /\ ci \in (prev + 1)..last /\ term(rn, ms, ci) # Leader[ci].term
        /\ \A i \in (prev + 1)..(ci - 1) : term(rn, ms, i) = Leader[i].term
    BY <1>2, <1>4, <1>9, ConflictIs
  <2>2. ci \in Nat /\ ci > 0 /\ prev < ci /\ ci <= last /\ ci - 1 \in Nat /\ ci - 1 <= last /\ ci <= last + 1
    BY <2>1, <1>4
  <2>3. Same(ci - 1, G, Leader) /\ ci - 1 <= Len(G)
    <3>1. CASE ci - 1 = prev
      BY <3>1, <1>6
    <3>2. CASE ci - 1 # prev
      <4>1. ci - 1 \in (prev + 1)..last /\ ci - 1 \in (prev + 1)..(ci - 1)
        BY <3>2, <2>2, <1>4
      <4> QED BY <4>1, <2>1, <1>7
    <3> QED BY <3>1, <3>2
  <2>4. ci <= Len(G) + 1 /\ rn.committed < ci /\ rn.committed <= ci - 1
    BY <2>2, <2>3, <1>0, <1>3, <1>4
  <2>5. ci <= Len(G) => G[ci].term # Leader[ci].term
    <3>1. ci \in 1..Len(Leader) /\ rn.committed <= ci
      BY <2>2, <2>4, <1>0, <1>4, <1>1
    <3> QED BY <3>1, <2>1, <1>0, <1>1, MatchTerm, SMTT(20)
  <2>6. P \in Seq(Entry) /\ Len(P) = last /\ Same(last, P, Leader) /\ Same(Len(P), P, Leader)
    BY <1>1, <1>4, PrefixIs
  <2>60. P \in Seq(Entry) /\ Same(last, P, Leader)
    BY <2>6
  <2>7. P[ci] = Leader[ci]
    BY <2>6, <2>2, <1>4 DEF Same
  <2>8. Same(ci - 1, G, P)
    <3>1. Same(last, Leader, P)
      BY <2>6, SameSym
    <3>2. PICK k \in Nat : k = ci - 1
      BY <2>2
    <3>3. k <= k /\ k <= last /\ Same(k, G, Leader)
      BY <3>2, <2>2, <2>3, <1>4
    <3>4. Same(k, G, P)
      BY <3>1, <3>3, <2>60, <1>10, <1>11, <1>4, SameTrans
    <3> QED BY <3>2, <3>4
  <2>9. /\ es \in Seq(Entry) /\ Len(es) = last + 1 - ci
        /\ \A k \in 1..(last + 1 - ci) : es[k] = Leader[ci - 1 + k]
    BY <2>2, <1>1, <1>4, SubSeqIs
  <2> HIDE DEF es
  <2>10. TailOf(es, ci, P)
    <3>1. ci + (last + 1 - ci) = last + 1
      BY <2>2, <1>4
    <3>2. ASSUME NEW k \in 1..(last + 1 - ci) PROVE es[k] = P[ci - 1 + k]
      <4>1. ci - 1 + k \in 1..last
        BY <2>2, <1>4
      <4>2. P[ci - 1 + k] = Leader[ci - 1 + k]
        BY <4>1, <2>6 DEF Same
      <4> QED BY <4>2, <2>9
    <3> QED BY <3>1, <3>2, <2>2, <2>6, <2>9 DEF TailOf
  <2>11. TruncatesTo(rn, r1, ci, P)
    BY <2>2, <2>4, <2>6, <2>8, <2>9, <2>10, <1>0, TruncateIs
  <2>12. rn' = commitTo(r1, c)
    BY <1>3, <1>9 DEF es
  <2> HIDE DEF r1
  <2>13. /\ Keeps(rn, r1) /\ r1 \in Nodes
         /\ r1.snapshot = rn.snapshot /\ r1.snapshotInProgress = rn.snapshotInProgress
         /\ r1.Term = rn.Term /\ r1.committed = rn.committed /\ r1.state = rn.state
         /\ r1.offset = MinOf(rn.offset, ci) /\ r1.offsetInProgress = MinOf(rn.offsetInProgress, ci)
         /\ TailOf(r1.entries, r1.offset, P)
    BY <2>11 DEF TruncatesTo, Truncates, Keeps
  <2> DEFINE n == MaxOf(rn.committed, c)
  <2>14. n \in Nat /\ rn.committed <= n /\ (c <= rn.committed => n = rn.committed) /\ (~(c <= rn.committed) => n = c)
    BY <1>0, <1>4 DEF MaxOf
  <2>15. rn' = [r1 EXCEPT !.committed = n]
    BY <2>12, <2>13 DEF commitTo
  <2> HIDE DEF n
  <2>16. rn' \in Nodes
    BY <2>13, <2>14, <2>15 DEF Nodes
  <2>17. /\ Keeps(r1, rn')
         /\ rn'.snapshot = r1.snapshot /\ rn'.snapshotInProgress = r1.snapshotInProgress
         /\ rn'.offset = r1.offset /\ rn'.offsetInProgress = r1.offsetInProgress /\ rn'.entries = r1.entries
         /\ rn'.Term = r1.Term /\ rn'.committed = n /\ rn'.state = r1.state
    BY <2>13, <2>15, <2>16 DEF Nodes, Keeps
  <2>18. CommitOK(world, P, rn.Term, n)
    <3>1. CASE c <= rn.committed
      <4>1. CommitOK(world, P, rn.Term, rn.committed)
        BY <2>2, <2>4, <2>6, <2>8, <1>0, CommitKeeps
      <4> QED BY <4>1, <3>1, <2>14
    <3>2. CASE ~(c <= rn.committed)
      <4>1. n = c /\ c <= world.commit[rn.Term] /\ c <= last
        BY <3>2, <2>14, <1>0, <1>4, <1>5
      <4>20. rn.Term <= rn.Term
        BY <1>0
      <4>2. Same(c, P, Leader)
        BY <4>1, <2>60, <1>10, <1>4, SameLess
      <4>3. c <= Len(P)
        BY <4>1, <2>6
      <4>4. Same(c, P, world.log[rn.Term])
        BY <4>2, <1>1
      <4>5. CommitOK(world, P, rn.Term, c)
        BY <4>1, <4>20, <4>3, <4>4, <1>0 DEF CommitOK
      <4> QED BY <4>1, <4>5
    <3> QED BY <3>1, <3>2
  <2>19. Keeps(rn, rn')
    BY <2>13, <2>17 DEF Keeps
  <2>20. rn'.state = "StateFollower"
    BY <2>13, <2>17, <1>0, <1>3 DEF Memory, Nodes
  <2>21. ci <= Len(P) /\ (ci <= Len(G) => G[ci].term # P[ci].term)
    BY <2>2, <2>5, <2>6, <2>7
  <2>22. Overwrites(world, rn, G, rn', P, ci)
    BY <2>2, <2>4, <2>6, <2>8, <2>13, <2>14, <2>17, <2>18, <2>19, <2>20, <2>21, <1>0, <1>1 DEF Overwrites
  <2>23. Whole(world, rn', ms, appendQ, applyQ, appendResps, applyResps, sm, P, D, H)
    BY <2>22, <1>0, OverwritesWhole
  <2> QED BY <2>23, <1>3, QuietInv
<1> QED BY <1>8, <1>9

\* The application takes a snapshot, or compacts the log on disk.
LEMMA CompactedWhole ==
    ASSUME NEW w, NEW r, NEW m, NEW q, NEW aq, NEW rs, NEW as, NEW a, NEW G, NEW D, NEW H, NEW m2,
           Whole(w, r, m, q, aq, rs, as, a, G, D, H),
           m2 \in Storages, m2.hs = m.hs, Store(m2, D[0]), m.index <= m2.index,
           m2.index = m.index \/ m2.index <= r.applied,
           m2.index <= m2.snapshot.index, m2.snapshot.index <= a,
           CarefulSnapshots => m2.snapshot.index <= m2.hs.commit
    PROVE  Whole(w, r, m2, q, aq, rs, as, a, G, D, H)
<1>0. /\ Core(w, r, m, q, a, G, D, H) /\ r \in Nodes /\ m \in Storages /\ q \in Seq(Writes) /\ Len(q) \in Nat
      /\ Link(w, r, m, q, G, D) /\ Cursors(w, r) /\ Pending(r, G) /\ Disks(w, m, q, D, H) /\ Queue(m, q, a)
      /\ BatchInv(w, r, m, aq, as, a, D[0])
  BY DEF Whole, Core
<1>1. /\ m.index \in Nat /\ m2.index \in Nat /\ r.applied \in Nat /\ r.applying \in Nat /\ r.snapshot.index \in Nat
  BY <1>0, NodeTypes, StorageTypes
<1>2. r.applied <= r.applying /\ m.index <= MaxOf(r.applied, r.snapshot.index)
  BY <1>0 DEF Cursors, Link
<1>3. Disks(w, m2, q, D, H)
  BY <1>0 DEF Disks
<1>4. \A k \in 1..Len(q) : r.applied < q[k].from
  <2>1. SUFFICES ASSUME NEW k \in 1..Len(q) PROVE r.applied < q[k].from
    OBVIOUS
  <2>2. (IF w.async THEN r.applying ELSE r.applied) < q[k].from /\ q[k].from \in Nat
    BY <1>0, WriteTypes DEF Link
  <2> QED BY <2>2, <1>1, <1>2
<1>5. Queue(m2, q, a)
  <2>1. \A k \in 1..Len(q) : m2.index < q[k].from
    <3>1. SUFFICES ASSUME NEW k \in 1..Len(q) PROVE m2.index < q[k].from
      OBVIOUS
    <3>2. m.index < q[k].from /\ q[k].from \in Nat
      BY <1>0, WriteTypes DEF Queue
    <3> QED BY <3>2, <1>1, <1>4
  <2> QED BY <2>1, <1>0 DEF Queue
<1>6. Link(w, r, m2, q, G, D)
  <2>1. m2.index <= MaxOf(r.applied, r.snapshot.index)
    BY <1>1, <1>2 DEF MaxOf
  <2>2. Rel(r, q, 0) /\ r.snapshot # NoSnap => m2.index = r.snapshot.index
    <3>1. SUFFICES ASSUME Rel(r, q, 0), r.snapshot # NoSnap PROVE m2.index = r.snapshot.index
      OBVIOUS
    <3>2. m.index = r.snapshot.index /\ r.applying < r.snapshot.index
      BY <3>1, <1>0 DEF Link, Pending
    <3> QED BY <3>2, <1>1, <1>2
  <2> QED BY <2>1, <2>2, <1>0 DEF Link
<1>7. Core(w, r, m2, q, a, G, D, H)
  BY <1>0, <1>3, <1>5, <1>6 DEF Core
<1>8. BatchInv(w, r, m2, aq, as, a, D[0])
  <2>1. aq \in Seq(Batches)
    BY DEF Whole
  <2>2. ASSUME NEW k \in 1..Len(aq), NEW j \in 1..Len(aq[k].ents), w.async
        PROVE  OnDisk(m2, D[0], aq[k].from + j - 1, aq[k].ents[j])
    <3>1. OnDisk(m, D[0], aq[k].from + j - 1, aq[k].ents[j])
      BY <2>2, <1>0 DEF BatchInv
    <3>2. aq[k] \in Batches
      BY <2>1
    <3>3. aq[k].from \in Nat /\ Len(aq[k].ents) \in Nat
      BY <3>2 DEF Batches
    <3>4. aq[k].from + j - 1 \in Int
      BY <3>3
    <3>5. PICK i \in Int : i = aq[k].from + j - 1
      BY <3>4
    <3>6. i <= m.index => i <= m2.index
      BY <1>1
    <3> QED BY <3>1, <3>5, <3>6 DEF OnDisk
  <2>3. w.async => \A k \in 1..Len(aq) : \A j \in 1..Len(aq[k].ents) :
                OnDisk(m2, D[0], aq[k].from + j - 1, aq[k].ents[j])
    BY <2>2
  <2> QED BY <2>3, <1>0 DEF BatchInv
<1> QED BY <1>7, <1>8 DEF Whole

\* A snapshot taken by the application keeps the invariant.
LEMMA CreateSnapshotInv ==
    ASSUME NEW G, NEW D, NEW H, StateInv(G, D, H), NEW i \in 1..storageLast(ms), CreateSnapshot(i)
    PROVE  StateInv(G, D, H)'
<1>0. /\ Core(world, rn, ms, appendQ, sm, G, D, H) /\ ms \in Storages /\ sm \in Nat
      /\ Whole(world, rn, ms, appendQ, applyQ, appendResps, applyResps, sm, G, D, H)
  BY StateFacts
<1>1. /\ ms.index \in Nat /\ Len(ms.ents) \in Nat /\ ms.ents \in Seq(Entry) /\ ms.term \in Nat /\ ms.snapshot.index \in Nat
      /\ ms.index <= ms.snapshot.index /\ Store(ms, D[0])
  BY <1>0, StorageTypes DEF Core, Queue, Disks
<1>2. i \in Nat /\ i > ms.snapshot.index /\ i <= sm
  BY <1>1 DEF CreateSnapshot, storageLast
<1>3. StorageTerm(ms, i) \in Nat
  <2>1. CASE i \in (ms.index + 1)..storageLast(ms)
    <3>1. i - ms.index \in 1..Len(ms.ents)
      BY <2>1, <1>1 DEF storageLast
    <3>2. ms.ents[i - ms.index] \in Entry
      BY <3>1, <1>1
    <3>3. ms.ents[i - ms.index].term \in Nat
      BY <3>2 DEF Entry
    <3>4. i # ms.index
      BY <2>1, <1>1
    <3> QED BY <3>3, <3>4, <2>1 DEF StorageTerm
  <2>2. CASE i \notin (ms.index + 1)..storageLast(ms)
    BY <2>2, <1>1 DEF StorageTerm
  <2> QED BY <2>1, <2>2
<1>4. PICK s : s = [index |-> i, term |-> StorageTerm(ms, i)]
  OBVIOUS
<1>5. s \in Snapshots /\ s.index = i
  BY <1>2, <1>3, <1>4 DEF Snapshots
<1>6. ms' = [ms EXCEPT !.snapshot = s]
  BY <1>4 DEF CreateSnapshot
<1>7. ms' \in Storages
  BY <1>0, <1>5, <1>6 DEF Storages
<1>8. /\ ms'.hs = ms.hs /\ ms'.index = ms.index /\ ms'.ents = ms.ents /\ ms'.term = ms.term /\ ms'.snapshot = s
  BY <1>0, <1>6, <1>7 DEF Storages
<1>9. Store(ms', D[0])
  BY <1>1, <1>8 DEF Store
<1>10. ms.index <= ms'.index /\ ms'.index <= ms'.snapshot.index /\ ms'.snapshot.index <= sm
  BY <1>1, <1>2, <1>5, <1>8
<1>11. CarefulSnapshots => ms'.snapshot.index <= ms'.hs.commit
  BY <1>5, <1>8 DEF CreateSnapshot
<1>12. Whole(world, rn, ms', appendQ, applyQ, appendResps, applyResps, sm, G, D, H)
  BY <1>0, <1>7, <1>8, <1>9, <1>10, <1>11, CompactedWhole
<1> QED BY <1>12 DEF StateInv, CreateSnapshot

\* A compaction keeps the invariant.
LEMMA CompactInv ==
    ASSUME NEW G, NEW D, NEW H, StateInv(G, D, H), NEW i \in 1..storageLast(ms), Compact(i)
    PROVE  StateInv(G, D, H)'
<1>0. /\ Core(world, rn, ms, appendQ, sm, G, D, H) /\ ms \in Storages /\ sm \in Nat
      /\ Whole(world, rn, ms, appendQ, applyQ, appendResps, applyResps, sm, G, D, H)
  BY StateFacts
<1>1. /\ ms.index \in Nat /\ Len(ms.ents) \in Nat /\ ms.ents \in Seq(Entry) /\ ms.term \in Nat /\ ms.snapshot.index \in Nat
      /\ ms.snapshot.index <= sm /\ Store(ms, D[0]) /\ (CarefulSnapshots => ms.snapshot.index <= ms.hs.commit)
  BY <1>0, StorageTypes DEF Core, Queue, Disks
<1>2. i > ms.index /\ i <= ms.snapshot.index /\ i <= rn.applied
  BY DEF Compact
<1>20. PICK b \in Nat : b = ms.index
  BY <1>1
<1>21. PICK n \in Nat : n = Len(ms.ents)
  BY <1>1
<1>22. i \in Nat /\ i > b /\ i <= b + n
  BY <1>2, <1>20, <1>21 DEF storageLast
<1>23. PICK k \in Nat : k = i - b /\ k > 0 /\ k <= n /\ i = b + k
  <2>1. i - b \in Nat /\ i - b > 0 /\ i - b <= n /\ i = b + (i - b)
    BY <1>22
  <2> QED BY <2>1
<1>3. StorageTerm(ms, i) = ms.ents[k].term /\ ms.ents[k] \in Entry
  <2>1. i # ms.index /\ i \in (ms.index + 1)..storageLast(ms)
    BY <1>20, <1>21, <1>22 DEF storageLast
  <2>2. k \in 1..n
    BY <1>23
  <2>3. ms.ents[k] \in Entry
    BY <2>2, <1>1, <1>21
  <2> QED BY <2>1, <2>3, <1>20, <1>23 DEF StorageTerm
<1>4. PICK t \in Nat : t = StorageTerm(ms, i)
  BY <1>3 DEF Entry
<1>5. PICK e : e = SubSeq(ms.ents, k + 1, n)
  OBVIOUS
<1>6. e \in Seq(Entry) /\ Len(e) = n + 1 - (k + 1) /\ \A j \in 1..(n + 1 - (k + 1)) : e[j] = ms.ents[(k + 1) - 1 + j]
  <2>1. k + 1 \in Nat /\ k + 1 > 0 /\ k + 1 <= n + 1 /\ n <= Len(ms.ents)
    BY <1>21, <1>23
  <2> QED BY <2>1, <1>1, <1>5, SubSeqIs, ZenonT(30)
<1>60. Len(e) = n - k /\ \A j \in 1..(n - k) : e[j] = ms.ents[k + j]
  <2>1. n + 1 - (k + 1) = n - k /\ \A j \in 1..(n - k) : (k + 1) - 1 + j = k + j
    BY <1>23
  <2> QED BY <2>1, <1>6
<1>7. ms' = [ms EXCEPT !.index = i, !.term = t, !.ents = e]
  BY <1>4, <1>5, <1>20, <1>21, <1>23 DEF Compact
<1>8. ms' \in Storages
  BY <1>0, <1>4, <1>6, <1>7, <1>22 DEF Storages
<1>9. /\ ms'.hs = ms.hs /\ ms'.index = i /\ ms'.ents = e /\ ms'.term = t /\ ms'.snapshot = ms.snapshot
  BY <1>0, <1>7, <1>8 DEF Storages
<1>10. Store(ms', D[0])
  <2>1. Len(D[0]) = b + n /\ \A j \in 1..n : ms.ents[j] = D[0][b + j]
    BY <1>1, <1>20, <1>21 DEF Store
  <2>2. b + n = i + (n - k)
    BY <1>23
  <2>3. ASSUME NEW j \in 1..(n - k) PROVE e[j] = D[0][i + j]
    <3>1. k + j \in 1..n /\ b + (k + j) = i + j
      BY <1>23
    <3>2. e[j] = ms.ents[k + j]
      BY <1>60
    <3> QED BY <3>1, <3>2, <2>1
  <2>4. t = D[0][i].term
    <3>1. k \in 1..n
      BY <1>23
    <3>2. ms.ents[k] = D[0][i]
      BY <3>1, <2>1, <1>23
    <3> QED BY <3>2, <1>3, <1>4
  <2>5. i # 0
    BY <1>22
  <2> QED BY <2>1, <2>2, <2>3, <2>4, <2>5, <1>9, <1>60 DEF Store
<1>11. ms.index <= ms'.index /\ ms'.index <= rn.applied /\ ms'.index <= ms'.snapshot.index /\ ms'.snapshot.index <= sm
  BY <1>1, <1>2, <1>9, <1>20, <1>22
<1>12. Whole(world, rn, ms', appendQ, applyQ, appendResps, applyResps, sm, G, D, H)
  BY <1>0, <1>1, <1>8, <1>9, <1>10, <1>11, CompactedWhole
<1> QED BY <1>12 DEF StateInv, Compact

\* The empty sequence is the one of length 0.
LEMMA EmptySeq ==
    ASSUME NEW S, NEW q \in Seq(S)
    PROVE  q = << >> <=> Len(q) = 0
OBVIOUS

\* The elements of Tail.
LEMMA TailIs ==
    ASSUME NEW S, NEW q \in Seq(S), q # << >>, NEW n \in Nat, n = Len(q)
    PROVE  /\ Tail(q) \in Seq(S) /\ Len(Tail(q)) = n - 1 /\ n - 1 \in Nat /\ n >= 1
           /\ \A k \in 1..(n - 1) : Tail(q)[k] = q[k + 1] /\ k + 1 \in 1..n
           /\ Head(q) = q[1] /\ q[1] \in S
           /\ Tail(q) = << >> <=> n = 1
<1>1. n >= 1 /\ n - 1 \in Nat
  OBVIOUS
<1>2. Tail(q) \in Seq(S) /\ Len(Tail(q)) = n - 1
  BY <1>1
<1>3. \A k \in 1..(n - 1) : k + 1 \in 1..n
  OBVIOUS
<1>4. \A k \in 1..(n - 1) : Tail(q)[k] = q[k + 1]
  BY <1>1
<1>5. q[1] \in S
  BY <1>1
<1>6. Tail(q) = << >> <=> n - 1 = 0
  BY <1>2, EmptySeq
<1>7. n - 1 = 0 <=> n = 1
  BY <1>1
<1> QED BY <1>1, <1>2, <1>3, <1>4, <1>5, <1>6, <1>7

\* The types of a batch's fields.
LEMMA BatchTypes ==
    ASSUME NEW q \in Seq(Batches), NEW k \in 1..Len(q)
    PROVE  /\ q[k] \in Batches /\ q[k].from \in Nat /\ q[k].ents \in Seq(Entry) /\ Len(q[k].ents) \in Nat
           /\ BatchEnd(q[k]) \in Int /\ q[k].type = "MsgStorageApplyResp"
<1>1. q[k] \in Batches
  OBVIOUS
<1>2. q[k].from \in Nat /\ q[k].ents \in Seq(Entry) /\ q[k].type = "MsgStorageApplyResp"
  BY <1>1 DEF Batches
<1>3. Len(q[k].ents) \in Nat
  BY <1>2
<1>4. q[k].from + Len(q[k].ents) - 1 \in Int
  BY <1>2, <1>3
<1> QED BY <1>1, <1>2, <1>3, <1>4 DEF BatchEnd

\* A later state machine index.
LEMMA AppliedCore ==
    ASSUME NEW w, NEW r, NEW m, NEW q, NEW a, NEW G, NEW D, NEW H, NEW b \in Nat,
           Core(w, r, m, q, a, G, D, H), a <= b, b = a \/ b <= r.applying
    PROVE  Core(w, r, m, q, b, G, D, H)
<1>0. /\ r \in Nodes /\ m \in Storages /\ q \in Seq(Writes) /\ Len(q) \in Nat /\ a \in Nat
      /\ Link(w, r, m, q, G, D) /\ Queue(m, q, a)
  BY DEF Core
<1>1. m.snapshot.index \in Nat /\ r.applying \in Nat
  BY <1>0, NodeTypes, StorageTypes
<1>2. m.snapshot.index <= b
  BY <1>0, <1>1 DEF Queue
<1>3. ASSUME NEW k \in 1..Len(q), q[k].snapshot # NoSnap PROVE b < q[k].snapshot.index
  <2>1. a < q[k].snapshot.index /\ r.applying < q[k].snapshot.index
    BY <1>0, <1>3 DEF Queue, Link
  <2>2. q[k].snapshot.index \in Nat
    BY <1>0, WriteTypes
  <2> QED BY <2>1, <2>2, <1>0, <1>1
<1>4. Queue(m, q, b)
  BY <1>0, <1>2, <1>3 DEF Queue
<1>5. Ahead(r, b)
  <2>1. Ahead(r, a) /\ Pending(r, G) /\ (hasNextSnapshot(r) => r.snapshot # NoSnap)
    BY DEF Core, hasNextSnapshot
  <2>2. b = a => Ahead(r, b)
    BY <2>1
  <2>3. b <= r.applying => Ahead(r, b)
    <3>1. SUFFICES ASSUME b <= r.applying, hasNextSnapshot(r) PROVE b < r.snapshot.index
      BY DEF Ahead
    <3>2. r.applying < r.snapshot.index
      BY <2>1, <3>1 DEF Pending
    <3>3. r.snapshot.index \in Nat
      BY <1>0, NodeTypes
    <3> QED BY <3>1, <3>2, <3>3, <1>1
  <2> QED BY <2>2, <2>3
<1> QED BY <1>4, <1>5 DEF Core

\* Responses stay true when the state machine's index rises.
LEMMA AppliedResponses ==
    ASSUME NEW w, NEW r, NEW q, NEW rs, NEW a \in Nat, NEW G, NEW D, NEW b \in Nat, a <= b,
           r \in Nodes, rs \in Seq(AppendResps)
    PROVE  /\ AsyncResponses(w, r, q, rs, a, G, D) => AsyncResponses(w, r, q, rs, b, G, D)
           /\ SyncResponses(w, r, q, a, G, D) => SyncResponses(w, r, q, b, G, D)
<1>1. ASSUME AsyncResponses(w, r, q, rs, a, G, D) PROVE AsyncResponses(w, r, q, rs, b, G, D)
  <2>1. ASSUME NEW i \in 1..Len(rs) PROVE rs[i].snapshot.index <= b
    <3>1. rs[i] \in AppendResps
      OBVIOUS
    <3>2. rs[i].snapshot.index \in Nat /\ rs[i].snapshot.index <= a
      BY <3>1, <1>1, RespTypes DEF AsyncResponses
    <3> QED BY <3>2
  <2> QED BY <1>1, <2>1 DEF AsyncResponses
<1>2. ASSUME SyncResponses(w, r, q, a, G, D) PROVE SyncResponses(w, r, q, b, G, D)
  <2>1. ASSUME NEW i \in 1..Len(r.stepsOnAdvance), IsAppendResp(r.stepsOnAdvance[i])
        PROVE  SyncResponse(w, r, q, b, G, D, r.stepsOnAdvance[i])
    <3>1. SyncResponse(w, r, q, a, G, D, r.stepsOnAdvance[i])
      BY <2>1, <1>2 DEF SyncResponses
    <3>2. r.stepsOnAdvance[i] \in AppendResps
      BY <2>1, StepTypes
    <3>3. r.stepsOnAdvance[i].snapshot.index \in Nat
      BY <3>2, RespTypes
    <3>4. PICK x \in Nat : x = r.stepsOnAdvance[i].snapshot.index
      BY <3>3
    <3>5. q = << >> => x <= a
      BY <3>1, <3>4 DEF SyncResponse
    <3>6. q = << >> => x <= b
      BY <3>5
    <3> QED BY <3>1, <3>4, <3>6 DEF SyncResponse
  <2> QED BY <1>2, <2>1 DEF SyncResponses
<1> QED BY <1>1, <1>2

\* The apply thread's step keeps the invariant.
LEMMA ProcessApplyInv ==
    ASSUME NEW G, NEW D, NEW H, StateInv(G, D, H), ProcessApply
    PROVE  StateInv(G, D, H)'
<1>0. /\ Core(world, rn, ms, appendQ, sm, G, D, H) /\ rn \in Nodes /\ sm \in Nat /\ rn.applying \in Nat
      /\ Whole(world, rn, ms, appendQ, applyQ, appendResps, applyResps, sm, G, D, H)
  BY StateFacts, NodeTypes
<1>1. /\ applyQ \in Seq(Batches) /\ appendResps \in Seq(AppendResps) /\ applyResps \in Seq(Batches)
      /\ BatchInv(world, rn, ms, applyQ, applyResps, sm, D[0])
  BY <1>0 DEF Whole
<1>2. PICK n \in Nat : n = Len(applyQ)
  BY <1>1
<1>3. applyQ # << >> /\ applyQ' = Tail(applyQ)
  BY DEF ProcessApply
<1>4. /\ Tail(applyQ) \in Seq(Batches) /\ Len(Tail(applyQ)) = n - 1 /\ n - 1 \in Nat /\ n >= 1
      /\ \A k \in 1..(n - 1) : Tail(applyQ)[k] = applyQ[k + 1] /\ k + 1 \in 1..n
      /\ Head(applyQ) = applyQ[1] /\ applyQ[1] \in Batches
      /\ Tail(applyQ) = << >> <=> n = 1
  BY <1>1, <1>2, <1>3, TailIs, SMTT(20)
<1>5. 1 \in 1..Len(applyQ)
  BY <1>2, <1>4
<1>6. PICK e \in Int : e = BatchEnd(applyQ[1])
  BY <1>1, <1>5, BatchTypes
<1>7. BatchOK(world, rn, applyQ[1]) /\ e <= rn.applying
  BY <1>1, <1>5, <1>6 DEF BatchInv, BatchOK
<1>8. PICK b \in Nat : b = MaxOf(sm, e) /\ sm <= b /\ (b = sm \/ b <= rn.applying) /\ e <= b /\ (b = sm \/ b = e)
  <2>1. MaxOf(sm, e) \in Nat /\ sm <= MaxOf(sm, e) /\ (MaxOf(sm, e) = sm \/ MaxOf(sm, e) <= rn.applying)
        /\ e <= MaxOf(sm, e) /\ (MaxOf(sm, e) = sm \/ MaxOf(sm, e) = e)
    BY <1>0, <1>7 DEF MaxOf
  <2> QED BY <2>1
<1>9. sm' = b
  BY <1>4, <1>6, <1>8 DEF ProcessApply, BatchEnd
<1>10. Core(world, rn, ms, appendQ, b, G, D, H)
  BY <1>0, <1>8, AppliedCore
<1>11. PICK as : as = IF world.async THEN Append(applyResps, applyQ[1]) ELSE applyResps
  OBVIOUS
<1>12. as \in Seq(Batches) /\ applyResps' = as
  BY <1>1, <1>4, <1>11 DEF ProcessApply
<1>13. \A k \in 1..Len(as) : BatchOK(world, rn, as[k])
  <2>1. \A k \in 1..Len(applyResps) : BatchOK(world, rn, applyResps[k])
    BY <1>1 DEF BatchInv
  <2>2. CASE ~world.async
    BY <2>1, <2>2, <1>11
  <2>3. CASE world.async
    <3>1. as = Append(applyResps, applyQ[1])
      BY <2>3, <1>11
    <3>2. SUFFICES ASSUME NEW k \in 1..Len(as) PROVE BatchOK(world, rn, as[k])
      OBVIOUS
    <3>3. CASE k \in 1..Len(applyResps)
      <4>1. as[k] = applyResps[k]
        BY <3>1, <3>3, <1>1, <1>4
      <4> QED BY <4>1, <3>3, <2>1
    <3>4. CASE k \notin 1..Len(applyResps)
      <4>1. as[k] = applyQ[1]
        BY <3>1, <3>4, <1>1, <1>4
      <4> QED BY <4>1, <1>7
    <3> QED BY <3>3, <3>4
  <2> QED BY <2>2, <2>3
<1>14. BatchInv(world, rn, ms, Tail(applyQ), as, b, D[0])
  <2>1. \A k \in 1..(n - 1) : BatchOK(world, rn, Tail(applyQ)[k])
    BY <1>1, <1>2, <1>4 DEF BatchInv
  <2>2. world.async => \A k \in 1..(n - 1) : \A j \in 1..Len(Tail(applyQ)[k].ents) :
            OnDisk(ms, D[0], Tail(applyQ)[k].from + j - 1, Tail(applyQ)[k].ents[j])
    BY <1>1, <1>2, <1>4 DEF BatchInv
  <2>3. ASSUME NEW k \in 1..(n - 1)
        PROVE  Tail(applyQ)[k].from <= MaxOf(b, IF k = 1 THEN b ELSE BatchEnd(Tail(applyQ)[k - 1])) + 1
    <3>1. k + 1 \in 1..n /\ k + 1 # 1 /\ (k + 1) - 1 = k /\ k \in 1..n
      BY <1>4
    <3>2. Tail(applyQ)[k] = applyQ[k + 1] /\ (k # 1 => Tail(applyQ)[k - 1] = applyQ[k])
      <4>1. k # 1 => k - 1 \in 1..(n - 1) /\ (k - 1) + 1 = k
        BY <1>4
      <4> QED BY <4>1, <1>4
    <3>3. applyQ[k + 1].from <= MaxOf(sm, IF k + 1 = 1 THEN sm ELSE BatchEnd(applyQ[(k + 1) - 1])) + 1
      BY <3>1, <1>1, <1>2 DEF BatchInv
    <3>4. PICK x \in Int : x = BatchEnd(applyQ[k])
      BY <3>1, <1>1, <1>2, BatchTypes
    <3>5. PICK f \in Nat : f = applyQ[k + 1].from
      BY <3>1, <1>1, <1>2, BatchTypes
    <3>6. f <= MaxOf(sm, x) + 1
      BY <3>1, <3>3, <3>4, <3>5
    <3>7. CASE k = 1
      <4>1. x = e
        BY <3>4, <3>7, <1>6
      <4>2. f <= MaxOf(b, b) + 1
        BY <3>6, <4>1, <1>8 DEF MaxOf
      <4> QED BY <4>2, <3>2, <3>5, <3>7
    <3>8. CASE k # 1
      <4>1. f <= MaxOf(b, x) + 1
        BY <3>6, <1>0, <1>8 DEF MaxOf
      <4> QED BY <4>1, <3>2, <3>4, <3>5, <3>8
    <3> QED BY <3>7, <3>8
  <2>4. rn.applying <= IF Tail(applyQ) = << >> THEN b ELSE MaxOf(b, BatchEnd(Tail(applyQ)[Len(Tail(applyQ))]))
    <3>1. rn.applying <= MaxOf(sm, BatchEnd(applyQ[n]))
      BY <1>1, <1>2, <1>3 DEF BatchInv
    <3>2. CASE n = 1
      <4>1. Tail(applyQ) = << >>
        BY <3>2, <1>4
      <4>2. rn.applying <= b
        <5>1. rn.applying <= MaxOf(sm, e)
          BY <3>1, <3>2, <1>6
        <5> QED BY <5>1, <1>8
      <4> QED BY <4>1, <4>2
    <3>3. CASE n # 1
      <4>1. n - 1 \in 1..(n - 1) /\ (n - 1) + 1 = n /\ n \in 1..n
        BY <3>3, <1>4
      <4>2. Tail(applyQ) # << >> /\ Tail(applyQ)[n - 1] = applyQ[n]
        BY <4>1, <1>4
      <4>3. PICK x \in Int : x = BatchEnd(applyQ[n])
        BY <4>1, <1>1, <1>2, BatchTypes
      <4>4. rn.applying <= MaxOf(b, x)
        <5>1. PICK ap \in Nat : ap = rn.applying
          BY <1>0
        <5>2. ap <= MaxOf(sm, x)
          BY <3>1, <4>3, <5>1
        <5>3. ap <= MaxOf(b, x)
          BY <5>2, <1>0, <1>8 DEF MaxOf
        <5> QED BY <5>1, <5>3
      <4> QED BY <4>2, <4>3, <4>4, <1>4
    <3> QED BY <3>2, <3>3
  <2> QED BY <1>1, <1>4, <1>13, <2>1, <2>2, <2>3, <2>4 DEF BatchInv
<1>15. ASSUME world.async PROVE AsyncMode(rn) /\ AsyncResponses(world, rn, appendQ, appendResps, b, G, D)
  BY <1>15, <1>0, <1>1, <1>8, AppliedResponses DEF Whole
<1>16. ASSUME ~world.async PROVE SyncMode(rn, appendQ, appendResps, as) /\ SyncResponses(world, rn, appendQ, b, G, D)
  <2>1. as = applyResps
    BY <1>16, <1>11
  <2> QED BY <2>1, <1>16, <1>0, <1>1, <1>8, AppliedResponses DEF Whole
<1>17. Whole(world, rn, ms, appendQ, Tail(applyQ), appendResps, as, b, G, D, H)
  BY <1>1, <1>4, <1>10, <1>12, <1>14, <1>15, <1>16 DEF Whole
<1> QED BY <1>3, <1>9, <1>12, <1>17 DEF StateInv, ProcessApply

\* The response x may be stepped: it is the next one, what it names is on disk.
Responds(w, r, q, a, G, D, x) ==
    /\ x \in AppendResps /\ x.snapshot.index <= a
    /\ Response(w, r, q, G, D, x, 0, x.snapshot = r.snapshot)

\* What stableTo may do to the unstable log: drop what the response names.
Stabled(r, r1, q, G, D, x) ==
    /\ r1 \in Nodes
    /\ r1.Term = r.Term /\ r1.state = r.state /\ r1.committed = r.committed
    /\ r1.applied = r.applied /\ r1.applying = r.applying /\ r1.applyingEntsSize = r.applyingEntsSize
    /\ r1.applyingEntsPaused = r.applyingEntsPaused
    /\ r1.snapshot = r.snapshot /\ r1.snapshotInProgress = r.snapshotInProgress
    /\ r1.prevHardSt = r.prevHardSt /\ r1.advancing = r.advancing /\ r1.stepsOnAdvance = r.stepsOnAdvance
    /\ r1.offsetInProgress = r.offsetInProgress /\ r.offset <= r1.offset
    /\ TailOf(r1.entries, r1.offset, G)
    /\ r1.offset # r.offset =>
        /\ r1.offset = x.index + 1 /\ Has(r, q, G, D, x, 0)
        /\ r.snapshot # NoSnap => x.snapshot = r.snapshot

\* What a response to a write changes.
Acked(r, r2, q, G, D, x) ==
    /\ r2 \in Nodes
    /\ r2.Term = r.Term /\ r2.state = r.state /\ r2.committed = r.committed
    /\ r2.prevHardSt = r.prevHardSt /\ r2.advancing = r.advancing /\ r2.stepsOnAdvance = r.stepsOnAdvance
    /\ r2.applyingEntsSize = r.applyingEntsSize
    /\ ~r2.applyingEntsPaused => r2.applyingEntsSize < MaxCommittedSizePerReady
    /\ r2.applied = MaxOf(r.applied, x.snapshot.index) /\ r2.applying = MaxOf(r.applying, x.snapshot.index)
    /\ r2.offsetInProgress = r.offsetInProgress /\ r.offset <= r2.offset
    /\ TailOf(r2.entries, r2.offset, G)
    /\ r2.offset # r.offset =>
        /\ r2.offset = x.index + 1 /\ Has(r, q, G, D, x, 0)
        /\ r2.snapshot = NoSnap
    /\ IF r.snapshot # NoSnap /\ r.snapshot.index = x.snapshot.index
       THEN r2.snapshot = NoSnap /\ r2.snapshotInProgress = FALSE
       ELSE r2.snapshot = r.snapshot /\ r2.snapshotInProgress = r.snapshotInProgress

\* What stableTo drops is on disk.
LEMMA StableToIs ==
    ASSUME NEW w, NEW r, NEW m, NEW q, NEW a, NEW G, NEW D, NEW H, NEW x, NEW r1,
           Core(w, r, m, q, a, G, D, H), Responds(w, r, q, a, G, D, x),
           r1 = IF x.term < r.Term \/ x.index = 0 THEN r ELSE stableTo(r, x.index, x.logTerm)
    PROVE  Stabled(r, r1, q, G, D, x)
<1>0. /\ r \in Nodes /\ x \in AppendResps /\ G \in Seq(Entry) /\ TailOf(r.entries, r.offset, G)
      /\ r.offset <= r.offsetInProgress
  BY DEF Core, Memory, Responds
<1>1. /\ r.offset \in Nat /\ r.offsetInProgress \in Nat /\ r.entries \in Seq(Entry) /\ Len(r.entries) \in Nat
      /\ Len(G) \in Nat /\ x.index \in Nat /\ x.term \in Nat /\ r.Term \in Nat /\ r.committed \in Nat
  BY <1>0, NodeTypes, RespTypes
<1>2. CASE r1 = r
  BY <1>0, <1>1, <1>2 DEF Stabled
<1>3. CASE r1 # r
  <2>1. ~(x.term < r.Term) /\ x.index # 0 /\ r1 = stableTo(r, x.index, x.logTerm)
    BY <1>3
  <2>2. x.term = r.Term
    <3>1. x.term <= r.Term
      BY DEF Responds, Response
    <3> QED BY <3>1, <2>1, <1>1
  <2>3. /\ x.index \in r.offset..unstableLast(r) /\ r.entries[x.index - r.offset + 1].term = x.logTerm
        /\ r1 = [r EXCEPT !.entries = SubSeq(r.entries, x.index + 2 - r.offset, Len(r.entries)),
                   !.offset  = x.index + 1,
                   !.offsetInProgress = MaxOf(r.offsetInProgress, x.index + 1)]
    BY <2>1, <1>3 DEF stableTo
  <2>4. PICK o \in Nat : o = r.offset
    BY <1>1
  <2>5. PICK n \in Nat : n = Len(r.entries)
    BY <1>1
  <2>6. PICK i \in Nat : i = x.index
    BY <1>1
  <2>7. PICK g \in Nat : g = Len(G)
    BY <1>1
  <2>8. o + n = g + 1 /\ o > 0 /\ \A j \in 1..n : r.entries[j] = G[o - 1 + j]
    BY <1>0, <2>4, <2>5, <2>7 DEF TailOf
  <2>9. o <= i /\ i <= g
    <3>1. i \in o..(o + n - 1)
      BY <2>3, <2>4, <2>5, <2>6 DEF unstableLast
    <3> QED BY <3>1, <2>8
  <2>10. PICK k \in Nat : k = i + 1 - o /\ k > 0 /\ k <= n /\ i + 1 = o + k
    <3>1. i + 1 - o \in Nat /\ i + 1 - o > 0 /\ i + 1 - o <= n /\ i + 1 = o + (i + 1 - o)
      BY <2>8, <2>9
    <3> QED BY <3>1
  <2>11. G[i].term = x.logTerm
    <3>1. k \in 1..n /\ o - 1 + k = i /\ i - o + 1 = k
      BY <2>10
    <3>2. r.entries[k] = G[i]
      BY <3>1, <2>8
    <3> QED BY <3>1, <3>2, <2>3, <2>4, <2>6
  <2>12. Has(r, q, G, D, x, 0) /\ (r.snapshot # NoSnap => x.snapshot = r.snapshot)
    <3>1. \/ Gone(r, x)
          \/ Lacks(w, r, G, x)
          \/ Has(r, q, G, D, x, 0) /\ (r.snapshot # NoSnap => x.snapshot = r.snapshot)
      BY <2>1, <2>2 DEF Responds, Response
    <3>2. ~Gone(r, x)
      <4>1. ~(i < o)
        BY <2>9
      <4> QED BY <4>1, <2>4, <2>6 DEF Gone
    <3>3. ~Lacks(w, r, G, x)
      BY <2>6, <2>7, <2>9, <2>11 DEF Lacks
    <3> QED BY <3>1, <3>2, <3>3
  <2>13. MaxOf(r.offsetInProgress, i + 1) = r.offsetInProgress
    <3>1. i < r.offsetInProgress
      BY <2>12, <2>6 DEF Has
    <3> QED BY <3>1, <1>1 DEF MaxOf
  <2> DEFINE es == SubSeq(r.entries, k + 1, n)
  <2>14. es \in Seq(Entry) /\ Len(es) = n - k /\ \A j \in 1..(n - k) : es[j] = r.entries[k + j]
    <3>1. k + 1 \in Nat /\ k + 1 > 0 /\ k + 1 <= n + 1 /\ n <= Len(r.entries)
      BY <2>5, <2>10
    <3>2. es \in Seq(Entry) /\ Len(es) = n + 1 - (k + 1) /\ \A j \in 1..(n + 1 - (k + 1)) : es[j] = r.entries[(k + 1) - 1 + j]
      BY <3>1, <1>1, SubSeqIs
    <3>3. n + 1 - (k + 1) = n - k /\ \A j \in 1..(n - k) : (k + 1) - 1 + j = k + j
      BY <2>10
    <3> QED BY <3>2, <3>3
  <2>15. i + 2 - o = k + 1
    BY <2>10
  <2>16. r1 = [r EXCEPT !.entries = es, !.offset = i + 1, !.offsetInProgress = r.offsetInProgress]
    BY <2>3, <2>4, <2>5, <2>6, <2>13, <2>15
  <2> HIDE DEF es
  <2>17. r1 \in Nodes
    <3>1. i + 1 \in Nat
      OBVIOUS
    <3> QED BY <3>1, <2>14, <2>16, <1>0, <1>1 DEF Nodes
  <2>18. TailOf(es, i + 1, G)
    <3>1. i + 1 > 0 /\ i + 1 + (n - k) = g + 1
      BY <2>8, <2>10
    <3>2. ASSUME NEW j \in 1..(n - k) PROVE es[j] = G[(i + 1) - 1 + j]
      <4>1. k + j \in 1..n /\ o - 1 + (k + j) = (i + 1) - 1 + j
        BY <2>10
      <4> QED BY <4>1, <2>8, <2>14
    <3> QED BY <3>1, <3>2, <2>7, <2>14 DEF TailOf
  <2>19. /\ r1.Term = r.Term /\ r1.state = r.state /\ r1.committed = r.committed
         /\ r1.applied = r.applied /\ r1.applying = r.applying /\ r1.applyingEntsSize = r.applyingEntsSize
         /\ r1.applyingEntsPaused = r.applyingEntsPaused
         /\ r1.snapshot = r.snapshot /\ r1.snapshotInProgress = r.snapshotInProgress
         /\ r1.prevHardSt = r.prevHardSt /\ r1.advancing = r.advancing /\ r1.stepsOnAdvance = r.stepsOnAdvance
         /\ r1.offsetInProgress = r.offsetInProgress /\ r1.offset = i + 1 /\ r1.entries = es
    BY <2>16, <2>17, <1>0 DEF Nodes
  <2>20. r.offset <= i + 1
    BY <2>4, <2>9
  <2> QED BY <2>6, <2>12, <2>17, <2>18, <2>19, <2>20 DEF Stabled
<1> QED BY <1>2, <1>3

\* What a response to a write may change: the entries it names, which are on
\* disk, and the snapshot it carries.
LEMMA AppendRespondedIs ==
    ASSUME NEW w, NEW r, NEW m, NEW q, NEW a, NEW G, NEW D, NEW H, NEW x, NEW r2,
           Core(w, r, m, q, a, G, D, H), Responds(w, r, q, a, G, D, x), r2 = AppendResponded(r, x)
    PROVE  Acked(r, r2, q, G, D, x)
<1> DEFINE r1 == IF x.term < r.Term \/ x.index = 0 THEN r ELSE stableTo(r, x.index, x.logTerm)
<1>1. Stabled(r, r1, q, G, D, x)
  BY StableToIs
<1>2. r2 = IF x.snapshot = NoSnap THEN r1 ELSE appliedSnap(r1, x.snapshot)
  BY DEF AppendResponded
<1> HIDE DEF r1
<1>3. /\ r \in Nodes /\ x \in AppendResps /\ Pending(r, G) /\ Cursors(w, r) /\ r1 \in Nodes
  BY <1>1 DEF Core, Responds, Stabled
<1>4. /\ r.applied \in Nat /\ r.applying \in Nat /\ x.snapshot \in Snapshots /\ x.snapshot.index \in Nat
      /\ r.applyingEntsSize \in Nat /\ r.snapshot.index \in Nat /\ r.snapshot \in Snapshots /\ r.applyingEntsPaused \in BOOLEAN
  BY <1>3, NodeTypes, RespTypes
<1>5. PICK si \in Nat : si = x.snapshot.index
  BY <1>4
<1>6. PICK ap \in Nat : ap = r.applied
  BY <1>4
<1>7. PICK ag \in Nat : ag = r.applying
  BY <1>4
<1>8. ap <= ag
  BY <1>3, <1>6, <1>7 DEF Cursors
<1>9. MaxOf(si, ap) = MaxOf(ap, si) /\ MaxOf(ag, MaxOf(si, ap)) = MaxOf(ag, si) /\ MaxOf(si, ap) \in Nat /\ MaxOf(ag, si) \in Nat
  BY <1>8 DEF MaxOf
<1>10. LimitAssumption
  BY LimitAssumption
<1>11. CASE x.snapshot = NoSnap
  <2>1. r2 = r1 /\ si = 0
    BY <1>2, <1>5, <1>11 DEF NoSnap
  <2>2. MaxOf(ap, si) = ap /\ MaxOf(ag, si) = ag
    BY <2>1 DEF MaxOf
  <2>3. r.snapshot # NoSnap => r.snapshot.index # si
    BY <1>3, <1>4, <1>7, <2>1 DEF Pending
  <2>4. ~r.applyingEntsPaused => r.applyingEntsSize < MaxCommittedSizePerReady
    BY <1>3 DEF Cursors
  <2>5. r1.offset # r.offset => r.snapshot = NoSnap
    BY <1>1, <1>11 DEF Stabled
  <2> QED BY <1>1, <1>5, <1>6, <1>7, <2>1, <2>2, <2>3, <2>4, <2>5 DEF Stabled, Acked
<1>12. CASE x.snapshot # NoSnap
  <2> DEFINE r3 == stableSnapTo(r1, si)
             clear == r.snapshot # NoSnap /\ r.snapshot.index = si
  <2>1. r2 = appliedTo(r3, si, 0)
    BY <1>2, <1>5, <1>12 DEF appliedSnap
  <2>2. /\ r1.snapshot = r.snapshot /\ r1.snapshotInProgress = r.snapshotInProgress
        /\ r1.applied = ap /\ r1.applying = ag /\ r1.applyingEntsSize = r.applyingEntsSize
    BY <1>1, <1>6, <1>7 DEF Stabled
  <2>3. r3 = IF clear THEN [r1 EXCEPT !.snapshot = NoSnap, !.snapshotInProgress = FALSE] ELSE r1
    BY <2>2 DEF stableSnapTo
  <2> HIDE DEF r3, clear
  <2>4. NoSnap \in Snapshots
    BY DEF NoSnap, Snapshots
  <2>5. r3 \in Nodes
    BY <2>3, <2>4, <1>3 DEF Nodes
  <2>6. /\ r3.Term = r1.Term /\ r3.state = r1.state /\ r3.committed = r1.committed
        /\ r3.applied = ap /\ r3.applying = ag /\ r3.applyingEntsSize = r.applyingEntsSize
        /\ r3.prevHardSt = r1.prevHardSt /\ r3.advancing = r1.advancing /\ r3.stepsOnAdvance = r1.stepsOnAdvance
        /\ r3.offset = r1.offset /\ r3.offsetInProgress = r1.offsetInProgress /\ r3.entries = r1.entries
        /\ clear => r3.snapshot = NoSnap /\ r3.snapshotInProgress = FALSE
        /\ ~clear => r3.snapshot = r1.snapshot /\ r3.snapshotInProgress = r1.snapshotInProgress
    BY <2>2, <2>3, <2>5, <1>3 DEF Nodes
  <2>7. (IF r.applyingEntsSize > 0 THEN r.applyingEntsSize - 0 ELSE 0) = r.applyingEntsSize
    BY <1>4
  <2> DEFINE z == r.applyingEntsSize
             pz == z >= MaxCommittedSizePerReady
  <2>8. r2 = [r3 EXCEPT !.applied = MaxOf(ap, si), !.applying = MaxOf(ag, si), !.applyingEntsSize = z,
                        !.applyingEntsPaused = pz]
    BY <2>1, <2>6, <2>7, <1>9 DEF appliedTo
  <2>9. z \in Nat /\ pz \in BOOLEAN /\ (~pz => z < MaxCommittedSizePerReady)
    BY <1>4, <1>10 DEF LimitAssumption
  <2> HIDE DEF z, pz
  <2>90. MaxOf(ap, si) \in Nat /\ MaxOf(ag, si) \in Nat
    BY <1>9
  <2>10. r2 \in Nodes
    <3>1. PICK c \in Nat : c = MaxOf(ap, si)
      BY <2>90
    <3>2. PICK d \in Nat : d = MaxOf(ag, si)
      BY <2>90
    <3>3. PICK bz \in BOOLEAN : bz = pz
      BY <2>9
    <3>4. r2 = [r3 EXCEPT !.applied = c, !.applying = d, !.applyingEntsSize = z, !.applyingEntsPaused = bz]
      BY <2>8, <3>1, <3>2, <3>3
    <3> QED BY <2>5, <2>9, <3>4 DEF Nodes
  <2>11. /\ r2.Term = r3.Term /\ r2.state = r3.state /\ r2.committed = r3.committed
         /\ r2.applied = MaxOf(ap, si) /\ r2.applying = MaxOf(ag, si) /\ r2.applyingEntsSize = z /\ r2.applyingEntsPaused = pz
         /\ r2.prevHardSt = r3.prevHardSt /\ r2.advancing = r3.advancing /\ r2.stepsOnAdvance = r3.stepsOnAdvance
         /\ r2.offset = r3.offset /\ r2.offsetInProgress = r3.offsetInProgress /\ r2.entries = r3.entries
         /\ r2.snapshot = r3.snapshot /\ r2.snapshotInProgress = r3.snapshotInProgress
    BY <2>5, <2>8, <2>10 DEF Nodes
  <2>12. IF r.snapshot # NoSnap /\ r.snapshot.index = x.snapshot.index
         THEN r2.snapshot = NoSnap /\ r2.snapshotInProgress = FALSE
         ELSE r2.snapshot = r.snapshot /\ r2.snapshotInProgress = r.snapshotInProgress
    BY <2>2, <2>6, <2>11, <1>5 DEF clear
  <2>13. r1.offset # r.offset => r2.snapshot = NoSnap
    <3>1. r1.offset # r.offset => r.snapshot = NoSnap \/ x.snapshot = r.snapshot
      BY <1>1 DEF Stabled
    <3> QED BY <3>1, <2>12
  <2>14. /\ r1.Term = r.Term /\ r1.state = r.state /\ r1.committed = r.committed
         /\ r1.prevHardSt = r.prevHardSt /\ r1.advancing = r.advancing /\ r1.stepsOnAdvance = r.stepsOnAdvance
         /\ r1.offsetInProgress = r.offsetInProgress /\ r.offset <= r1.offset
         /\ TailOf(r1.entries, r1.offset, G)
         /\ r1.offset # r.offset => r1.offset = x.index + 1 /\ Has(r, q, G, D, x, 0)
    BY <1>1 DEF Stabled
  <2>15. r2.applyingEntsSize = r.applyingEntsSize
    BY <2>11 DEF z
  <2> QED BY <2>6, <2>9, <2>10, <2>11, <2>12, <2>13, <2>14, <2>15, <1>5, <1>6, <1>7 DEF Acked
<1> QED BY <1>11, <1>12

\* r2 has the same log in memory as r: a pending snapshot may be dropped once
\* Storage begins with it.
SameLog(r, r2, m) ==
    /\ r2.Term = r.Term /\ r2.committed = r.committed
    /\ r2.snapshot = r.snapshot \/ (r2.snapshot = NoSnap /\ m.index = r.snapshot.index)

\* Stepping the response keeps Core; a pending snapshot it clears was being
\* written.
LEMMA AckedCore ==
    ASSUME NEW w, NEW r, NEW m, NEW q, NEW a, NEW G, NEW D, NEW H, NEW x, NEW r2,
           Core(w, r, m, q, a, G, D, H), Responds(w, r, q, a, G, D, x), Acked(r, r2, q, G, D, x)
    PROVE  /\ Core(w, r2, m, q, a, G, D, H)
           /\ r.snapshot # NoSnap /\ r.snapshot.index = x.snapshot.index => r.snapshotInProgress
           /\ \A k \in 0..Len(q) : Rel(r, q, k) => Rel(r2, q, k)
           /\ r2.applying <= MaxOf(r.applying, a) /\ r.applying <= r2.applying
           /\ SameLog(r, r2, m)
<1>0. /\ r \in Nodes /\ r2 \in Nodes /\ x \in AppendResps /\ G \in Seq(Entry) /\ Len(G) \in Nat
      /\ q \in Seq(Writes) /\ Len(q) \in Nat /\ m \in Storages /\ a \in Nat
      /\ Memory(w, r, G) /\ Pending(r, G) /\ Cursors(w, r) /\ Link(w, r, m, q, G, D)
      /\ Disks(w, m, q, D, H) /\ Queue(m, q, a) /\ H[Len(q)] = r.prevHardSt /\ w \in Worlds
  BY DEF Core, Responds, Acked, Memory
<1>1. /\ r.applied \in Nat /\ r.applying \in Nat /\ r.committed \in Nat /\ r.snapshot.index \in Nat
      /\ r.offset \in Nat /\ r.offsetInProgress \in Nat /\ r2.offset \in Nat
      /\ x.snapshot.index \in Nat /\ x.index \in Nat /\ m.index \in Nat /\ r2.applied \in Nat /\ r2.applying \in Nat
  BY <1>0, NodeTypes, RespTypes, StorageTypes
<1> DEFINE clear == r.snapshot # NoSnap /\ r.snapshot.index = x.snapshot.index
<1>2. /\ r2.Term = r.Term /\ r2.state = r.state /\ r2.committed = r.committed
      /\ r2.prevHardSt = r.prevHardSt
      /\ ~r2.applyingEntsPaused => r2.applyingEntsSize < MaxCommittedSizePerReady
      /\ r2.offsetInProgress = r.offsetInProgress /\ r.offset <= r2.offset
      /\ TailOf(r2.entries, r2.offset, G)
      /\ r2.applied = MaxOf(r.applied, x.snapshot.index) /\ r2.applying = MaxOf(r.applying, x.snapshot.index)
  BY DEF Acked
<1>3. /\ clear => r2.snapshot = NoSnap /\ r2.snapshotInProgress = FALSE
      /\ ~clear => r2.snapshot = r.snapshot /\ r2.snapshotInProgress = r.snapshotInProgress
  BY DEF Acked
<1>4. r2.offset # r.offset =>
        /\ r2.offset = x.index + 1 /\ Has(r, q, G, D, x, 0)
        /\ r2.snapshot = NoSnap
  BY DEF Acked
<1> HIDE DEF clear
<1>5. PICK si \in Nat : si = x.snapshot.index
  BY <1>1
<1>6. PICK ap \in Nat : ap = r.applied
  BY <1>1
<1>7. PICK ag \in Nat : ag = r.applying
  BY <1>1
<1>8. PICK c \in Nat : c = r.committed
  BY <1>1
<1>9. PICK rs \in Nat : rs = r.snapshot.index
  BY <1>1
<1>10. PICK o \in Nat : o = r.offset
  BY <1>1
<1>11. PICK p \in Nat : p = r.offsetInProgress
  BY <1>1
<1>12. PICK o2 \in Nat : o2 = r2.offset
  BY <1>1
<1>13. /\ ap <= ag /\ ag <= c /\ ag < p /\ (w.async => ag < o) /\ o <= p /\ p <= Len(G) + 1 /\ o <= o2
       /\ si <= a
  BY <1>0, <1>2, <1>5, <1>6, <1>7, <1>8, <1>10, <1>11, <1>12 DEF Cursors, Memory, Responds
<1>14. r.snapshot # NoSnap => o = rs + 1 /\ ag < rs /\ rs <= c
  BY <1>0, <1>7, <1>8, <1>9, <1>10 DEF Pending
<1>15. si <= ap \/ (r.snapshot # NoSnap /\ si <= rs /\ (~r.snapshotInProgress => si < rs))
  BY <1>5, <1>6, <1>9 DEF Responds, Response
<1>16. clear <=> r.snapshot # NoSnap /\ rs = si
  BY <1>5, <1>9 DEF clear
<1>17. clear => r.snapshotInProgress
  BY <1>13, <1>14, <1>15, <1>16
<1>18. ASSUME NEW k \in 1..Len(q) PROVE si < q[k].from /\ (q[k].snapshot # NoSnap => si < q[k].snapshot.index) /\ k \in (0 + 1)..Len(q)
  <2>1. k \in (0 + 1)..Len(q)
    BY <1>0
  <2> QED BY <2>1, <1>5 DEF Responds, Response
<1>19. clear => \A k \in 1..Len(q) : q[k].snapshot = NoSnap
  <2>1. SUFFICES ASSUME clear, NEW k \in 1..Len(q), q[k].snapshot # NoSnap PROVE FALSE
    OBVIOUS
  <2>2. q[k].snapshot.index <= rs /\ q[k].snapshot.index \in Nat
    BY <2>1, <1>0, <1>9, WriteTypes DEF Link
  <2>3. si < q[k].snapshot.index
    BY <2>1, <1>18
  <2> QED BY <2>1, <2>2, <2>3, <1>16
<1>20. \A k \in 0..Len(q) : Rel(r2, q, k) <=> Rel(r, q, k)
  BY <1>3, <1>17 DEF Rel, hasNextSnapshot
<1>21. clear => \A k \in 0..Len(q) : Rel(r, q, k)
  <2>1. SUFFICES ASSUME clear, NEW k \in 0..Len(q) PROVE Rel(r, q, k)
    OBVIOUS
  <2>2. ~hasNextSnapshot(r)
    BY <2>1, <1>17 DEF hasNextSnapshot
  <2>3. \A j \in (k + 1)..Len(q) : j \in 1..Len(q)
    BY <1>0
  <2> QED BY <2>1, <2>2, <2>3, <1>19 DEF Rel
<1>22. PICK ap2 \in Nat : ap2 = r2.applied
  BY <1>1
<1>23. PICK ag2 \in Nat : ag2 = r2.applying
  BY <1>1
<1>24. ap2 = MaxOf(ap, si) /\ ag2 = MaxOf(ag, si)
  BY <1>2, <1>5, <1>6, <1>7, <1>22, <1>23
<1>25. ap2 <= ag2 /\ ag2 <= c /\ ag2 < p /\ (w.async => ag2 < o2) /\ ap <= ap2 /\ si <= ap2
       /\ (ag2 = ag \/ ag2 = si) /\ (ap2 = ap \/ ap2 = si) /\ ag <= ag2
  BY <1>13, <1>14, <1>15, <1>24 DEF MaxOf
<1>26. o2 # o => o2 = x.index + 1 /\ x.index < p
  BY <1>4, <1>10, <1>11, <1>12 DEF Has
<1>27. o2 <= p
  BY <1>13, <1>26, <1>1
<1>28. Memory(w, r2, G)
  BY <1>0, <1>2, <1>11, <1>12, <1>27 DEF Memory
<1>29. Cursors(w, r2)
  BY <1>0, <1>2, <1>8, <1>11, <1>12, <1>22, <1>23, <1>25 DEF Cursors
<1>30. Pending(r2, G)
  <2>1. CASE clear
    BY <2>1, <1>3 DEF Pending
  <2>2. CASE ~clear
    <3>1. r2.snapshot = r.snapshot /\ r2.snapshotInProgress = r.snapshotInProgress
      BY <2>2, <1>3
    <3>2. r.snapshot # NoSnap => r2.offset = r.offset
      BY <3>1, <1>4
    <3>3. r.snapshot # NoSnap => ag2 < rs
      BY <2>2, <1>13, <1>14, <1>15, <1>16, <1>25
    <3> QED BY <3>1, <3>2, <3>3, <1>0, <1>2, <1>9, <1>23 DEF Pending
  <2> QED BY <2>1, <2>2
<1>31. Link(w, r2, m, q, G, D)
  <2>1. m.index <= MaxOf(r2.applied, r2.snapshot.index)
    <3>0. m.index <= MaxOf(ap, rs)
      BY <1>0, <1>6, <1>9 DEF Link
    <3>1. CASE clear
      <4>1. 0 \in 0..Len(q)
        BY <1>0
      <4>2. m.index = rs
        BY <3>1, <4>1, <1>0, <1>9, <1>21 DEF Link, clear
      <4>3. r2.snapshot.index \in Nat
        BY <1>0, NodeTypes
      <4> QED BY <3>1, <4>2, <4>3, <1>16, <1>22, <1>25 DEF MaxOf
    <3>2. CASE ~clear
      <4>1. r2.snapshot.index = rs
        BY <3>2, <1>3, <1>9
      <4>2. m.index <= MaxOf(ap2, rs)
        BY <3>0, <1>1, <1>25 DEF MaxOf
      <4> QED BY <4>1, <4>2, <1>22
    <3> QED BY <3>1, <3>2
  <2>2. Rel(r2, q, 0) /\ r2.snapshot # NoSnap => m.index = r2.snapshot.index
    <3>1. 0 \in 0..Len(q)
      BY <1>0
    <3> QED BY <3>1, <1>0, <1>3, <1>20 DEF Link
  <2>3. ASSUME NEW k \in 0..Len(q), Rel(r2, q, k) PROVE Same(r2.offset - 1, D[k], G)
    <3>1. CASE o2 = o
      BY <3>1, <2>3, <1>0, <1>10, <1>12, <1>20 DEF Link
    <3>2. CASE o2 # o
      <4>1. Same(x.index, D[k], G)
        BY <3>2, <1>4, <1>10, <1>12 DEF Has
      <4>2. x.index = r2.offset - 1
        <5>1. PICK xi \in Nat : xi = x.index
          BY <1>1
        <5>2. o2 = xi + 1
          BY <3>2, <5>1, <1>26
        <5>3. xi = o2 - 1
          BY <5>2
        <5> QED BY <5>1, <5>3, <1>12
      <4> QED BY <4>1, <4>2
    <3> QED BY <3>1, <3>2
  <2>4. ASSUME NEW k \in 1..Len(q)
        PROVE  /\ Rel(r2, q, k) =>
                    /\ r2.offset <= q[k].from
                    /\ q[k].ents # << >> => r2.offset <= Len(G)
                    /\ q[k].snapshot # NoSnap => q[k].snapshot = r2.snapshot
               /\ (IF w.async THEN r2.applying ELSE r2.applied) < q[k].from
               /\ q[k].snapshot # NoSnap =>
                    /\ r2.snapshot # NoSnap
                    /\ q[k].snapshot.index <= r2.snapshot.index
                    /\ ~r2.snapshotInProgress => q[k].snapshot.index < r2.snapshot.index
                    /\ r2.applying < q[k].snapshot.index
    <3>0. k \in 0..Len(q) /\ q[k].from \in Nat /\ q[k].snapshot.index \in Nat
      BY <1>0, WriteTypes
    <3>1. ASSUME Rel(r2, q, k)
          PROVE  /\ r2.offset <= q[k].from
                 /\ q[k].ents # << >> => r2.offset <= Len(G)
                 /\ q[k].snapshot # NoSnap => q[k].snapshot = r2.snapshot
      <4>1. Rel(r, q, k)
        BY <3>0, <3>1, <1>20
      <4>2. q[k].snapshot # NoSnap => q[k].snapshot = r2.snapshot
        BY <4>1, <1>0, <1>3, <1>19 DEF Link
      <4>3. CASE o2 = o
        BY <4>1, <4>2, <4>3, <1>0, <1>10, <1>12 DEF Link
      <4>4. CASE o2 # o
        <5>1. x.index < q[k].from /\ (q[k].ents # << >> => x.index < Len(G))
          BY <4>4, <1>4, <1>10, <1>12, <1>18 DEF Has
        <5>3. PICK xi \in Nat : xi = x.index
          BY <1>1
        <5>4. PICK f \in Nat : f = q[k].from
          BY <3>0
        <5>5. PICK g \in Nat : g = Len(G)
          BY <1>0
        <5>6. o2 = xi + 1 /\ xi < f /\ (q[k].ents # << >> => xi < g)
          BY <4>4, <5>1, <5>3, <5>4, <5>5, <1>26
        <5>7. o2 <= f /\ (q[k].ents # << >> => o2 <= g)
          BY <5>6
        <5>2. o2 <= q[k].from /\ (q[k].ents # << >> => o2 <= Len(G))
          BY <5>4, <5>5, <5>7
        <5> QED BY <4>2, <5>2, <1>12
      <4> QED BY <4>3, <4>4
    <3>2. (IF w.async THEN r2.applying ELSE r2.applied) < q[k].from
      <4>1. (IF w.async THEN ag ELSE ap) < q[k].from /\ si < q[k].from
        BY <1>0, <1>6, <1>7, <1>18 DEF Link
      <4>2. (IF w.async THEN ag2 ELSE ap2) < q[k].from
        BY <4>1, <3>0, <1>25
      <4> QED BY <4>2, <1>22, <1>23
    <3>3. ASSUME q[k].snapshot # NoSnap
          PROVE  /\ r2.snapshot # NoSnap
                 /\ q[k].snapshot.index <= r2.snapshot.index
                 /\ ~r2.snapshotInProgress => q[k].snapshot.index < r2.snapshot.index
                 /\ r2.applying < q[k].snapshot.index
      <4>1. ~clear
        BY <3>3, <1>19
      <4>2. ag < q[k].snapshot.index /\ si < q[k].snapshot.index
        BY <3>3, <1>0, <1>7, <1>18 DEF Link
      <4>3. ag2 < q[k].snapshot.index
        BY <4>2, <3>0, <1>25
      <4> QED BY <3>3, <4>1, <4>3, <1>0, <1>3, <1>23 DEF Link
    <3> QED BY <3>1, <3>2, <3>3
  <2>5. ~hasNextSnapshot(r2) =>
        /\ Same(r2.offsetInProgress - 1, D[Len(q)], G)
        /\ r2.offsetInProgress = Len(G) + 1 => D[Len(q)] = G
    <3>1. ~hasNextSnapshot(r2) => ~hasNextSnapshot(r)
      BY <1>3, <1>17 DEF hasNextSnapshot
    <3> QED BY <3>1, <1>0, <1>2 DEF Link
  <2> QED BY <2>1, <2>2, <2>3, <2>4, <2>5 DEF Link
<1>32. Core(w, r2, m, q, a, G, D, H)
  <2>1. Ahead(r, a)
    BY DEF Core
  <2>2. Ahead(r2, a)
    <3>1. CASE clear
      <4>1. a <= ag2
        BY <2>1, <3>1, <1>0, <1>7, <1>9, <1>16, <1>24 DEF Ahead, MaxOf
      <4>2. ~hasNextSnapshot(r2)
        BY <3>1, <1>3 DEF hasNextSnapshot
      <4> QED BY <4>1, <4>2, <1>23 DEF Ahead
    <3>2. CASE ~clear
      <4>1. r2.snapshot = r.snapshot /\ (hasNextSnapshot(r2) <=> hasNextSnapshot(r))
        BY <3>2, <1>3 DEF hasNextSnapshot
      <4>2. a <= ag => a <= ag2
        BY <1>0, <1>25
      <4> QED BY <4>1, <4>2, <2>1, <1>7, <1>23 DEF Ahead
    <3> QED BY <3>1, <3>2
  <2> QED BY <2>2, <1>0, <1>2, <1>28, <1>29, <1>30, <1>31 DEF Core
<1>33. ag2 <= MaxOf(ag, a) /\ ag <= ag2
  BY <1>0, <1>13, <1>25 DEF MaxOf
<1>34. SameLog(r, r2, m)
  <2>1. CASE clear
    <3>1. r2.snapshot = NoSnap /\ r.snapshot # NoSnap /\ r.snapshotInProgress
      BY <2>1, <1>3, <1>16, <1>17
    <3>2. \A k \in 1..Len(q) : q[k].snapshot = NoSnap
      BY <3>1, <1>32 DEF Core, Link
    <3>3. Rel(r, q, 0)
      <4>1. \A k \in (0 + 1)..Len(q) : k \in 1..Len(q)
        BY <1>0
      <4> QED BY <3>1, <3>2, <4>1 DEF Rel, hasNextSnapshot
    <3>4. m.index = r.snapshot.index
      BY <3>1, <3>3, <1>0 DEF Link
    <3> QED BY <3>1, <3>4, <1>2 DEF SameLog
  <2>2. CASE ~clear
    BY <2>2, <1>2, <1>3 DEF SameLog
  <2> QED BY <2>1, <2>2
<1> QED BY <1>7, <1>17, <1>20, <1>23, <1>32, <1>33, <1>34 DEF clear

\* Stepping a response leaves the others true.
LEMMA AckedResponse ==
    ASSUME NEW w, NEW r, NEW m, NEW q, NEW a, NEW G, NEW D, NEW H, NEW x, NEW r2,
           NEW y \in AppendResps, NEW p \in 0..Len(q), NEW c, NEW c2,
           Core(w, r, m, q, a, G, D, H), Responds(w, r, q, a, G, D, x), Acked(r, r2, q, G, D, x),
           Response(w, r, q, G, D, y, p, c), r2.snapshot # NoSnap /\ c => c2
    PROVE  Response(w, r2, q, G, D, y, p, c2)
<1>0. /\ r \in Nodes /\ r2 \in Nodes /\ x \in AppendResps /\ G \in Seq(Entry) /\ q \in Seq(Writes) /\ Len(q) \in Nat
  BY DEF Core, Responds, Acked, Memory
<1>1. /\ r.applied \in Nat /\ r.snapshot.index \in Nat /\ r.offset \in Nat /\ r2.offset \in Nat /\ r2.applied \in Nat
      /\ x.snapshot.index \in Nat /\ y.snapshot.index \in Nat /\ y.index \in Nat
  BY <1>0, NodeTypes, RespTypes
<1>2. /\ r2.Term = r.Term /\ r2.committed = r.committed
      /\ r2.offsetInProgress = r.offsetInProgress /\ r.offset <= r2.offset
      /\ r2.applied = MaxOf(r.applied, x.snapshot.index)
  BY DEF Acked
<1> DEFINE clear == r.snapshot # NoSnap /\ r.snapshot.index = x.snapshot.index
<1>3. /\ clear => r2.snapshot = NoSnap /\ r2.snapshotInProgress = FALSE
      /\ ~clear => r2.snapshot = r.snapshot /\ r2.snapshotInProgress = r.snapshotInProgress
  BY DEF Acked
<1>4. clear => r.snapshot.index = x.snapshot.index
  OBVIOUS
<1> HIDE DEF clear
<1>5. r.applied <= r2.applied /\ x.snapshot.index <= r2.applied
  BY <1>1, <1>2 DEF MaxOf
<1>6. \/ y.snapshot.index <= r2.applied
      \/ /\ r2.snapshot # NoSnap /\ y.snapshot.index <= r2.snapshot.index
         /\ ~r2.snapshotInProgress => y.snapshot.index < r2.snapshot.index
  <2>1. CASE y.snapshot.index <= r.applied
    BY <2>1, <1>1, <1>5
  <2>2. CASE /\ r.snapshot # NoSnap /\ y.snapshot.index <= r.snapshot.index
             /\ ~r.snapshotInProgress => y.snapshot.index < r.snapshot.index
    <3>1. CASE clear
      <4>1. y.snapshot.index <= x.snapshot.index
        BY <3>1, <2>2, <1>4
      <4> QED BY <4>1, <1>1, <1>5
    <3>2. CASE ~clear
      BY <3>2, <2>2, <1>3
    <3> QED BY <3>1, <3>2
  <2> QED BY <2>1, <2>2 DEF Response
<1>7. ASSUME y.term = r2.Term, y.index # 0
      PROVE  \/ Gone(r2, y)
             \/ Lacks(w, r2, G, y)
             \/ Has(r2, q, G, D, y, p) /\ (r2.snapshot # NoSnap => c2)
  <2>1. \/ Gone(r, y)
        \/ Lacks(w, r, G, y)
        \/ Has(r, q, G, D, y, p) /\ (r.snapshot # NoSnap => c)
    BY <1>7, <1>2 DEF Response
  <2>2. CASE Gone(r, y)
    <3>1. y.index < r2.offset
      BY <2>2, <1>1, <1>2 DEF Gone
    <3> QED BY <3>1, <2>2, <1>2 DEF Gone
  <2>3. CASE Lacks(w, r, G, y)
    BY <2>3, <1>2 DEF Lacks
  <2>4. CASE Has(r, q, G, D, y, p) /\ (r.snapshot # NoSnap => c)
    <3>1. Rel(r2, q, p)
      BY <2>4, AckedCore DEF Has
    <3>2. Has(r2, q, G, D, y, p)
      BY <3>1, <2>4, <1>2 DEF Has
    <3>3. r2.snapshot # NoSnap => c2
      BY <2>4, <1>3
    <3> QED BY <3>2, <3>3
  <2> QED BY <2>1, <2>2, <2>3, <2>4
<1> QED BY <1>2, <1>6, <1>7 DEF Response

\* A snapshot that was applied moves the applying cursor within the state
\* machine's index: the batches stay in order.
LEMMA BatchInvGrows ==
    ASSUME NEW w, NEW r, NEW m, NEW aq \in Seq(Batches), NEW as \in Seq(Batches), NEW a \in Nat, NEW d, NEW r2,
           r \in Nodes, r2 \in Nodes, BatchInv(w, r, m, aq, as, a, d),
           r.applying <= r2.applying, r2.applying <= MaxOf(r.applying, a),
           r2.stepsOnAdvance = r.stepsOnAdvance \/ r2.stepsOnAdvance = << >>
    PROVE  BatchInv(w, r2, m, aq, as, a, d)
<1>1. r.applying \in Nat /\ r2.applying \in Nat
  BY NodeTypes
<1>2. ASSUME NEW b, b \in Batches, BatchOK(w, r, b) PROVE BatchOK(w, r2, b)
  <2>1. b.from \in Nat /\ Len(b.ents) \in Nat
    BY <1>2 DEF Batches
  <2>2. PICK e \in Int : e = BatchEnd(b)
    BY <2>1 DEF BatchEnd
  <2>3. e <= r2.applying
    BY <1>1, <1>2, <2>2 DEF BatchOK
  <2> QED BY <1>2, <2>2, <2>3 DEF BatchOK
<1>3. \A k \in 1..Len(aq) : BatchOK(w, r2, aq[k])
  <2>1. SUFFICES ASSUME NEW k \in 1..Len(aq) PROVE BatchOK(w, r2, aq[k])
    OBVIOUS
  <2>2. aq[k] \in Batches /\ BatchOK(w, r, aq[k])
    BY BatchTypes DEF BatchInv
  <2> QED BY <2>2, <1>2
<1>4. \A k \in 1..Len(as) : BatchOK(w, r2, as[k])
  <2>1. SUFFICES ASSUME NEW k \in 1..Len(as) PROVE BatchOK(w, r2, as[k])
    OBVIOUS
  <2>2. as[k] \in Batches /\ BatchOK(w, r, as[k])
    BY BatchTypes DEF BatchInv
  <2> QED BY <2>2, <1>2
<1>5. ASSUME NEW k \in 1..Len(r2.stepsOnAdvance), ~IsAppendResp(r2.stepsOnAdvance[k])
      PROVE  BatchOK(w, r2, r2.stepsOnAdvance[k])
  <2>1. r2.stepsOnAdvance = r.stepsOnAdvance
    BY <1>5
  <2>2. r.stepsOnAdvance \in Seq(AppendResps \cup Batches)
    BY DEF Nodes
  <2>3. r.stepsOnAdvance[k] \in AppendResps \cup Batches
    BY <2>1, <2>2
  <2>4. r.stepsOnAdvance[k] \in Batches
    BY <2>1, <2>3, <1>5 DEF IsAppendResp, AppendResps
  <2> QED BY <2>1, <2>4, <1>2, <1>5 DEF BatchInv
<1>6. r2.applying <= IF aq = << >> THEN a ELSE MaxOf(a, BatchEnd(aq[Len(aq)]))
  <2>1. CASE aq = << >>
    <3>1. r.applying <= a
      BY <2>1 DEF BatchInv
    <3> QED BY <2>1, <3>1, <1>1 DEF MaxOf
  <2>2. CASE aq # << >>
    <3>1. Len(aq) \in 1..Len(aq)
      BY <2>2
    <3>2. PICK e \in Int : e = BatchEnd(aq[Len(aq)])
      BY <3>1, BatchTypes
    <3>3. r.applying <= MaxOf(a, e)
      BY <2>2, <3>2 DEF BatchInv
    <3>4. PICK x \in Nat : x = r.applying
      BY <1>1
    <3>5. PICK y \in Nat : y = r2.applying
      BY <1>1
    <3>6. y <= MaxOf(a, e)
      BY <3>3, <3>4, <3>5 DEF MaxOf
    <3> QED BY <2>2, <3>2, <3>5, <3>6
  <2> QED BY <2>1, <2>2
<1> QED BY <1>3, <1>4, <1>5, <1>6 DEF BatchInv

\* A response of the append thread keeps the invariant.
LEMMA StepAppendRespInv ==
    ASSUME NEW G, NEW D, NEW H, StateInv(G, D, H), StepAppendResp
    PROVE  StateInv(G, D, H)' /\ SameLog(rn, rn', ms)
<1>0. /\ Core(world, rn, ms, appendQ, sm, G, D, H) /\ rn \in Nodes /\ sm \in Nat
      /\ Whole(world, rn, ms, appendQ, applyQ, appendResps, applyResps, sm, G, D, H)
      /\ Len(appendQ) \in Nat /\ appendQ \in Seq(Writes)
  BY StateFacts
<1>1. /\ applyQ \in Seq(Batches) /\ appendResps \in Seq(AppendResps) /\ applyResps \in Seq(Batches)
      /\ BatchInv(world, rn, ms, applyQ, applyResps, sm, D[0])
  BY <1>0 DEF Whole
<1>2. PICK n \in Nat : n = Len(appendResps)
  BY <1>1
<1>3. appendResps # << >> /\ appendResps' = Tail(appendResps)
  BY DEF StepAppendResp
<1> DEFINE rs == Tail(appendResps)
           x == appendResps[1]
<1>4. /\ rs \in Seq(AppendResps) /\ Len(rs) = n - 1 /\ n - 1 \in Nat /\ n >= 1
      /\ \A k \in 1..(n - 1) : rs[k] = appendResps[k + 1] /\ k + 1 \in 1..n
      /\ Head(appendResps) = x /\ x \in AppendResps
  BY <1>1, <1>2, <1>3, TailIs
<1>5. world.async
  BY <1>0, <1>3 DEF Whole, SyncMode
<1>6. AsyncMode(rn) /\ AsyncResponses(world, rn, appendQ, appendResps, sm, G, D)
  BY <1>0, <1>5 DEF Whole
<1>7. 1 \in 1..Len(appendResps) /\ 1..1 = {1}
  BY <1>2, <1>4
<1>8. Responds(world, rn, appendQ, sm, G, D, x)
  <2>1. x.snapshot.index <= sm /\ Response(world, rn, appendQ, G, D, x, 0, CarriedBy(rn, appendResps, 1))
    BY <1>6, <1>7 DEF AsyncResponses
  <2>2. CarriedBy(rn, appendResps, 1) <=> x.snapshot = rn.snapshot
    BY <1>7 DEF CarriedBy
  <2>3. Response(world, rn, appendQ, G, D, x, 0, x.snapshot = rn.snapshot)
    BY <2>1, <2>2 DEF Response
  <2> QED BY <2>1, <2>3, <1>4 DEF Responds
<1>9. rn' = AppendResponded(rn, x)
  BY <1>4 DEF StepAppendResp, Stepped, AppendResps
<1>10. Acked(rn, rn', appendQ, G, D, x)
  BY <1>0, <1>8, <1>9, AppendRespondedIs
<1>11. /\ Core(world, rn', ms, appendQ, sm, G, D, H)
       /\ rn'.applying <= MaxOf(rn.applying, sm) /\ rn.applying <= rn'.applying
       /\ SameLog(rn, rn', ms)
  BY <1>0, <1>8, <1>10, AckedCore
<1> HIDE DEF rs, x
<1>12. rn' \in Nodes /\ rn'.stepsOnAdvance = rn.stepsOnAdvance /\ rn'.advancing = rn.advancing
  BY <1>10 DEF Acked
<1>13. BatchInv(world, rn', ms, applyQ, applyResps, sm, D[0])
  BY <1>0, <1>1, <1>11, <1>12, BatchInvGrows
<1>14. rn'.snapshot # NoSnap => rn'.snapshot = rn.snapshot /\ x.snapshot # rn.snapshot /\ rn'.snapshotInProgress = rn.snapshotInProgress
  BY <1>10 DEF Acked
<1>15. ASSUME rn'.snapshot # NoSnap, NEW i \in 0..(n - 1), CarriedBy(rn, appendResps, i + 1) PROVE CarriedBy(rn', rs, i)
  <2>1. PICK j \in 1..(i + 1) : appendResps[j].snapshot = rn.snapshot
    BY <1>15 DEF CarriedBy
  <2>2. j # 1
    BY <2>1, <1>14, <1>15 DEF x
  <2>3. j - 1 \in 1..i /\ j - 1 \in 1..(n - 1) /\ (j - 1) + 1 = j
    BY <2>1, <2>2, <1>4
  <2>4. rs[j - 1] = appendResps[j]
    BY <2>3, <1>4
  <2> QED BY <2>1, <2>3, <2>4, <1>14, <1>15 DEF CarriedBy
<1>16. ASSUME rn'.snapshot # NoSnap, NEW k, CarriedUpTo(rn, appendQ, appendResps, k)
       PROVE  CarriedUpTo(rn', appendQ, rs, k)
  <2>1. n - 1 \in 0..(n - 1) /\ (n - 1) + 1 = n
    BY <1>4
  <2>2. CarriedBy(rn, appendResps, n) => CarriedBy(rn', rs, n - 1)
    BY <2>1, <1>15, <1>16
  <2> QED BY <2>2, <1>2, <1>4, <1>14, <1>16 DEF CarriedUpTo
<1>17. AsyncResponses(world, rn', appendQ, rs, sm, G, D)
  <2>0. 0 \in 0..Len(appendQ)
    BY <1>0
  <2>1. ASSUME NEW i \in 1..(n - 1)
        PROVE  rs[i].snapshot.index <= sm /\ Response(world, rn', appendQ, G, D, rs[i], 0, CarriedBy(rn', rs, i))
    <3>1. i + 1 \in 1..Len(appendResps) /\ rs[i] = appendResps[i + 1] /\ i \in 0..(n - 1)
      BY <1>2, <1>4
    <3>2. /\ appendResps[i + 1].snapshot.index <= sm
          /\ Response(world, rn, appendQ, G, D, appendResps[i + 1], 0, CarriedBy(rn, appendResps, i + 1))
      BY <3>1, <1>6 DEF AsyncResponses
    <3>3. appendResps[i + 1] \in AppendResps
      BY <3>1, <1>1
    <3>4. rn'.snapshot # NoSnap /\ CarriedBy(rn, appendResps, i + 1) => CarriedBy(rn', rs, i)
      BY <3>1, <1>15
    <3>5. Response(world, rn', appendQ, G, D, appendResps[i + 1], 0, CarriedBy(rn', rs, i))
      BY <2>0, <3>2, <3>3, <3>4, <1>0, <1>8, <1>10, AckedResponse
    <3> QED BY <3>1, <3>2, <3>5
  <2>2. ASSUME NEW k \in 1..Len(appendQ), appendQ[k].resps # << >>
        PROVE  Response(world, rn', appendQ, G, D, appendQ[k].resps[1], k, CarriedUpTo(rn', appendQ, rs, k))
    <3>1. Response(world, rn, appendQ, G, D, appendQ[k].resps[1], k, CarriedUpTo(rn, appendQ, appendResps, k))
      BY <2>2, <1>6 DEF AsyncResponses
    <3>2. appendQ[k].resps[1] \in AppendResps
      BY <2>2, <1>0, QueueRespTypes
    <3>3. rn'.snapshot # NoSnap /\ CarriedUpTo(rn, appendQ, appendResps, k) => CarriedUpTo(rn', appendQ, rs, k)
      BY <1>16
    <3>4. k \in 0..Len(appendQ)
      BY <1>0
    <3> QED BY <3>1, <3>2, <3>3, <3>4, <1>0, <1>8, <1>10, AckedResponse
  <2>3. rn'.snapshotInProgress => CarriedUpTo(rn', appendQ, rs, Len(appendQ))
    <3>1. SUFFICES ASSUME rn'.snapshotInProgress PROVE CarriedUpTo(rn', appendQ, rs, Len(appendQ))
      OBVIOUS
    <3>2. rn'.snapshot # NoSnap
      BY <3>1, <1>11 DEF Core, Pending
    <3>3. CarriedUpTo(rn, appendQ, appendResps, Len(appendQ))
      BY <3>1, <3>2, <1>6, <1>14 DEF AsyncResponses
    <3> QED BY <3>2, <3>3, <1>16
  <2> QED BY <2>1, <2>2, <2>3, <1>4 DEF AsyncResponses
<1>18. AsyncMode(rn')
  BY <1>6, <1>12 DEF AsyncMode
<1>19. Whole(world, rn', ms, appendQ, applyQ, rs, applyResps, sm, G, D, H)
  BY <1>1, <1>4, <1>5, <1>11, <1>13, <1>17, <1>18 DEF Whole
<1> QED BY <1>3, <1>11, <1>19 DEF StateInv, StepAppendResp, rs

\* f adds up the first n values of v.
Adds(f, v, n) == f[0] = 0 /\ \A i \in 1..n : f[i] = f[i - 1] + v[i]

\* The sum of the first n values of v.
Total(v, n) == CHOOSE t : \E f : Adds(f, v, n) /\ t = f[n]

\* Partial sums exist: by induction.
LEMMA AddsExists ==
    ASSUME NEW n \in Nat, NEW v, \A i \in 1..n : v[i] \in Nat
    PROVE  \E f \in [0..n -> Nat] : Adds(f, v, n)
<1> DEFINE S == {k \in Nat : k <= n => \E f \in [0..k -> Nat] : Adds(f, v, k)}
<1>1. 0 \in S
  <2>1. PICK f : f = [i \in 0..0 |-> 0]
    OBVIOUS
  <2>2. f \in [0..0 -> Nat] /\ f[0] = 0
    BY <2>1
  <2>3. 1..0 = {}
    OBVIOUS
  <2> QED BY <2>2, <2>3 DEF Adds
<1>2. ASSUME NEW k \in Nat, k \in S PROVE k + 1 \in S
  <2>1. SUFFICES ASSUME k + 1 <= n PROVE \E f \in [0..(k + 1) -> Nat] : Adds(f, v, k + 1)
    OBVIOUS
  <2>2. PICK f \in [0..k -> Nat] : Adds(f, v, k)
    BY <1>2, <2>1
  <2>3. v[k + 1] \in Nat
    BY <2>1
  <2> DEFINE g == [i \in 0..(k + 1) |-> IF i = k + 1 THEN f[k] + v[k + 1] ELSE f[i]]
  <2>4. f[k] \in Nat
    BY <2>2
  <2>5. g \in [0..(k + 1) -> Nat]
    <3>1. SUFFICES ASSUME NEW i \in 0..(k + 1), i # k + 1 PROVE f[i] \in Nat
      BY <2>3, <2>4
    <3>2. i \in 0..k
      BY <3>1
    <3> QED BY <3>2
  <2>6. g[0] = f[0]
    OBVIOUS
  <2>7. ASSUME NEW i \in 1..(k + 1) PROVE g[i] = g[i - 1] + v[i]
    <3>1. i - 1 \in 0..(k + 1) /\ i - 1 # k + 1 /\ i \in 0..(k + 1)
      OBVIOUS
    <3>2. g[i - 1] = f[i - 1]
      BY <3>1
    <3>3. CASE i = k + 1
      <4>1. g[i] = f[k] + v[k + 1] /\ i - 1 = k
        BY <3>1, <3>3
      <4> QED BY <4>1, <3>2, <3>3
    <3>4. CASE i # k + 1
      <4>1. i \in 1..k /\ g[i] = f[i]
        BY <3>1, <3>4
      <4>2. f[i] = f[i - 1] + v[i]
        BY <4>1, <2>2 DEF Adds
      <4> QED BY <4>1, <4>2, <3>2
    <3> QED BY <3>3, <3>4
  <2> HIDE DEF g
  <2> QED BY <2>2, <2>5, <2>6, <2>7 DEF Adds
<1> HIDE DEF S
<1>3. \A k \in Nat : k \in S
  BY <1>1, <1>2, NatSetInduction
<1>4. n \in S
  BY <1>3
<1>5. n <= n
  OBVIOUS
<1> QED BY <1>4, <1>5 DEF S

\* Partial sums are unique: by induction.
LEMMA AddsUnique ==
    ASSUME NEW n \in Nat, NEW v, NEW u, NEW f, NEW g, \A i \in 1..n : v[i] = u[i],
           Adds(f, v, n), Adds(g, u, n)
    PROVE  f[n] = g[n]
<1> DEFINE S == {k \in Nat : k <= n => f[k] = g[k]}
<1>1. 0 \in S
  BY DEF Adds
<1>2. ASSUME NEW k \in Nat, k \in S PROVE k + 1 \in S
  <2>1. SUFFICES ASSUME k + 1 <= n PROVE f[k + 1] = g[k + 1]
    OBVIOUS
  <2>2. k + 1 \in 1..n /\ (k + 1) - 1 = k /\ k <= n
    BY <2>1
  <2>3. f[k] = g[k]
    BY <1>2, <2>2
  <2>4. f[k + 1] = f[k] + v[k + 1] /\ g[k + 1] = g[k] + u[k + 1] /\ v[k + 1] = u[k + 1]
    BY <2>2 DEF Adds
  <2> QED BY <2>3, <2>4
<1> HIDE DEF S
<1>3. \A k \in Nat : k \in S
  BY <1>1, <1>2, NatSetInduction
<1>4. n \in S /\ n <= n
  BY <1>3
<1> QED BY <1>4 DEF S

\* The total is the last partial sum.
LEMMA TotalIs ==
    ASSUME NEW n \in Nat, NEW v, NEW f, Adds(f, v, n)
    PROVE  Total(v, n) = f[n]
<1>1. \E t : \E g : Adds(g, v, n) /\ t = g[n]
  OBVIOUS
<1>2. \E g : Adds(g, v, n) /\ Total(v, n) = g[n]
  BY <1>1 DEF Total
<1>3. PICK g : Adds(g, v, n) /\ Total(v, n) = g[n]
  BY <1>2
<1>4. f[n] = g[n]
  BY <1>3, AddsUnique
<1> QED BY <1>3, <1>4

\* The total of the same values is the same.
LEMMA TotalSame ==
    ASSUME NEW n \in Nat, NEW v, NEW u, \A i \in 1..n : v[i] \in Nat /\ v[i] = u[i]
    PROVE  Total(v, n) = Total(u, n) /\ Total(v, n) \in Nat
<1>1. PICK f \in [0..n -> Nat] : Adds(f, v, n)
  BY AddsExists
<1>2. Adds(f, u, n)
  BY <1>1 DEF Adds
<1>3. f[n] \in Nat
  BY <1>1
<1> QED BY <1>1, <1>2, <1>3, TotalIs

\* The total with one more value.
LEMMA TotalStep ==
    ASSUME NEW n \in Nat, NEW v, \A i \in 1..(n + 1) : v[i] \in Nat
    PROVE  /\ Total(v, 0) = 0
           /\ Total(v, n) \in Nat /\ Total(v, n + 1) = Total(v, n) + v[n + 1]
<1>1. PICK f \in [0..(n + 1) -> Nat] : Adds(f, v, n + 1)
  <2>1. n + 1 \in Nat
    OBVIOUS
  <2> QED BY <2>1, AddsExists
<1>2. Adds(f, v, n) /\ Adds(f, v, 0)
  <2>1. \A i \in 1..n : i \in 1..(n + 1)
    OBVIOUS
  <2>2. 1..0 = {}
    OBVIOUS
  <2> QED BY <1>1, <2>1, <2>2 DEF Adds
<1>3. n + 1 \in Nat /\ n + 1 \in 1..(n + 1) /\ (n + 1) - 1 = n /\ n \in 0..(n + 1) /\ 0 \in Nat
  OBVIOUS
<1>4. Total(v, n) = f[n] /\ Total(v, n + 1) = f[n + 1] /\ Total(v, 0) = f[0]
  BY <1>1, <1>2, <1>3, TotalIs
<1>5. f[n + 1] = f[n] + v[n + 1] /\ f[0] = 0
  BY <1>1, <1>3 DEF Adds
<1>6. f[n] \in Nat
  BY <1>1, <1>3
<1> QED BY <1>4, <1>5, <1>6

\* The lengths of the entries' Data.
Sizes(s) == [i \in 1..Len(s) |-> s[i].size]

\* The sizes are numbers.
LEMMA SizesType ==
    ASSUME NEW s \in Seq(Entry)
    PROVE  Len(s) \in Nat /\ \A i \in 1..Len(s) : Sizes(s)[i] \in Nat /\ Sizes(s)[i] = s[i].size
<1>1. \A i \in 1..Len(s) : s[i] \in Entry
  OBVIOUS
<1> QED BY <1>1 DEF Sizes, Entry

\* payloadsSize adds up the sizes; entsSize counts one more for each entry.
LEMMA PayloadsIs ==
    ASSUME NEW s \in Seq(Entry)
    PROVE  /\ payloadsSize(s) = Total(Sizes(s), Len(s)) /\ payloadsSize(s) \in Nat
           /\ entsSize(s) = payloadsSize(s) + Len(s) /\ entsSize(s) \in Nat
<1> DEFINE n == Len(s)
           IsSum(f) == f = [i \in 0..Len(s) |-> IF i = 0 THEN 0 ELSE f[i - 1] + s[i].size]
           g == CHOOSE f : IsSum(f)
<1>1. n \in Nat /\ \A i \in 1..n : Sizes(s)[i] \in Nat /\ Sizes(s)[i] = s[i].size
  BY SizesType
<1> HIDE DEF n
<1>2. PICK f \in [0..n -> Nat] : Adds(f, Sizes(s), n)
  BY <1>1, AddsExists
<1>3. IsSum(f)
  <2>1. f = [i \in 0..n |-> f[i]]
    BY <1>2
  <2>2. \A i \in 0..n : f[i] = IF i = 0 THEN 0 ELSE f[i - 1] + s[i].size
    <3>1. SUFFICES ASSUME NEW i \in 0..n PROVE f[i] = IF i = 0 THEN 0 ELSE f[i - 1] + s[i].size
      OBVIOUS
    <3>2. CASE i = 0
      BY <3>2, <1>2 DEF Adds
    <3>3. CASE i # 0
      <4>1. i \in 1..n
        BY <3>3
      <4> QED BY <3>3, <4>1, <1>1, <1>2 DEF Adds
    <3> QED BY <3>2, <3>3
  <2> QED BY <2>1, <2>2 DEF n
<1>4. IsSum(g)
  BY <1>3
<1>5. payloadsSize(s) = g[n]
  BY DEF payloadsSize, n
<1> HIDE DEF g
<1>6. Adds(g, Sizes(s), n)
  <2>1. g = [i \in 0..n |-> IF i = 0 THEN 0 ELSE g[i - 1] + s[i].size]
    BY <1>4 DEF n
  <2>2. g[0] = 0
    BY <1>1, <2>1
  <2>3. ASSUME NEW i \in 1..n PROVE g[i] = g[i - 1] + s[i].size
    <3>1. i \in 0..n /\ i # 0
      BY <1>1
    <3> QED BY <3>1, <2>1
  <2> QED BY <2>2, <2>3, <1>1 DEF Adds
<1>7. payloadsSize(s) = Total(Sizes(s), n)
  BY <1>1, <1>5, <1>6, TotalIs
<1>8. payloadsSize(s) \in Nat
  BY <1>1, <1>7, TotalSame
<1>9. entsSize(s) = payloadsSize(s) + n
  BY DEF entsSize, n
<1> QED BY <1>1, <1>7, <1>8, <1>9 DEF n

\* What the answer of the apply thread changes.
Given(r, r2) ==
    /\ r2 \in Nodes
    /\ r2.Term = r.Term /\ r2.state = r.state /\ r2.committed = r.committed
    /\ r2.prevHardSt = r.prevHardSt /\ r2.advancing = r.advancing /\ r2.stepsOnAdvance = r.stepsOnAdvance
    /\ r2.snapshot = r.snapshot /\ r2.snapshotInProgress = r.snapshotInProgress
    /\ r2.offset = r.offset /\ r2.offsetInProgress = r.offsetInProgress /\ r2.entries = r.entries
    /\ r2.applying = r.applying /\ r.applied <= r2.applied /\ r2.applied <= r.applying
    /\ ~r2.applyingEntsPaused => r2.applyingEntsSize < MaxCommittedSizePerReady

\* What a response of the apply thread does: to the cursor and to both sizes.
LEMMA ApplyRespondedIs ==
    ASSUME NEW r \in Nodes, NEW x \in Batches, BatchEnd(x) <= r.applying, r.applied <= r.applying,
           NEW r2, r2 = ApplyResponded(r, x)
    PROVE  /\ Given(r, r2)
           /\ r2.applyingEntsSize = IF r.applyingEntsSize > entsSize(x.ents)
                                    THEN r.applyingEntsSize - entsSize(x.ents) ELSE 0
           /\ r2.uncommittedSize = IF payloadsSize(x.ents) > r.uncommittedSize
                                   THEN 0 ELSE r.uncommittedSize - payloadsSize(x.ents)
           /\ r2.applied = MaxOf(BatchEnd(x), r.applied)
<1>1. x.from \in Nat /\ x.ents \in Seq(Entry) /\ Len(x.ents) \in Nat
  BY DEF Batches
<1>2. PICK s \in Nat : s = entsSize(x.ents)
  BY <1>1, PayloadsIs
<1>3. PICK t \in Nat : t = payloadsSize(x.ents)
  BY <1>1, PayloadsIs
<1>4. PICK e \in Int : e = BatchEnd(x)
  BY <1>1 DEF BatchEnd
<1>5. PICK ap \in Nat : ap = r.applied
  BY NodeTypes
<1>6. PICK ag \in Nat : ag = r.applying
  BY NodeTypes
<1>7. PICK z \in Nat : z = r.applyingEntsSize
  BY NodeTypes
<1>8. PICK y \in Nat : y = r.uncommittedSize
  BY NodeTypes
<1>9. e <= ag /\ ap <= ag
  BY <1>4, <1>5, <1>6
<1>10. PICK i \in Nat : i = MaxOf(e, ap) /\ ap <= i /\ i <= ag /\ MaxOf(ag, i) = ag
  <2>1. MaxOf(e, ap) \in Nat /\ ap <= MaxOf(e, ap) /\ MaxOf(e, ap) <= ag /\ MaxOf(ag, MaxOf(e, ap)) = ag
    BY <1>9 DEF MaxOf
  <2> QED BY <2>1
<1>11. PICK left \in Nat : left = IF z > s THEN z - s ELSE 0
  <2>1. (IF z > s THEN z - s ELSE 0) \in Nat
    OBVIOUS
  <2> QED BY <2>1
<1>12. PICK rest \in Nat : rest = IF t > y THEN 0 ELSE y - t
  <2>1. (IF t > y THEN 0 ELSE y - t) \in Nat
    OBVIOUS
  <2> QED BY <2>1
<1>13. PICK pz \in BOOLEAN : pz = (left >= MaxCommittedSizePerReady) /\ (~pz => left < MaxCommittedSizePerReady)
  <2>1. (left >= MaxCommittedSizePerReady) \in BOOLEAN /\ (~(left >= MaxCommittedSizePerReady) => left < MaxCommittedSizePerReady)
    BY LimitAssumption
  <2> QED BY <2>1
<1> DEFINE r1 == appliedTo(r, e, s)
<1>14. r1 = [r EXCEPT !.applied = i, !.applying = ag, !.applyingEntsSize = left, !.applyingEntsPaused = pz]
  BY <1>5, <1>6, <1>7, <1>10, <1>11, <1>13 DEF appliedTo
<1>15. r2 = reduceUncommittedSize(r1, t)
  BY <1>2, <1>3, <1>4 DEF ApplyResponded, BatchEnd
<1> HIDE DEF r1
<1>16. r1 \in Nodes
  BY <1>14 DEF Nodes
<1>17. /\ Given(r, r1) /\ r1.applied = i /\ r1.applyingEntsSize = left /\ r1.uncommittedSize = y
  <2>1. /\ r1.Term = r.Term /\ r1.state = r.state /\ r1.committed = r.committed
        /\ r1.prevHardSt = r.prevHardSt /\ r1.advancing = r.advancing /\ r1.stepsOnAdvance = r.stepsOnAdvance
        /\ r1.snapshot = r.snapshot /\ r1.snapshotInProgress = r.snapshotInProgress
        /\ r1.offset = r.offset /\ r1.offsetInProgress = r.offsetInProgress /\ r1.entries = r.entries
        /\ r1.applying = ag /\ r1.applied = i /\ r1.applyingEntsSize = left /\ r1.applyingEntsPaused = pz
        /\ r1.uncommittedSize = y
    BY <1>8, <1>14, <1>16 DEF Nodes
  <2> QED BY <2>1, <1>5, <1>6, <1>10, <1>13, <1>16 DEF Given
<1>18. r2 = [r1 EXCEPT !.uncommittedSize = rest]
  BY <1>12, <1>15, <1>17 DEF reduceUncommittedSize
<1>19. r2 \in Nodes
  BY <1>16, <1>18 DEF Nodes
<1>20. /\ r2.Term = r1.Term /\ r2.state = r1.state /\ r2.committed = r1.committed
       /\ r2.prevHardSt = r1.prevHardSt /\ r2.advancing = r1.advancing /\ r2.stepsOnAdvance = r1.stepsOnAdvance
       /\ r2.snapshot = r1.snapshot /\ r2.snapshotInProgress = r1.snapshotInProgress
       /\ r2.offset = r1.offset /\ r2.offsetInProgress = r1.offsetInProgress /\ r2.entries = r1.entries
       /\ r2.applying = r1.applying /\ r2.applied = r1.applied
       /\ r2.applyingEntsSize = r1.applyingEntsSize /\ r2.applyingEntsPaused = r1.applyingEntsPaused
       /\ r2.uncommittedSize = rest
  BY <1>16, <1>18, <1>19 DEF Nodes
<1>21. Given(r, r2)
  BY <1>17, <1>19, <1>20 DEF Given
<1> QED BY <1>2, <1>3, <1>4, <1>5, <1>7, <1>8, <1>10, <1>11, <1>12, <1>17, <1>20, <1>21

\* Stepping a response of the apply thread keeps Core.
LEMMA GivenCore ==
    ASSUME NEW w, NEW r, NEW m, NEW q, NEW a, NEW G, NEW D, NEW H, NEW r2,
           Core(w, r, m, q, a, G, D, H), Given(r, r2), w.async \/ q = << >>
    PROVE  Core(w, r2, m, q, a, G, D, H)
<1>0. /\ r \in Nodes /\ r2 \in Nodes /\ Memory(w, r, G) /\ Pending(r, G) /\ Cursors(w, r) /\ Link(w, r, m, q, G, D)
      /\ m \in Storages /\ q \in Seq(Writes)
  BY DEF Core, Given
<1>1. /\ r2.Term = r.Term /\ r2.state = r.state /\ r2.committed = r.committed
      /\ r2.prevHardSt = r.prevHardSt
      /\ r2.snapshot = r.snapshot /\ r2.snapshotInProgress = r.snapshotInProgress
      /\ r2.offset = r.offset /\ r2.offsetInProgress = r.offsetInProgress /\ r2.entries = r.entries
      /\ r2.applying = r.applying /\ r.applied <= r2.applied /\ r2.applied <= r.applying
      /\ ~r2.applyingEntsPaused => r2.applyingEntsSize < MaxCommittedSizePerReady
  BY DEF Given
<1>2. r.applied \in Nat /\ r2.applied \in Nat /\ r.applying \in Nat /\ r.snapshot.index \in Nat /\ m.index \in Nat
  BY <1>0, NodeTypes, StorageTypes
<1>3. Memory(w, r2, G) /\ Pending(r2, G)
  BY <1>0, <1>1 DEF Memory, Pending
<1>4. Cursors(w, r2)
  BY <1>0, <1>1 DEF Cursors
<1>5. Link(w, r2, m, q, G, D)
  <2>1. m.index <= MaxOf(r2.applied, r2.snapshot.index)
    <3>1. m.index <= MaxOf(r.applied, r.snapshot.index)
      BY <1>0 DEF Link
    <3> QED BY <3>1, <1>1, <1>2 DEF MaxOf
  <2>2. \A k : Rel(r2, q, k) <=> Rel(r, q, k)
    BY <1>1 DEF Rel, hasNextSnapshot
  <2>3. hasNextSnapshot(r2) <=> hasNextSnapshot(r)
    BY <1>1 DEF hasNextSnapshot
  <2>4. \A k \in 1..Len(q) : (IF w.async THEN r2.applying ELSE r2.applied) < q[k].from
    <3>1. CASE w.async
      BY <3>1, <1>0, <1>1 DEF Link
    <3>2. CASE q = << >>
      BY <3>2
    <3> QED BY <3>1, <3>2
  <2> QED BY <2>1, <2>2, <2>3, <2>4, <1>0, <1>1 DEF Link
<1>6. Ahead(r2, a)
  BY <1>1 DEF Core, Ahead, hasNextSnapshot
<1> QED BY <1>0, <1>1, <1>3, <1>4, <1>5, <1>6 DEF Core

\* Stepping a response of the apply thread leaves the others true.
LEMMA GivenResponse ==
    ASSUME NEW w, NEW r, NEW q, NEW G, NEW D, NEW r2, NEW y \in AppendResps, NEW p, NEW c,
           r \in Nodes, Given(r, r2), Response(w, r, q, G, D, y, p, c)
    PROVE  Response(w, r2, q, G, D, y, p, c)
<1>1. /\ r2.Term = r.Term /\ r2.committed = r.committed
      /\ r2.snapshot = r.snapshot /\ r2.snapshotInProgress = r.snapshotInProgress
      /\ r2.offset = r.offset /\ r2.offsetInProgress = r.offsetInProgress
      /\ r.applied <= r2.applied /\ r2 \in Nodes
  BY DEF Given
<1>2. r.applied \in Nat /\ r2.applied \in Nat /\ y.snapshot.index \in Nat
  BY <1>1, NodeTypes, RespTypes
<1>3. y.snapshot.index <= r.applied => y.snapshot.index <= r2.applied
  BY <1>1, <1>2
<1>4. Has(r2, q, G, D, y, p) <=> Has(r, q, G, D, y, p)
  BY <1>1 DEF Has, Rel, hasNextSnapshot
<1>5. (Lacks(w, r2, G, y) <=> Lacks(w, r, G, y)) /\ (Gone(r2, y) <=> Gone(r, y))
  BY <1>1 DEF Lacks, Gone
<1> QED BY <1>1, <1>3, <1>4, <1>5 DEF Response

\* A response of the apply thread keeps the invariant.
LEMMA StepApplyRespInv ==
    ASSUME NEW G, NEW D, NEW H, StateInv(G, D, H), StepApplyResp
    PROVE  StateInv(G, D, H)' /\ SameLog(rn, rn', ms)
<1>0. /\ Core(world, rn, ms, appendQ, sm, G, D, H) /\ rn \in Nodes /\ sm \in Nat /\ Cursors(world, rn)
      /\ Whole(world, rn, ms, appendQ, applyQ, appendResps, applyResps, sm, G, D, H)
      /\ Len(appendQ) \in Nat /\ appendQ \in Seq(Writes)
  BY StateFacts
<1>1. /\ applyQ \in Seq(Batches) /\ appendResps \in Seq(AppendResps) /\ applyResps \in Seq(Batches)
      /\ BatchInv(world, rn, ms, applyQ, applyResps, sm, D[0])
  BY <1>0 DEF Whole
<1>2. PICK n \in Nat : n = Len(applyResps)
  BY <1>1
<1>3. applyResps # << >> /\ applyResps' = Tail(applyResps)
  BY DEF StepApplyResp
<1> DEFINE as == Tail(applyResps)
           x == applyResps[1]
<1>4. /\ as \in Seq(Batches) /\ Len(as) = n - 1 /\ n - 1 \in Nat /\ n >= 1
      /\ \A k \in 1..(n - 1) : as[k] = applyResps[k + 1] /\ k + 1 \in 1..n
      /\ Head(applyResps) = x /\ x \in Batches
  BY <1>1, <1>2, <1>3, TailIs
<1>5. world.async
  BY <1>0, <1>3 DEF Whole, SyncMode
<1>6. AsyncMode(rn) /\ AsyncResponses(world, rn, appendQ, appendResps, sm, G, D)
  BY <1>0, <1>5 DEF Whole
<1>7. 1 \in 1..Len(applyResps)
  BY <1>2, <1>4
<1>8. BatchEnd(x) <= rn.applying /\ rn.applied <= rn.applying
  BY <1>0, <1>1, <1>7 DEF BatchInv, BatchOK, Cursors
<1>9. rn' = ApplyResponded(rn, x)
  BY <1>4 DEF StepApplyResp, Stepped, Batches
<1>10. Given(rn, rn')
  BY <1>0, <1>4, <1>8, <1>9, ApplyRespondedIs
<1>11. Core(world, rn', ms, appendQ, sm, G, D, H)
  BY <1>0, <1>5, <1>10, GivenCore
<1> HIDE DEF as, x
<1>12. /\ rn' \in Nodes /\ rn'.stepsOnAdvance = rn.stepsOnAdvance /\ rn'.advancing = rn.advancing
       /\ rn'.snapshot = rn.snapshot /\ rn'.snapshotInProgress = rn.snapshotInProgress /\ rn'.applying = rn.applying
  BY <1>10 DEF Given
<1>13. BatchInv(world, rn', ms, applyQ, as, sm, D[0])
  <2>1. \A k \in 1..Len(as) : BatchOK(world, rn', as[k])
    BY <1>1, <1>2, <1>4, <1>12 DEF BatchInv, BatchOK
  <2>2. BatchInv(world, rn', ms, applyQ, applyResps, sm, D[0])
    BY <1>1, <1>12, BatchInvKeeps
  <2> QED BY <2>1, <2>2 DEF BatchInv
<1>14. AsyncResponses(world, rn', appendQ, appendResps, sm, G, D)
  <2>1. \A i : CarriedBy(rn', appendResps, i) <=> CarriedBy(rn, appendResps, i)
    BY <1>12 DEF CarriedBy
  <2>2. \A k : CarriedUpTo(rn', appendQ, appendResps, k) <=> CarriedUpTo(rn, appendQ, appendResps, k)
    BY <1>12, <2>1 DEF CarriedUpTo
  <2>3. ASSUME NEW i \in 1..Len(appendResps)
        PROVE  Response(world, rn', appendQ, G, D, appendResps[i], 0, CarriedBy(rn', appendResps, i))
    <3>1. Response(world, rn, appendQ, G, D, appendResps[i], 0, CarriedBy(rn, appendResps, i))
      BY <1>6 DEF AsyncResponses
    <3>2. Response(world, rn, appendQ, G, D, appendResps[i], 0, CarriedBy(rn', appendResps, i))
      BY <2>1, <3>1 DEF Response
    <3>3. appendResps[i] \in AppendResps
      BY <1>1
    <3> QED BY <3>2, <3>3, <1>0, <1>10, GivenResponse
  <2>4. ASSUME NEW k \in 1..Len(appendQ), appendQ[k].resps # << >>
        PROVE  Response(world, rn', appendQ, G, D, appendQ[k].resps[1], k, CarriedUpTo(rn', appendQ, appendResps, k))
    <3>1. Response(world, rn, appendQ, G, D, appendQ[k].resps[1], k, CarriedUpTo(rn, appendQ, appendResps, k))
      BY <2>4, <1>6 DEF AsyncResponses
    <3>2. Response(world, rn, appendQ, G, D, appendQ[k].resps[1], k, CarriedUpTo(rn', appendQ, appendResps, k))
      BY <2>2, <3>1 DEF Response
    <3>3. appendQ[k].resps[1] \in AppendResps
      BY <2>4, <1>0, QueueRespTypes
    <3> QED BY <3>2, <3>3, <1>0, <1>10, GivenResponse
  <2> QED BY <2>2, <2>3, <2>4, <1>6, <1>12 DEF AsyncResponses
<1>15. AsyncMode(rn')
  BY <1>6, <1>12 DEF AsyncMode
<1>16. Whole(world, rn', ms, appendQ, applyQ, appendResps, as, sm, G, D, H)
  BY <1>1, <1>4, <1>5, <1>11, <1>13, <1>14, <1>15 DEF Whole
<1>17. SameLog(rn, rn', ms)
  BY <1>10 DEF SameLog, Given
<1> QED BY <1>3, <1>16, <1>17 DEF StateInv, StepApplyResp, as

\* The steps that Advance takes, one after the other.
LEMMA AfterIs ==
    ASSUME NEW G, NEW D, NEW H, StateInv(G, D, H), Advance
    PROVE  /\ ~world.async
           /\ Len(rn.stepsOnAdvance) \in {0, 1, 2}
           /\ \E x : /\ rn' = [x EXCEPT !.advancing = FALSE, !.stepsOnAdvance = << >>]
                     /\ Len(rn.stepsOnAdvance) = 0 => x = rn
                     /\ Len(rn.stepsOnAdvance) = 1 => x = Stepped(rn, rn.stepsOnAdvance[1])
                     /\ Len(rn.stepsOnAdvance) = 2 => x = Stepped(Stepped(rn, rn.stepsOnAdvance[1]), rn.stepsOnAdvance[2])
<1> DEFINE steps == rn.stepsOnAdvance
           n == Len(steps)
           IsAfter(f) == f = [k \in 0..Len(steps) |-> IF k = 0 THEN rn ELSE Stepped(f[k - 1], steps[k])]
           g == CHOOSE f : IsAfter(f)
<1>1. rn.advancing /\ Whole(world, rn, ms, appendQ, applyQ, appendResps, applyResps, sm, G, D, H) /\ rn \in Nodes
  BY StateFacts DEF Advance
<1>2. ~world.async
  BY <1>1 DEF Whole, AsyncMode
<1>3. steps \in Seq(AppendResps \cup Batches) /\ n \in Nat /\ n <= 2
  <2>1. steps \in Seq(AppendResps \cup Batches)
    BY <1>1 DEF Nodes
  <2>2. n \in Nat
    BY <2>1
  <2>3. n <= 2
    BY <1>1, <1>2 DEF Whole, SyncMode
  <2> QED BY <2>1, <2>2, <2>3
<1>4. n \in {0, 1, 2}
  <2>1. PICK j \in Nat : j = n
    BY <1>3
  <2>2. j <= 2
    BY <1>3, <2>1
  <2>3. j \in {0, 1, 2}
    BY <2>2
  <2> QED BY <2>1, <2>3
<1> DEFINE h == [k \in 0..Len(steps) |-> IF k = 0 THEN rn
                                      ELSE IF k = 1 THEN Stepped(rn, steps[1])
                                      ELSE Stepped(Stepped(rn, steps[1]), steps[2])]
<1>5. IsAfter(h)
  <2>1. \A k \in 0..n : h[k] = IF k = 0 THEN rn ELSE Stepped(h[k - 1], steps[k])
    <3>1. SUFFICES ASSUME NEW k \in 0..n PROVE h[k] = IF k = 0 THEN rn ELSE Stepped(h[k - 1], steps[k])
      OBVIOUS
    <3>2. CASE k = 0
      BY <3>2
    <3>3. CASE k = 1
      <4>1. h[1] = Stepped(rn, steps[1]) /\ h[0] = rn
        BY <3>3
      <4> QED BY <3>3, <4>1
    <3>4. CASE k = 2
      <4>1. 1 \in 0..n /\ 2 \in 0..n
        BY <3>4
      <4>2. h[2] = Stepped(Stepped(rn, steps[1]), steps[2]) /\ h[1] = Stepped(rn, steps[1])
        BY <4>1
      <4> QED BY <3>4, <4>2
    <3>5. k \in {0, 1, 2}
      BY <1>3
    <3> QED BY <3>2, <3>3, <3>4, <3>5
  <2> QED BY <2>1
<1> HIDE DEF h
<1>6. IsAfter(g)
  BY <1>5
<1>7. rn' = [g[n] EXCEPT !.advancing = FALSE, !.stepsOnAdvance = << >>]
  BY DEF Advance
<1> HIDE DEF g
<1>8. n = 0 => g[n] = rn
  <2>1. 0 \in 0..n
    BY <1>3
  <2> QED BY <2>1, <1>6
<1>9. n = 1 => g[n] = Stepped(rn, steps[1])
  <2>1. SUFFICES ASSUME n = 1 PROVE g[1] = Stepped(rn, steps[1])
    OBVIOUS
  <2>2. 0 \in 0..n /\ 1 \in 0..n /\ 1 - 1 = 0 /\ 1 # 0
    BY <2>1
  <2>3. g[0] = rn
    BY <2>2, <1>6
  <2> QED BY <2>2, <2>3, <1>6
<1>10. n = 2 => g[n] = Stepped(Stepped(rn, steps[1]), steps[2])
  <2>1. SUFFICES ASSUME n = 2 PROVE g[2] = Stepped(Stepped(rn, steps[1]), steps[2])
    OBVIOUS
  <2>2. 0 \in 0..n /\ 1 \in 0..n /\ 2 \in 0..n /\ 1 - 1 = 0 /\ 1 # 0 /\ 2 - 1 = 1 /\ 2 # 0
    BY <2>1
  <2>3. g[0] = rn
    BY <2>2, <1>6
  <2>4. g[1] = Stepped(rn, steps[1])
    BY <2>2, <2>3, <1>6
  <2> QED BY <2>2, <2>4, <1>6
<1> QED BY <1>2, <1>4, <1>7, <1>8, <1>9, <1>10

\* A state of the node while Advance takes its steps.
Between(w, r, x, m, a, G, D, H) ==
    /\ Core(w, x, m, << >>, a, G, D, H)
    /\ x.advancing = r.advancing /\ x.stepsOnAdvance = r.stepsOnAdvance
    /\ r.applying <= x.applying /\ x.applying <= MaxOf(r.applying, a)
    /\ SameLog(r, x, m)

\* The first step of Advance.
LEMMA AppendStep ==
    ASSUME NEW G, NEW D, NEW H, StateInv(G, D, H), ~world.async, appendQ = << >>,
           NEW x \in AppendResps, SyncResponse(world, rn, appendQ, sm, G, D, x), NEW r2, r2 = Stepped(rn, x)
    PROVE  /\ Between(world, rn, r2, ms, sm, G, D, H)
           /\ r2.snapshotInProgress => rn.snapshotInProgress /\ x.snapshot # rn.snapshot
<1>0. Core(world, rn, ms, appendQ, sm, G, D, H)
  BY StateFacts
<1>1. Responds(world, rn, appendQ, sm, G, D, x)
  <2>1. Len(appendQ) = 0
    OBVIOUS
  <2> QED BY <2>1 DEF SyncResponse, Responds
<1>2. r2 = AppendResponded(rn, x)
  BY DEF Stepped, AppendResps
<1>3. Acked(rn, r2, appendQ, G, D, x)
  BY <1>0, <1>1, <1>2, AppendRespondedIs
<1>4. /\ Core(world, r2, ms, appendQ, sm, G, D, H)
      /\ r2.applying <= MaxOf(rn.applying, sm) /\ rn.applying <= r2.applying
      /\ SameLog(rn, r2, ms)
  BY <1>0, <1>1, <1>3, AckedCore
<1>5. r2.advancing = rn.advancing /\ r2.stepsOnAdvance = rn.stepsOnAdvance
  BY <1>3 DEF Acked
<1>6. rn.snapshotInProgress => rn.snapshot # NoSnap
  BY <1>0 DEF Core, Pending
<1>7. r2.snapshotInProgress => rn.snapshotInProgress /\ x.snapshot # rn.snapshot
  BY <1>3, <1>6 DEF Acked
<1> QED BY <1>4, <1>5, <1>7 DEF Between

\* The last step of Advance.
LEMMA ApplyStep ==
    ASSUME NEW w, NEW r, NEW x, NEW m, NEW a, NEW G, NEW D, NEW H, r \in Nodes,
           Between(w, r, x, m, a, G, D, H), NEW b \in Batches, BatchEnd(b) <= r.applying, NEW y, y = Stepped(x, b)
    PROVE  Between(w, r, y, m, a, G, D, H) /\ y.snapshotInProgress = x.snapshotInProgress
<1>0. Core(w, x, m, << >>, a, G, D, H) /\ x \in Nodes /\ x.applied <= x.applying
  BY DEF Between, Core, Cursors
<1>1. y = ApplyResponded(x, b)
  BY DEF Stepped, Batches
<1>2. BatchEnd(b) <= x.applying
  <2>1. PICK e \in Int : e = BatchEnd(b)
    BY DEF Batches, BatchEnd
  <2>2. r.applying \in Nat /\ x.applying \in Nat /\ r.applying <= x.applying
    BY <1>0, NodeTypes DEF Between
  <2> QED BY <2>1, <2>2
<1>3. Given(x, y)
  BY <1>0, <1>1, <1>2, ApplyRespondedIs
<1>4. Core(w, y, m, << >>, a, G, D, H)
  BY <1>0, <1>3, GivenCore
<1>5. SameLog(r, y, m)
  BY <1>3 DEF Between, SameLog, Given
<1> QED BY <1>3, <1>4, <1>5 DEF Between, Given

\* Advance, all its steps at once, keeps the invariant.
LEMMA AdvanceInv ==
    ASSUME NEW G, NEW D, NEW H, StateInv(G, D, H), Advance
    PROVE  StateInv(G, D, H)' /\ SameLog(rn, rn', ms)
<1> DEFINE steps == rn.stepsOnAdvance
           n == Len(steps)
<1>0. /\ Core(world, rn, ms, appendQ, sm, G, D, H) /\ rn \in Nodes /\ sm \in Nat
      /\ Whole(world, rn, ms, appendQ, applyQ, appendResps, applyResps, sm, G, D, H)
  BY StateFacts
<1>1. /\ applyQ \in Seq(Batches) /\ appendResps \in Seq(AppendResps) /\ applyResps \in Seq(Batches)
      /\ BatchInv(world, rn, ms, applyQ, applyResps, sm, D[0])
  BY <1>0 DEF Whole
<1>2. ~world.async /\ n \in {0, 1, 2} /\ appendQ = << >> /\ Quiet /\ rn.advancing
  BY AfterIs DEF Advance
<1>3. SyncMode(rn, appendQ, appendResps, applyResps) /\ SyncResponses(world, rn, appendQ, sm, G, D)
  BY <1>0, <1>2 DEF Whole
<1>4. PICK x : /\ rn' = [x EXCEPT !.advancing = FALSE, !.stepsOnAdvance = << >>]
               /\ n = 0 => x = rn
               /\ n = 1 => x = Stepped(rn, steps[1])
               /\ n = 2 => x = Stepped(Stepped(rn, steps[1]), steps[2])
  BY AfterIs
<1>5. steps \in Seq(AppendResps \cup Batches)
  BY <1>0 DEF Nodes
<1>6. /\ \A i \in 1..n : IsAppendResp(steps[i]) => SyncResponse(world, rn, appendQ, sm, G, D, steps[i])
      /\ rn.snapshotInProgress => \E i \in 1..n : IsAppendResp(steps[i]) /\ steps[i].snapshot = rn.snapshot
      /\ n = 2 => IsAppendResp(steps[1]) /\ ~IsAppendResp(steps[2])
  BY <1>3 DEF SyncResponses, SyncMode
<1>7. \A i \in 1..n : /\ IsAppendResp(steps[i]) => steps[i] \in AppendResps
                      /\ ~IsAppendResp(steps[i]) => steps[i] \in Batches /\ BatchEnd(steps[i]) <= rn.applying
  <2>1. SUFFICES ASSUME NEW i \in 1..n
                 PROVE  /\ IsAppendResp(steps[i]) => steps[i] \in AppendResps
                        /\ ~IsAppendResp(steps[i]) => steps[i] \in Batches /\ BatchEnd(steps[i]) <= rn.applying
    OBVIOUS
  <2>2. IsAppendResp(steps[i]) => steps[i] \in AppendResps
    BY <1>0, StepTypes
  <2>3. steps[i] \in AppendResps \cup Batches
    BY <1>5
  <2>4. ~IsAppendResp(steps[i]) => steps[i] \in Batches
    BY <2>3 DEF IsAppendResp, AppendResps
  <2>5. ~IsAppendResp(steps[i]) => BatchEnd(steps[i]) <= rn.applying
    BY <1>1 DEF BatchInv, BatchOK
  <2> QED BY <2>2, <2>4, <2>5
<1>8. Between(world, rn, rn, ms, sm, G, D, H)
  <2>1. rn.applying \in Nat
    BY <1>0, NodeTypes
  <2>2. rn.applying <= rn.applying /\ rn.applying <= MaxOf(rn.applying, sm)
    BY <2>1, <1>0 DEF MaxOf
  <2> QED BY <2>2, <1>0, <1>2 DEF Between, SameLog
<1> HIDE DEF steps, n
<1>9. Between(world, rn, x, ms, sm, G, D, H) /\ ~x.snapshotInProgress
  <2>1. CASE n = 0
    <3>1. ~rn.snapshotInProgress
      BY <2>1, <1>6
    <3> QED BY <3>1, <2>1, <1>4, <1>8
  <2>2. CASE n = 1 /\ ~IsAppendResp(steps[1])
    <3>1. 1 \in 1..n /\ 1..n = {1}
      BY <2>2
    <3>2. ~rn.snapshotInProgress
      BY <2>2, <3>1, <1>6
    <3>3. Between(world, rn, x, ms, sm, G, D, H) /\ x.snapshotInProgress = rn.snapshotInProgress
      BY <2>2, <3>1, <1>0, <1>4, <1>7, <1>8, ApplyStep
    <3> QED BY <3>2, <3>3
  <2>3. CASE n = 1 /\ IsAppendResp(steps[1])
    <3>1. 1 \in 1..n /\ 1..n = {1}
      BY <2>3
    <3>2. /\ Between(world, rn, x, ms, sm, G, D, H)
          /\ x.snapshotInProgress => rn.snapshotInProgress /\ steps[1].snapshot # rn.snapshot
      BY <2>3, <3>1, <1>2, <1>4, <1>6, <1>7, AppendStep
    <3>3. ~x.snapshotInProgress
      BY <3>1, <3>2, <1>6
    <3> QED BY <3>2, <3>3
  <2>4. CASE n = 2
    <3>1. 1 \in 1..n /\ 2 \in 1..n /\ 1..n = {1, 2}
      BY <2>4
    <3>2. IsAppendResp(steps[1]) /\ ~IsAppendResp(steps[2])
      BY <2>4, <1>6
    <3>3. PICK y : y = Stepped(rn, steps[1])
      OBVIOUS
    <3>4. /\ Between(world, rn, y, ms, sm, G, D, H)
          /\ y.snapshotInProgress => rn.snapshotInProgress /\ steps[1].snapshot # rn.snapshot
      BY <3>1, <3>2, <3>3, <1>2, <1>6, <1>7, AppendStep
    <3>5. ~y.snapshotInProgress
      BY <3>1, <3>2, <3>4, <1>6
    <3>6. Between(world, rn, x, ms, sm, G, D, H) /\ x.snapshotInProgress = y.snapshotInProgress
      BY <2>4, <3>1, <3>2, <3>3, <3>4, <1>0, <1>4, <1>7, ApplyStep
    <3> QED BY <3>5, <3>6
  <2> QED BY <2>1, <2>2, <2>3, <2>4, <1>2
<1>10. x \in Nodes /\ Core(world, x, ms, appendQ, sm, G, D, H)
  BY <1>2, <1>9 DEF Between, Core
<1>11. rn' \in Nodes
  <2>1. << >> \in Seq(AppendResps \cup Batches)
    OBVIOUS
  <2> QED BY <2>1, <1>4, <1>10 DEF Nodes
<1>12. /\ rn'.Term = x.Term /\ rn'.state = x.state /\ rn'.committed = x.committed
       /\ rn'.prevHardSt = x.prevHardSt
       /\ rn'.snapshot = x.snapshot /\ rn'.snapshotInProgress = x.snapshotInProgress
       /\ rn'.offset = x.offset /\ rn'.offsetInProgress = x.offsetInProgress /\ rn'.entries = x.entries
       /\ rn'.applying = x.applying /\ rn'.applied = x.applied
       /\ rn'.applyingEntsSize = x.applyingEntsSize /\ rn'.applyingEntsPaused = x.applyingEntsPaused
       /\ rn'.advancing = FALSE /\ rn'.stepsOnAdvance = << >>
  BY <1>4, <1>10, <1>11 DEF Nodes
<1>13. Core(world, rn', ms, appendQ, sm, G, D, H)
  BY <1>10, <1>11, <1>12 DEF Core, Memory, Cursors, Pending, Link, Rel, hasNextSnapshot, Ahead
<1>14. BatchInv(world, rn', ms, applyQ, applyResps, sm, D[0])
  BY <1>0, <1>1, <1>9, <1>11, <1>12, BatchInvGrows DEF Between
<1>15. SyncMode(rn', appendQ, appendResps, applyResps)
  <2>1. Len(rn'.stepsOnAdvance) = 0
    BY <1>12
  <2> QED BY <1>2, <1>3, <1>12, <2>1 DEF SyncMode
<1>16. SyncResponses(world, rn', appendQ, sm, G, D)
  <2>1. 1..Len(rn'.stepsOnAdvance) = {} /\ ~rn'.snapshotInProgress
    BY <1>9, <1>12
  <2> QED BY <2>1 DEF SyncResponses
<1>17. Whole(world, rn', ms, appendQ, applyQ, appendResps, applyResps, sm, G, D, H)
  BY <1>1, <1>2, <1>13, <1>14, <1>15, <1>16 DEF Whole
<1>18. SameLog(rn, rn', ms)
  BY <1>9, <1>12 DEF Between, SameLog
<1> QED BY <1>2, <1>17, <1>18, QuietInv

=============================================================================
