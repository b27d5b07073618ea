-------------------------- MODULE LogStorageProofs --------------------------
(***************************************************************************)
(* Ready, the append thread and restarts keep the invariant of             *)
(* LogStorageLemmas, and what follows from it: no panic, nothing applied   *)
(* that is not committed, a restart that finds its range, and one log as   *)
(* DurableLog has it.                                                      *)
(***************************************************************************)
EXTENDS LogStorageLemmas

\* A set of numbers up to n that holds 0 has a largest one.
LEMMA LargestExists ==
    ASSUME NEW n \in Nat, NEW S \in SUBSET (0..n), 0 \in S
    PROVE  \E x \in S : \A y \in S : y <= x
<1> DEFINE P(k) == \A A \in SUBSET (0..k) : 0 \in A => \E x \in A : \A y \in A : y <= x
           T == {k \in Nat : P(k)}
<1>1. 0 \in T
  <2>1. SUFFICES ASSUME NEW A \in SUBSET (0..0), 0 \in A PROVE \E x \in A : \A y \in A : y <= x
    OBVIOUS
  <2>2. \A y \in A : y <= 0
    OBVIOUS
  <2> QED BY <2>1, <2>2
<1>2. ASSUME NEW k \in Nat, k \in T PROVE k + 1 \in T
  <2>1. SUFFICES ASSUME NEW A \in SUBSET (0..(k + 1)), 0 \in A PROVE \E x \in A : \A y \in A : y <= x
    OBVIOUS
  <2>2. CASE k + 1 \in A
    <3>1. \A y \in A : y <= k + 1
      OBVIOUS
    <3> QED BY <2>2, <3>1
  <2>3. CASE k + 1 \notin A
    <3>1. A \in SUBSET (0..k)
      BY <2>3
    <3>2. P(k)
      BY <1>2
    <3> QED BY <2>1, <3>1, <3>2
  <2> QED BY <2>2, <2>3
<1>3. \A k \in Nat : k \in T
  <2> HIDE DEF T
  <2> QED BY <1>1, <1>2, NatSetInduction
<1>4. P(n)
  BY <1>3
<1> QED BY <1>4

\* limitSize returns the first entries.
LEMMA LimitIs ==
    ASSUME NEW s \in Seq(Entry), NEW max, NEW e, e = limitSize(s, max), NEW n \in Nat, n = Len(s)
    PROVE  /\ e \in Seq(Entry) /\ Len(e) \in Nat /\ Len(e) <= n
           /\ \A j \in 1..Len(e) : e[j] = s[j]
           /\ n > 0 => Len(e) > 0
<1> DEFINE fits == {k \in 1..Len(s) : k = 1 \/ entsSize(SubSeq(s, 1, k)) <= max}
           c == CHOOSE k \in fits \cup {0} : \A j \in fits : j <= k
<1>1. fits \subseteq 1..n /\ (n > 0 => 1 \in fits)
  OBVIOUS
<1>2. e = SubSeq(s, 1, c)
  BY DEF limitSize
<1> HIDE DEF fits
<1>3. fits \cup {0} \in SUBSET (0..n)
  BY <1>1
<1>4. \E k \in fits \cup {0} : \A j \in fits : j <= k
  <2>1. PICK k \in fits \cup {0} : \A j \in fits \cup {0} : j <= k
    BY <1>3, LargestExists
  <2> QED BY <2>1
<1>5. c \in fits \cup {0} /\ \A j \in fits : j <= c
  BY <1>4
<1> HIDE DEF c
<1>6. c \in Nat /\ c <= n /\ (n > 0 => c > 0)
  <2>1. c \in 0..n
    BY <1>3, <1>5
  <2> QED BY <2>1, <1>1, <1>5
<1>7. /\ SubSeq(s, 1, c) \in Seq(Entry) /\ Len(SubSeq(s, 1, c)) = c + 1 - 1
      /\ \A k \in 1..(c + 1 - 1) : SubSeq(s, 1, c)[k] = s[1 - 1 + k]
  BY <1>6, SubSeqIs
<1>8. c + 1 - 1 = c /\ \A k \in 1..c : 1 - 1 + k = k
  BY <1>6
<1>9. e \in Seq(Entry) /\ Len(e) = c /\ \A k \in 1..c : e[k] = s[k]
  BY <1>2, <1>7, <1>8
<1> QED BY <1>6, <1>9

\* s holds the entries of G from lo up to hi - 1.
PartOf(s, G, lo, hi) ==
    /\ s \in Seq(Entry) /\ Len(s) = hi - lo
    /\ \A k \in 1..(hi - lo) : lo + k - 1 \in 1..Len(G) /\ s[k] = G[lo + k - 1]

\* A slice of raft's log, from its first index on.
LEMMA SliceIs ==
    ASSUME NEW w, NEW r, NEW m, NEW q, NEW a, NEW G, NEW D, NEW H, Core(w, r, m, q, a, G, D, H),
           NEW lo \in Nat, NEW hi \in Nat, firstIndex(r, m) <= lo, lo <= hi, hi <= Len(G) + 1,
           NEW s, s = slice(r, m, lo, hi)
    PROVE  PartOf(s, G, lo, hi)
<1>0. PICK n \in Nat : n = hi - lo
  <2>1. hi - lo \in Nat
    OBVIOUS
  <2> QED BY <2>1
<1>1. s = [k \in 1..(hi - lo) |-> entryAt(r, m, lo + k - 1)]
  BY DEF slice
<1>3. s = [k \in 1..n |-> entryAt(r, m, lo + k - 1)]
  BY <1>0, <1>1
<1>4. G \in Seq(Entry) /\ Len(G) \in Nat /\ firstIndex(r, m) \in Nat /\ firstIndex(r, m) > 0
  <2>1. G \in Seq(Entry) /\ Len(G) \in Nat /\ firstIndex(r, m) \in Nat /\ firstIndex(r, m) - 1 \in Nat
    BY FirstIs DEF Core, Memory
  <2> QED BY <2>1
<1>5. ASSUME NEW k \in 1..n
      PROVE  lo + k - 1 \in 1..Len(G) /\ entryAt(r, m, lo + k - 1) = G[lo + k - 1] /\ G[lo + k - 1] \in Entry
  <2>1. lo + k - 1 \in 1..Len(G) /\ lo + k - 1 \in firstIndex(r, m)..Len(G)
    BY <1>0, <1>4
  <2>2. entryAt(r, m, lo + k - 1) = G[lo + k - 1]
    BY <2>1, EntryIs
  <2> QED BY <2>1, <2>2, <1>4
<1>6. s \in Seq(Entry) /\ Len(s) = n
  <2>1. \A k \in 1..n : entryAt(r, m, lo + k - 1) \in Entry
    BY <1>5
  <2>2. s \in [1..n -> Entry]
    BY <1>3, <2>1
  <2> QED BY <2>2
<1>7. \A k \in 1..n : lo + k - 1 \in 1..Len(G) /\ s[k] = G[lo + k - 1]
  BY <1>3, <1>5
<1> QED BY <1>0, <1>6, <1>7 DEF PartOf

\* What is handed out to be applied: the entries after applying, committed and,
\* with asynchronous writes, stable.
HandsOut(w, r, G, e) ==
    /\ e \in Seq(Entry) /\ Len(e) \in Nat
    /\ \A j \in 1..Len(e) : r.applying + j \in 1..Len(G) /\ e[j] = G[r.applying + j]
    /\ r.applying + Len(e) <= r.committed
    /\ e # << >> =>
        /\ r.snapshot = NoSnap /\ ~r.applyingEntsPaused
        /\ w.async => r.applying + Len(e) < r.offset

\* nextCommittedEnts returns committed entries, from the one after applying on.
LEMMA NextCommittedIs ==
    ASSUME NEW r, NEW m, NEW q, NEW a, NEW G, NEW D, NEW H,
           Core(world, r, m, q, a, G, D, H), NEW e, e = nextCommittedEnts(r, m)
    PROVE  HandsOut(world, r, G, e)
<1>0. /\ r \in Nodes /\ G \in Seq(Entry) /\ Len(G) \in Nat /\ Cursors(world, r) /\ Memory(world, r, G)
      /\ r.applying \in Nat /\ r.committed \in Nat /\ r.offset \in Nat /\ r.applied \in Nat /\ m.index \in Nat
  BY NodeTypes, StorageTypes DEF Core, Memory
<1>1. PICK ag \in Nat : ag = r.applying
  BY <1>0
<1>2. PICK c \in Nat : c = r.committed
  BY <1>0
<1>3. PICK o \in Nat : o = r.offset
  BY <1>0
<1>4. ag <= c /\ c <= Len(G) /\ o > 0
  BY <1>0, <1>1, <1>2, <1>3 DEF Cursors, Memory, CommitOK, TailOf
<1>5. CASE ~hasNextCommittedEnts(r)
  <2>1. e = << >>
    BY <1>5 DEF nextCommittedEnts
  <2>2. e \in Seq(Entry) /\ Len(e) = 0 /\ ag + 0 <= c
    BY <2>1, <1>4
  <2>3. 1..Len(e) = {} /\ r.applying + Len(e) <= r.committed
    BY <2>2, <1>1, <1>2
  <2> QED BY <2>1, <2>2, <2>3 DEF HandsOut
<1>6. CASE hasNextCommittedEnts(r)
  <2> DEFINE x == maxAppliableIndex(r)
  <2>1. x \in Nat /\ ag < x /\ x <= c /\ (world.async => x < o) /\ r.snapshot = NoSnap /\ ~r.applyingEntsPaused
    <3>1. x = IF world.async THEN MinOf(c, o - 1) ELSE c
      BY <1>2, <1>3 DEF maxAppliableIndex
    <3>2. r.applying < x /\ r.snapshot = NoSnap /\ ~r.applyingEntsPaused
      BY <1>6 DEF hasNextCommittedEnts
    <3> QED BY <3>1, <3>2, <1>1, <1>4 DEF MinOf
  <2>2. PICK s : s = slice(r, m, r.applying + 1, x + 1)
    OBVIOUS
  <2>3. e = limitSize(s, MaxCommittedSizePerReady - r.applyingEntsSize)
    BY <1>6, <2>2 DEF nextCommittedEnts
  <2> HIDE DEF x
  <2>4. PICK n \in Nat : ag + n = x
    <3>1. x - ag \in Nat /\ ag + (x - ag) = x
      BY <2>1
    <3> QED BY <3>1
  <2>5. firstIndex(r, m) <= ag + 1 /\ firstIndex(r, m) \in Nat
    <3>1. PICK mi \in Nat : mi = m.index
      BY <1>0
    <3>2. mi <= r.applied
      BY <2>1, <3>1, FirstIs
    <3>3. r.applied <= ag
      BY <1>0, <1>1 DEF Cursors
    <3>4. firstIndex(r, m) = mi + 1
      BY <2>1, <3>1 DEF firstIndex
    <3> QED BY <3>1, <3>2, <3>3, <3>4, <1>0
  <2>6. /\ s \in Seq(Entry) /\ Len(s) = n
        /\ \A k \in 1..n : ag + 1 + k - 1 \in 1..Len(G) /\ s[k] = G[ag + 1 + k - 1]
    <3>1. s = slice(r, m, ag + 1, x + 1)
      BY <1>1, <2>2
    <3>2. PICK lo \in Nat : lo = ag + 1
      OBVIOUS
    <3>3. PICK hi \in Nat : hi = x + 1
      BY <2>1
    <3>4. firstIndex(r, m) <= lo /\ lo <= hi /\ hi <= Len(G) + 1 /\ hi - lo = n
      BY <1>0, <1>4, <2>1, <2>4, <2>5, <3>2, <3>3
    <3>5. PartOf(s, G, lo, hi)
      BY <3>1, <3>2, <3>3, <3>4, SliceIs
    <3> QED BY <3>2, <3>4, <3>5 DEF PartOf
  <2>7. \A k \in 1..n : ag + k \in 1..Len(G) /\ s[k] = G[ag + k]
    <3>1. \A k \in 1..n : ag + 1 + k - 1 = ag + k
      OBVIOUS
    <3> QED BY <2>6, <3>1
  <2>8. /\ e \in Seq(Entry) /\ Len(e) \in Nat /\ Len(e) <= n
        /\ \A j \in 1..Len(e) : e[j] = s[j]
    BY <2>3, <2>6, LimitIs
  <2>9. PICK l \in Nat : l = Len(e)
    BY <2>8
  <2>10. l <= n /\ ag + l <= c /\ (world.async => ag + l < o) /\ (\A j \in 1..l : j \in 1..n)
    BY <2>1, <2>4, <2>8, <2>9
  <2> QED BY <2>1, <2>7, <2>8, <2>9, <2>10, <1>1, <1>2, <1>3 DEF HandsOut
<1> QED BY <1>5, <1>6

\* What a Ready hands to the append thread.
Sent(r, G, x) ==
    /\ x \in Writes /\ x.from = r.offsetInProgress
    /\ x.snapshot = IF hasNextSnapshot(r) THEN r.snapshot ELSE NoSnap
    /\ TailOf(x.ents, x.from, G)
    /\ x.hs = IF hardState(r) = r.prevHardSt THEN EmptyHardState ELSE hardState(r)
    /\ Len(x.resps) <= 1
    /\ x.resps # << >> =>
        /\ x.resps[1].snapshot = x.snapshot /\ x.resps[1].term = r.Term
        /\ x.resps[1].index # 0 =>
            x.resps[1].index = Len(G) /\ x.resps[1].logTerm = G[Len(G)].term
    /\ hasNextSnapshot(r) => x.resps # << >>

\* newStorageAppendMsg saves what is not being written yet, and its response
\* names the last entry.
LEMMA SentIs ==
    ASSUME NEW w, NEW r, NEW m, NEW q, NEW a, NEW G, NEW D, NEW H, Core(w, r, m, q, a, G, D, H),
           NEW x, x = NewAppendMsg(r, m)
    PROVE  Sent(r, G, x)
<1>0. /\ r \in Nodes /\ m \in Storages /\ G \in Seq(Entry) /\ Len(G) \in Nat /\ Memory(w, r, G)
      /\ r.entries \in Seq(Entry) /\ Len(r.entries) \in Nat /\ r.snapshot \in Snapshots /\ r.Term \in Nat
      /\ r.committed \in Nat /\ r.prevHardSt \in HardStates /\ r.offset \in Nat /\ r.offsetInProgress \in Nat
  BY NodeTypes DEF Core, Memory
<1>1. PICK o \in Nat : o = r.offset
  BY <1>0
<1>2. PICK p \in Nat : p = r.offsetInProgress
  BY <1>0
<1>3. PICK l \in Nat : l = Len(r.entries)
  BY <1>0
<1>4. PICK g \in Nat : g = Len(G)
  BY <1>0
<1>5. o > 0 /\ o + l = g + 1 /\ o <= p /\ p <= g + 1 /\ \A i \in 1..l : r.entries[i] = G[o - 1 + i]
  BY <1>0, <1>1, <1>2, <1>3, <1>4 DEF Memory, TailOf
<1>6. PICK es : es = nextEntries(r)
  OBVIOUS
<1>7. es \in Seq(Entry) /\ TailOf(es, p, G)
  <2>1. es = SubSeq(r.entries, p - o + 1, l)
    BY <1>1, <1>2, <1>3, <1>6 DEF nextEntries
  <2>2. PICK d \in Nat : d = p - o + 1
    BY <1>5
  <2>3. d > 0 /\ d <= l + 1 /\ l <= l
    BY <1>5, <2>2
  <2>4. /\ SubSeq(r.entries, d, l) \in Seq(Entry) /\ Len(SubSeq(r.entries, d, l)) = l + 1 - d
        /\ \A k \in 1..(l + 1 - d) : SubSeq(r.entries, d, l)[k] = r.entries[d - 1 + k]
    BY <1>0, <1>3, <2>3, SubSeqIs
  <2>5. /\ es \in Seq(Entry) /\ Len(es) = l + 1 - d
        /\ \A k \in 1..(l + 1 - d) : es[k] = r.entries[d - 1 + k]
    BY <2>1, <2>2, <2>4
  <2>6. p > 0 /\ p + (l + 1 - d) = g + 1
    BY <1>5, <2>2
  <2>7. \A k \in 1..(l + 1 - d) : d - 1 + k \in 1..l /\ o - 1 + (d - 1 + k) = p - 1 + k
    BY <2>2, <2>3, <1>5
  <2>8. \A k \in 1..(l + 1 - d) : es[k] = G[p - 1 + k]
    BY <2>5, <2>7, <1>5
  <2> QED BY <2>5, <2>6, <2>8, <1>4 DEF TailOf
<1>8. PICK y : y = AppendResp(r, m)
  OBVIOUS
<1>9. hardState(r) \in HardStates /\ EmptyHardState \in HardStates /\ NoSnap \in Snapshots
  BY <1>0 DEF hardState, HardStates, EmptyHardState, NoSnap, Snapshots
<1>10. r.entries # << >> => g > 0 /\ lastIndex(r, m) = g /\ term(r, m, g) = G[g].term
  <2>1. SUFFICES ASSUME r.entries # << >> PROVE g > 0 /\ lastIndex(r, m) = g /\ term(r, m, g) = G[g].term
    OBVIOUS
  <2>2. l # 0
    BY <2>1, <1>0, <1>3, EmptySeq
  <2>3. g > 0
    BY <2>2, <1>5
  <2>4. lastIndex(r, m) = g
    BY <1>4, LastIs
  <2>5. firstIndex(r, m) - 1 <= g
    <3>1. PICK f \in Nat : f = firstIndex(r, m) - 1
      BY FirstIs
    <3>2. PICK c \in Nat : c = r.committed
      BY <1>0
    <3>3. f <= c /\ c <= g
      BY <3>1, <3>2, <1>4, FirstIs
    <3> QED BY <3>1, <3>3
  <2>6. g <= Len(G)
    BY <1>4
  <2> QED BY <2>3, <2>4, <2>5, <2>6, TermIs
<1>11. /\ y.snapshot = IF hasNextSnapshot(r) THEN r.snapshot ELSE NoSnap
       /\ y.term = r.Term
       /\ y.index = IF r.entries = << >> THEN 0 ELSE lastIndex(r, m)
       /\ y.logTerm = IF r.entries = << >> THEN 0 ELSE term(r, m, lastIndex(r, m))
       /\ y = [type |-> "MsgStorageAppendResp", term |-> y.term, index |-> y.index,
               logTerm |-> y.logTerm, snapshot |-> y.snapshot]
  BY <1>8 DEF AppendResp
<1>12. y.index # 0 => y.index = g /\ y.logTerm = G[g].term
  BY <1>10, <1>11
<1>13. y \in AppendResps
  <2>1. y.index \in Nat
    BY <1>10, <1>11
  <2>2. y.logTerm \in Nat
    <3>1. CASE r.entries = << >>
      BY <3>1, <1>11
    <3>2. CASE r.entries # << >>
      <4>1. g > 0 /\ y.logTerm = G[g].term
        BY <3>2, <1>10, <1>11
      <4>2. G[g] \in Entry
        BY <4>1, <1>0, <1>4
      <4> QED BY <4>1, <4>2 DEF Entry
    <3> QED BY <3>1, <3>2
  <2>3. y.term \in Nat /\ y.snapshot \in Snapshots
    BY <1>0, <1>9, <1>11
  <2> QED BY <2>1, <2>2, <2>3, <1>11 DEF AppendResps
<1>14. /\ x.from = r.offsetInProgress /\ x.ents = es
       /\ x.snapshot = IF hasNextSnapshot(r) THEN r.snapshot ELSE NoSnap
       /\ x.hs = IF hardState(r) = r.prevHardSt THEN EmptyHardState ELSE hardState(r)
       /\ x.resps = IF needStorageAppendResp(r) THEN <<y>> ELSE << >>
       /\ x = [hs |-> x.hs, snapshot |-> x.snapshot, from |-> x.from, ents |-> x.ents, resps |-> x.resps]
  BY <1>6, <1>8 DEF NewAppendMsg
<1>15. /\ x.resps \in Seq(AppendResps) /\ Len(x.resps) <= 1
       /\ x.resps # << >> => x.resps[1] = y
       /\ hasNextSnapshot(r) => x.resps # << >>
  <2>1. CASE needStorageAppendResp(r)
    <3>1. x.resps = <<y>>
      BY <2>1, <1>14
    <3>2. <<y>> \in Seq(AppendResps) /\ Len(<<y>>) = 1 /\ <<y>>[1] = y /\ <<y>> # << >>
      BY <1>13
    <3> QED BY <3>1, <3>2
  <2>2. CASE ~needStorageAppendResp(r)
    <3>1. x.resps = << >>
      BY <2>2, <1>14
    <3>2. << >> \in Seq(AppendResps) /\ Len(<< >>) = 0 /\ ~hasNextSnapshot(r)
      BY <2>2 DEF needStorageAppendResp
    <3> QED BY <3>1, <3>2
  <2> QED BY <2>1, <2>2
<1>16. x \in Writes
  <2>1. x.hs \in HardStates /\ x.snapshot \in Snapshots /\ x.from \in Nat /\ x.ents \in Seq(Entry)
    BY <1>0, <1>7, <1>9, <1>14
  <2> QED BY <2>1, <1>14, <1>15 DEF Writes
<1>17. TailOf(x.ents, x.from, G)
  BY <1>2, <1>7, <1>14
<1>18. x.resps # << >> =>
        /\ x.resps[1].snapshot = x.snapshot /\ x.resps[1].term = r.Term
        /\ x.resps[1].index # 0 =>
            x.resps[1].index = Len(G) /\ x.resps[1].logTerm = G[Len(G)].term
  BY <1>4, <1>11, <1>12, <1>14, <1>15
<1> QED BY <1>14, <1>15, <1>16, <1>17, <1>18 DEF Sent

\* What taking a Ready with the committed entries e changes in the node.
Accepts(w, r, G, e, r2) ==
    /\ r2 \in Nodes
    /\ r2.Term = r.Term /\ r2.state = r.state /\ r2.committed = r.committed
    /\ r2.applied = r.applied /\ r2.applying = r.applying + Len(e)
    /\ ~r2.applyingEntsPaused => r2.applyingEntsSize < MaxCommittedSizePerReady
    /\ r2.snapshot = r.snapshot /\ r2.snapshotInProgress = (r.snapshot # NoSnap)
    /\ r2.entries = r.entries /\ r2.offset = r.offset /\ r2.offsetInProgress = Len(G) + 1
    /\ r2.prevHardSt = hardState(r)

\* What Advance will have to do for the Ready.
AcceptsSteps(w, r, m, e, r2) ==
    /\ w.async => r2.advancing = r.advancing /\ r2.stepsOnAdvance = r.stepsOnAdvance
    /\ ~w.async =>
        /\ r2.advancing = TRUE
        /\ r2.stepsOnAdvance = NewAppendMsg(r, m).resps
                \o (IF e = << >> THEN << >> ELSE <<ApplyResp(e, r.applying + 1)>>)
\* How the Ready counts.
AcceptsSizes(r, e, r2) ==
    /\ r2.applyingEntsSize = r.applyingEntsSize + (IF e = << >> THEN 0 ELSE entsSize(e))
    /\ r2.uncommittedSize = r.uncommittedSize

\* What acceptReady changes.
LEMMA AcceptedIs ==
    ASSUME NEW r, NEW m, NEW q, NEW a, NEW G, NEW D, NEW H, Core(world, r, m, q, a, G, D, H),
           NEW e, HandsOut(world, r, G, e), NEW r2, r2 = Accepted(r, m, e)
    PROVE  Accepts(world, r, G, e, r2) /\ AcceptsSteps(world, r, m, e, r2) /\ AcceptsSizes(r, e, r2)
<1>0. /\ r \in Nodes /\ m \in Storages /\ G \in Seq(Entry) /\ Len(G) \in Nat /\ Memory(world, r, G)
      /\ r.entries \in Seq(Entry) /\ Len(r.entries) \in Nat /\ r.Term \in Nat
      /\ r.committed \in Nat /\ r.offset \in Nat /\ r.offsetInProgress \in Nat /\ r.applying \in Nat
      /\ r.applyingEntsSize \in Nat /\ e \in Seq(Entry) /\ Len(e) \in Nat
      /\ ~r.applyingEntsPaused => r.applyingEntsSize < MaxCommittedSizePerReady
  BY NodeTypes DEF Core, Memory, HandsOut, Cursors
<1>1. hardState(r) \in HardStates
  BY <1>0 DEF hardState, HardStates
<1>2. PICK p \in Nat : p = Len(G) + 1
  BY <1>0
<1>3. unstableLast(r) + 1 = p /\ (r.entries = << >> => r.offsetInProgress = p)
  <2>1. PICK o \in Nat : o = r.offset
    BY <1>0
  <2>2. PICK l \in Nat : l = Len(r.entries)
    BY <1>0
  <2>3. PICK i \in Nat : i = r.offsetInProgress
    BY <1>0
  <2>4. o + l = p /\ o <= i /\ i <= p
    BY <1>0, <1>2, <2>1, <2>2, <2>3 DEF Memory, TailOf
  <2>5. unstableLast(r) = o + l - 1
    BY <2>1, <2>2 DEF unstableLast
  <2>6. r.entries = << >> => l = 0
    BY <2>2
  <2> QED BY <2>3, <2>4, <2>5, <2>6
<1>4. PICK b \in BOOLEAN : b = (r.snapshot # NoSnap)
  OBVIOUS
<1>5. PICK r1 : r1 = acceptInProgress([r EXCEPT !.prevHardSt = hardState(r)])
  OBVIOUS
<1>6. r1 = [r EXCEPT !.prevHardSt = hardState(r), !.offsetInProgress = p, !.snapshotInProgress = b]
  <2>1. PICK r0 : r0 = [r EXCEPT !.prevHardSt = hardState(r)]
    OBVIOUS
  <2>2. /\ r0.entries = r.entries /\ r0.offset = r.offset /\ r0.offsetInProgress = r.offsetInProgress
        /\ r0.snapshot = r.snapshot
    BY <2>1, <1>0 DEF Nodes
  <2>3. unstableLast(r0) + 1 = p
    BY <2>2, <1>3 DEF unstableLast
  <2>4. r1 = [r0 EXCEPT !.offsetInProgress = p, !.snapshotInProgress = b]
    BY <2>1, <2>2, <2>3, <1>3, <1>4, <1>5 DEF acceptInProgress
  <2> QED BY <2>1, <2>4
<1>7. r1 \in Nodes
  BY <1>0, <1>1, <1>6 DEF Nodes
<1>8. /\ r1.Term = r.Term /\ r1.state = r.state /\ r1.committed = r.committed
      /\ r1.applied = r.applied /\ r1.applying = r.applying
      /\ r1.applyingEntsSize = r.applyingEntsSize /\ r1.applyingEntsPaused = r.applyingEntsPaused
      /\ r1.snapshot = r.snapshot /\ r1.snapshotInProgress = b
      /\ r1.entries = r.entries /\ r1.offset = r.offset /\ r1.offsetInProgress = p
      /\ r1.prevHardSt = hardState(r) /\ r1.uncommittedSize = r.uncommittedSize
      /\ r1.advancing = r.advancing /\ r1.stepsOnAdvance = r.stepsOnAdvance
  BY <1>0, <1>6 DEF Nodes
<1>9. PICK z : z = IF e = << >> THEN r1 ELSE acceptApplying(r1, r.applying + Len(e), entsSize(e))
  OBVIOUS
<1>10. /\ z \in Nodes
       /\ z.Term = r1.Term /\ z.state = r1.state /\ z.committed = r1.committed
       /\ z.applied = r1.applied /\ z.applying = r.applying + Len(e)
       /\ ~z.applyingEntsPaused => z.applyingEntsSize < MaxCommittedSizePerReady
       /\ z.applyingEntsSize = r.applyingEntsSize + (IF e = << >> THEN 0 ELSE entsSize(e))
       /\ z.snapshot = r1.snapshot /\ z.snapshotInProgress = r1.snapshotInProgress
       /\ z.entries = r1.entries /\ z.offset = r1.offset /\ z.offsetInProgress = r1.offsetInProgress
       /\ z.prevHardSt = r1.prevHardSt /\ z.uncommittedSize = r1.uncommittedSize
       /\ z.advancing = r1.advancing /\ z.stepsOnAdvance = r1.stepsOnAdvance
  <2>1. CASE e = << >>
    <3>1. z = r1
      BY <2>1, <1>9
    <3>2. Len(e) = 0
      BY <2>1
    <3>3. r.applying + Len(e) = r.applying /\ r.applyingEntsSize + 0 = r.applyingEntsSize
      BY <3>2, <1>0
    <3> QED BY <2>1, <3>1, <3>3, <1>0, <1>7, <1>8
  <2>2. CASE e # << >>
    <3>1. PICK s \in Nat : s = entsSize(e)
      BY <1>0, PayloadsIs
    <3>2. PICK i \in Nat : i = r.applying + Len(e)
      BY <1>0
    <3>3. PICK t \in Nat : t = r.applyingEntsSize + s
      BY <1>0
    <3>4. PICK c \in BOOLEAN : c = (t >= MaxCommittedSizePerReady \/ i < maxAppliableIndex(r1))
      OBVIOUS
    <3>5. z = acceptApplying(r1, i, s)
      BY <2>2, <3>1, <3>2, <1>9
    <3>6. r1.applyingEntsSize + s = t
      BY <3>3, <1>8
    <3>7. z = [r1 EXCEPT !.applying = i, !.applyingEntsSize = t, !.applyingEntsPaused = c]
      BY <3>4, <3>5, <3>6 DEF acceptApplying
    <3>8. z \in Nodes
      BY <3>7, <1>7 DEF Nodes
    <3>9. /\ z.Term = r1.Term /\ z.state = r1.state /\ z.committed = r1.committed
          /\ z.applied = r1.applied /\ z.applying = i
          /\ z.applyingEntsPaused = c /\ z.applyingEntsSize = t
          /\ z.snapshot = r1.snapshot /\ z.snapshotInProgress = r1.snapshotInProgress
          /\ z.entries = r1.entries /\ z.offset = r1.offset /\ z.offsetInProgress = r1.offsetInProgress
          /\ z.prevHardSt = r1.prevHardSt /\ z.uncommittedSize = r1.uncommittedSize
          /\ z.advancing = r1.advancing /\ z.stepsOnAdvance = r1.stepsOnAdvance
      BY <3>7, <1>7 DEF Nodes
    <3>10. ~c => t < MaxCommittedSizePerReady
      <4>1. t >= MaxCommittedSizePerReady => c
        BY <3>4
      <4>2. MaxCommittedSizePerReady \in Nat
        BY LimitAssumption
      <4> QED BY <4>1, <4>2
    <3> QED BY <2>2, <3>1, <3>2, <3>3, <3>8, <3>9, <3>10
  <2> QED BY <2>1, <2>2
<1>11. PICK st : st = NewAppendMsg(r, m).resps \o (IF e = << >> THEN << >> ELSE <<ApplyResp(e, r.applying + 1)>>)
  OBVIOUS
<1>12. st \in Seq(AppendResps \cup Batches)
  <2>1. PICK x : x = NewAppendMsg(r, m)
    OBVIOUS
  <2>2. x.resps \in Seq(AppendResps)
    BY <2>1, SentIs DEF Sent, Writes
  <2>3. x.resps \in Seq(AppendResps \cup Batches)
    BY <2>2
  <2>4. PICK f \in Nat : f = r.applying + 1
    BY <1>0
  <2>5. ApplyResp(e, f) \in Batches
    BY <1>0 DEF ApplyResp, Batches
  <2>6. PICK t : t = IF e = << >> THEN << >> ELSE <<ApplyResp(e, f)>>
    OBVIOUS
  <2>7. t \in Seq(AppendResps \cup Batches)
    <3>1. CASE e = << >>
      BY <3>1, <2>6
    <3>2. CASE e # << >>
      <4>1. t = <<ApplyResp(e, f)>>
        BY <3>2, <2>6
      <4>2. ApplyResp(e, f) \in AppendResps \cup Batches
        BY <2>5
      <4> QED BY <4>1, <4>2
    <3> QED BY <3>1, <3>2
  <2>8. x.resps \o t \in Seq(AppendResps \cup Batches)
    BY <2>3, <2>7
  <2> QED BY <2>1, <2>4, <2>6, <2>8, <1>11
<1>13. r2 = IF world.async THEN z ELSE [z EXCEPT !.advancing = TRUE, !.stepsOnAdvance = st]
  <2>1. r2 = LET k1 == acceptInProgress([r EXCEPT !.prevHardSt = hardState(r)])
                 k2 == IF e = << >> THEN k1
                       ELSE acceptApplying(k1, r.applying + Len(e), entsSize(e))
             IN  IF world.async THEN k2
                 ELSE [k2 EXCEPT !.advancing = TRUE,
                                 !.stepsOnAdvance = NewAppendMsg(r, m).resps
                                    \o (IF e = << >> THEN << >> ELSE <<ApplyResp(e, r.applying + 1)>>)]
    BY DEF Accepted
  <2>2. r2 = IF world.async THEN z
             ELSE [z EXCEPT !.advancing = TRUE,
                            !.stepsOnAdvance = NewAppendMsg(r, m).resps
                                \o (IF e = << >> THEN << >> ELSE <<ApplyResp(e, r.applying + 1)>>)]
    BY <2>1, <1>5, <1>9, Zenon
  <2> QED BY <2>2, <1>11, Zenon
<1>14. /\ r2 \in Nodes
       /\ r2.Term = z.Term /\ r2.state = z.state /\ r2.committed = z.committed
       /\ r2.applied = z.applied /\ r2.applying = z.applying
       /\ r2.applyingEntsPaused = z.applyingEntsPaused /\ r2.applyingEntsSize = z.applyingEntsSize
       /\ r2.snapshot = z.snapshot /\ r2.snapshotInProgress = z.snapshotInProgress
       /\ r2.entries = z.entries /\ r2.offset = z.offset /\ r2.offsetInProgress = z.offsetInProgress
       /\ r2.prevHardSt = z.prevHardSt /\ r2.uncommittedSize = z.uncommittedSize
       /\ world.async => r2.advancing = z.advancing /\ r2.stepsOnAdvance = z.stepsOnAdvance
       /\ ~world.async => r2.advancing = TRUE /\ r2.stepsOnAdvance = st
  <2>1. CASE world.async
    <3>1. r2 = z
      BY <2>1, <1>13
    <3> QED BY <2>1, <3>1, <1>10
  <2>2. CASE ~world.async
    <3>1. r2 = [z EXCEPT !.advancing = TRUE, !.stepsOnAdvance = st]
      BY <2>2, <1>13
    <3>2. z \in Nodes
      BY <1>10
    <3>3. r2 \in Nodes
      BY <3>1, <3>2, <1>12 DEF Nodes
    <3> QED BY <2>2, <3>1, <3>2, <3>3 DEF Nodes
  <2> QED BY <2>1, <2>2
<1> QED BY <1>2, <1>4, <1>8, <1>10, <1>11, <1>14, ZenonT(30) DEF Accepts, AcceptsSteps, AcceptsSizes

\* The node after a Ready is in order.
LEMMA AcceptsNode ==
    ASSUME NEW w, NEW r, NEW m, NEW q, NEW a, NEW G, NEW D, NEW H, Core(w, r, m, q, a, G, D, H),
           NEW e, HandsOut(w, r, G, e), NEW r2, Accepts(w, r, G, e, r2)
    PROVE  /\ Memory(w, r2, G) /\ Cursors(w, r2) /\ Pending(r2, G) /\ Ahead(r2, a) /\ ~hasNextSnapshot(r2)
           /\ r.snapshot # NoSnap => r2.applying = r.applying
           /\ r.applying <= r2.applying /\ r2.applying \in Nat
           /\ r2.applying = r.applying \/ (r.snapshot = NoSnap /\ (w.async => r2.applying < r.offset))
<1>0. /\ r \in Nodes /\ r2 \in Nodes /\ G \in Seq(Entry) /\ Len(G) \in Nat /\ a \in Nat
      /\ Memory(w, r, G) /\ Cursors(w, r) /\ Pending(r, G) /\ Ahead(r, a)
      /\ r.applying \in Nat /\ r.applied \in Nat /\ r.committed \in Nat /\ r.offset \in Nat
      /\ r.offsetInProgress \in Nat /\ r.Term \in Nat /\ r2.applying \in Nat /\ Len(e) \in Nat
      /\ r.snapshot.index \in Nat
  BY NodeTypes DEF Core, Memory, Accepts, HandsOut
<1>1. /\ r2.Term = r.Term /\ r2.state = r.state /\ r2.committed = r.committed
      /\ r2.applied = r.applied
      /\ ~r2.applyingEntsPaused => r2.applyingEntsSize < MaxCommittedSizePerReady
      /\ r2.snapshot = r.snapshot /\ r2.snapshotInProgress = (r.snapshot # NoSnap)
      /\ r2.entries = r.entries /\ r2.offset = r.offset
      /\ r2.prevHardSt = hardState(r)
  BY DEF Accepts
<1>2. PICK g \in Nat : g = Len(G)
  BY <1>0
<1>3. PICK ag \in Nat : ag = r.applying
  BY <1>0
<1>4. PICK l \in Nat : l = Len(e)
  BY <1>0
<1>5. PICK c \in Nat : c = r.committed
  BY <1>0
<1>6. PICK o \in Nat : o = r.offset
  BY <1>0
<1>7. PICK p \in Nat : p = r.offsetInProgress
  BY <1>0
<1>8. PICK ag2 \in Nat : ag2 = r2.applying
  BY <1>0
<1>9. ag2 = ag + l /\ r2.offsetInProgress = g + 1
  BY <1>2, <1>3, <1>4, <1>8 DEF Accepts
<1>10. ag <= c /\ c <= g /\ o > 0 /\ o <= p /\ p <= g + 1 /\ ag < p /\ (w.async => ag < o) /\ r.applied <= ag
  BY <1>0, <1>2, <1>3, <1>5, <1>6, <1>7 DEF Memory, Cursors, CommitOK, TailOf
<1>11. ag + l <= c
  BY <1>3, <1>4, <1>5 DEF HandsOut
<1>12. e = << >> => l = 0
  BY <1>4
<1>13. e # << >> => r.snapshot = NoSnap /\ (w.async => ag + l < o)
  BY <1>3, <1>4, <1>6 DEF HandsOut
<1>14. /\ ag <= ag2 /\ ag2 <= c /\ ag2 < g + 1 /\ (w.async => ag2 < o)
       /\ r.snapshot # NoSnap => ag2 = ag
       /\ ag2 = ag \/ r.snapshot = NoSnap
  <2>1. CASE e = << >>
    BY <2>1, <1>9, <1>10, <1>12
  <2>2. CASE e # << >>
    BY <2>2, <1>9, <1>10, <1>11, <1>13
  <2> QED BY <2>1, <2>2
<1>15. Memory(w, r2, G)
  <2>1. r2.offset <= r2.offsetInProgress /\ r2.offsetInProgress <= Len(G) + 1
    <3>1. o <= g + 1 /\ g + 1 <= g + 1
      BY <1>10
    <3> QED BY <3>1, <1>1, <1>2, <1>6, <1>9
  <2> QED BY <2>1, <1>0, <1>1 DEF Memory
<1>16. Cursors(w, r2)
  <2>1. r2.prevHardSt.Term = r.Term /\ r2.prevHardSt.commit = c
    BY <1>1, <1>5 DEF hardState
  <2>2. r2.prevHardSt.Term <= r2.Term /\ r2.prevHardSt.commit <= r2.committed
    BY <2>1, <1>0, <1>1, <1>5
  <2>3. r.applied <= ag2
    BY <1>0, <1>10, <1>14
  <2>4. /\ r2.applied <= r2.applying /\ r2.applying <= r2.committed
        /\ r2.applying < r2.offsetInProgress
        /\ w.async => r2.applying < r2.offset
    BY <2>3, <1>1, <1>5, <1>6, <1>8, <1>9, <1>14
  <2> QED BY <2>2, <2>4, <1>1 DEF Cursors
<1>17. Pending(r2, G)
  <2>1. r.snapshot # NoSnap => r2.applying = r.applying
    BY <1>3, <1>8, <1>14
  <2> QED BY <2>1, <1>0, <1>1 DEF Pending
<1>18. ~hasNextSnapshot(r2)
  BY <1>1 DEF hasNextSnapshot
<1>19. Ahead(r2, a)
  <2>1. a <= ag => a <= ag2
    BY <1>0, <1>14
  <2> QED BY <2>1, <1>0, <1>1, <1>3, <1>8, <1>18 DEF Ahead
<1> QED BY <1>3, <1>6, <1>8, <1>14, <1>15, <1>16, <1>17, <1>18, <1>19

\* A Ready with nothing to write.
LEMMA IdleIs ==
    ASSUME NEW w, NEW r, NEW m, NEW q, NEW a, NEW G, NEW D, NEW H, Core(w, r, m, q, a, G, D, H),
           NEW x, Sent(r, G, x)
    PROVE  /\ x.hs = EmptyHardState => r.prevHardSt = hardState(r)
           /\ x.snapshot = NoSnap => ~hasNextSnapshot(r)
           /\ x.ents = << >> <=> r.offsetInProgress = Len(G) + 1
           /\ x.snapshot = NoSnap /\ x.ents = << >> => D[Len(q)] = G
<1>0. /\ r \in Nodes /\ G \in Seq(Entry) /\ Len(G) \in Nat /\ Link(w, r, m, q, G, D) /\ Cursors(w, r)
      /\ r.prevHardSt \in HardStates /\ r.Term \in Nat /\ r.committed \in Nat
      /\ r.prevHardSt.Term \in Nat /\ r.prevHardSt.commit \in Nat /\ r.offsetInProgress \in Nat
  BY NodeTypes DEF Core, Memory
<1>1. x.hs = EmptyHardState => r.prevHardSt = hardState(r)
  <2>1. SUFFICES ASSUME x.hs = EmptyHardState, hardState(r) # r.prevHardSt PROVE FALSE
    OBVIOUS
  <2>2. hardState(r) = EmptyHardState
    BY <2>1 DEF Sent
  <2>3. r.Term = 0 /\ r.committed = 0
    BY <2>2 DEF hardState, EmptyHardState
  <2>4. r.prevHardSt.Term <= r.Term /\ r.prevHardSt.commit <= r.committed
    BY <1>0 DEF Cursors
  <2>5. r.prevHardSt.Term = 0 /\ r.prevHardSt.commit = 0
    BY <2>3, <2>4, <1>0
  <2>6. r.prevHardSt = EmptyHardState
    BY <2>5, <1>0 DEF HardStates, EmptyHardState
  <2> QED BY <2>1, <2>2, <2>6
<1>2. x.snapshot = NoSnap => ~hasNextSnapshot(r)
  BY DEF Sent, hasNextSnapshot
<1>3. x.ents = << >> <=> r.offsetInProgress = Len(G) + 1
  <2>1. x.ents \in Seq(Entry) /\ x.from = r.offsetInProgress /\ x.from + Len(x.ents) = Len(G) + 1
    BY DEF Sent, Writes, TailOf
  <2>2. PICK l \in Nat : l = Len(x.ents)
    BY <2>1
  <2>3. PICK p \in Nat : p = r.offsetInProgress
    BY <1>0
  <2>4. PICK g \in Nat : g = Len(G)
    BY <1>0
  <2>5. p + l = g + 1
    BY <2>1, <2>2, <2>3, <2>4
  <2>6. x.ents = << >> <=> l = 0
    BY <2>1, <2>2, EmptySeq
  <2>7. l = 0 <=> p = g + 1
    BY <2>5
  <2> QED BY <2>3, <2>4, <2>6, <2>7
<1>4. x.snapshot = NoSnap /\ x.ents = << >> => D[Len(q)] = G
  BY <1>0, <1>2, <1>3 DEF Link
<1> QED BY <1>1, <1>2, <1>3, <1>4

\* A Ready with nothing to write keeps Core.
LEMMA IdleCore ==
    ASSUME NEW w, NEW r, NEW m, NEW q, NEW a, NEW G, NEW D, NEW H, Core(w, r, m, q, a, G, D, H),
           NEW e, HandsOut(w, r, G, e), NEW r2, Accepts(w, r, G, e, r2),
           NEW x, Sent(r, G, x), ~needStorageAppend(x)
    PROVE  /\ Core(w, r2, m, q, a, G, D, H) /\ D[Len(q)] = G
           /\ ~hasNextSnapshot(r)
<1>0. /\ r \in Nodes /\ r2 \in Nodes /\ G \in Seq(Entry) /\ Len(G) \in Nat /\ q \in Seq(Writes) /\ Len(q) \in Nat
      /\ Link(w, r, m, q, G, D) /\ r.offset \in Nat /\ r.applying \in Nat
  BY NodeTypes DEF Core, Memory, Accepts
<1>1. x.hs = EmptyHardState /\ x.snapshot = NoSnap /\ x.ents = << >>
  BY DEF needStorageAppend
<1>2. r.prevHardSt = hardState(r) /\ ~hasNextSnapshot(r) /\ r.offsetInProgress = Len(G) + 1 /\ D[Len(q)] = G
  BY <1>1, IdleIs
<1>3. /\ r2.Term = r.Term /\ r2.applied = r.applied
      /\ r2.snapshot = r.snapshot /\ r2.snapshotInProgress = (r.snapshot # NoSnap)
      /\ r2.offset = r.offset /\ r2.offsetInProgress = Len(G) + 1 /\ r2.prevHardSt = hardState(r)
  BY DEF Accepts
<1>4. /\ Memory(w, r2, G) /\ Cursors(w, r2) /\ Pending(r2, G) /\ Ahead(r2, a) /\ ~hasNextSnapshot(r2)
      /\ r.snapshot # NoSnap => r2.applying = r.applying
      /\ r.applying <= r2.applying /\ r2.applying \in Nat
      /\ r2.applying = r.applying \/ (r.snapshot = NoSnap /\ (w.async => r2.applying < r.offset))
  BY AcceptsNode
<1>5. \A k : Rel(r2, q, k) <=> Rel(r, q, k)
  BY <1>2, <1>4 DEF Rel
<1>6. ASSUME NEW k \in 1..Len(q) PROVE (IF w.async THEN r2.applying ELSE r2.applied) < q[k].from
  <2>1. (IF w.async THEN r.applying ELSE r.applied) < q[k].from
    BY <1>0 DEF Link
  <2>2. CASE r2.applying = r.applying
    BY <2>1, <2>2, <1>3
  <2>3. CASE r.snapshot = NoSnap /\ (w.async => r2.applying < r.offset)
    <3>1. k \in Nat
      OBVIOUS
    <3>2. Rel(r, q, k)
      BY <2>3, <3>1, <1>0, NoSnapRel
    <3>3. r.offset <= q[k].from /\ q[k].from \in Nat
      BY <3>2, <1>0, WriteTypes DEF Link
    <3>4. w.async => r2.applying < q[k].from
      BY <2>3, <3>3, <1>0, <1>4
    <3> QED BY <3>4, <2>1, <1>3
  <2> QED BY <2>2, <2>3, <1>4
<1>7. Link(w, r2, m, q, G, D)
  <2>1. m.index <= MaxOf(r2.applied, r2.snapshot.index)
    BY <1>0, <1>3 DEF Link
  <2>2. Rel(r2, q, 0) /\ r2.snapshot # NoSnap => m.index = r2.snapshot.index
    BY <1>0, <1>3, <1>5 DEF Link
  <2>3. \A k \in 0..Len(q) : Rel(r2, q, k) => Same(r2.offset - 1, D[k], G)
    BY <1>0, <1>3, <1>5 DEF Link
  <2>4. ASSUME NEW k \in 1..Len(q)
        PROVE  /\ Rel(r2, q, k) =>
                    /\ r2.offset <= q[k].from
                    /\ q[k].ents # << >> => r2.offset <= Len(G)
                    /\ q[k].snapshot # NoSnap => q[k].snapshot = r2.snapshot
               /\ q[k].snapshot # NoSnap =>
                    /\ r2.snapshot # NoSnap
                    /\ q[k].snapshot.index <= r2.snapshot.index
                    /\ ~r2.snapshotInProgress => q[k].snapshot.index < r2.snapshot.index
                    /\ r2.applying < q[k].snapshot.index
    BY <1>0, <1>3, <1>4, <1>5 DEF Link
  <2>5. Same(r2.offsetInProgress - 1, D[Len(q)], G) /\ D[Len(q)] = G
    <3>1. Same(r.offsetInProgress - 1, D[Len(q)], G)
      BY <1>0, <1>2 DEF Link
    <3> QED BY <3>1, <1>2, <1>3
  <2> QED BY <2>1, <2>2, <2>3, <2>4, <2>5, <1>6 DEF Link
<1> QED BY <1>0, <1>2, <1>3, <1>4, <1>7 DEF Core

\* The queue with one more write, and the disk after it.
Longer(q, D, H, x, d, h, q2, D2, H2) ==
    /\ q2 = Append(q, x)
    /\ D2 = [k \in 0..(Len(q) + 1) |-> IF k = Len(q) + 1 THEN d ELSE D[k]]
    /\ H2 = [k \in 0..(Len(q) + 1) |-> IF k = Len(q) + 1 THEN h ELSE H[k]]

\* The elements of the longer queue.
LEMMA LongerIs ==
    ASSUME NEW q \in Seq(Writes), NEW x \in Writes, NEW D, NEW H, NEW d, NEW h, NEW q2, NEW D2, NEW H2,
           Longer(q, D, H, x, d, h, q2, D2, H2), NEW n \in Nat, n = Len(q)
    PROVE  /\ q2 \in Seq(Writes) /\ Len(q2) = n + 1 /\ q2[n + 1] = x
           /\ \A k \in 1..n : q2[k] = q[k]
           /\ \A k \in 0..n : D2[k] = D[k] /\ H2[k] = H[k]
           /\ D2[n + 1] = d /\ H2[n + 1] = h
           /\ DOMAIN D2 = 0..(n + 1) /\ DOMAIN H2 = 0..(n + 1)
<1>1. q2 = Append(q, x)
  BY DEF Longer
<1>2. /\ q2 \in Seq(Writes) /\ Len(q2) = n + 1 /\ q2[n + 1] = x
      /\ \A k \in 1..n : q2[k] = q[k]
  BY <1>1
<1>3. /\ D2 = [k \in 0..(n + 1) |-> IF k = n + 1 THEN d ELSE D[k]]
      /\ H2 = [k \in 0..(n + 1) |-> IF k = n + 1 THEN h ELSE H[k]]
  BY DEF Longer
<1>4. /\ \A k \in 0..n : D2[k] = D[k] /\ H2[k] = H[k]
      /\ D2[n + 1] = d /\ H2[n + 1] = h
      /\ DOMAIN D2 = 0..(n + 1) /\ DOMAIN H2 = 0..(n + 1)
  BY <1>3
<1> QED BY <1>2, <1>4

\* The new write saves what is in memory.
LEMMA SentSaves ==
    ASSUME NEW w, NEW r, NEW m, NEW q, NEW a, NEW G, NEW D, NEW H, Core(w, r, m, q, a, G, D, H),
           NEW x, Sent(r, G, x)
    PROVE  Saves(D[Len(q)], x, G)
<1>0. /\ r \in Nodes /\ G \in Seq(Entry) /\ Len(G) \in Nat /\ Memory(w, r, G) /\ Pending(r, G)
      /\ Link(w, r, m, q, G, D) /\ x \in Writes /\ x.ents \in Seq(Entry) /\ x.from \in Nat
      /\ r.offset \in Nat /\ r.offsetInProgress \in Nat
  BY NodeTypes DEF Core, Memory, Sent, Writes
<1>1. /\ x.from = r.offsetInProgress /\ x.from > 0 /\ x.from + Len(x.ents) = Len(G) + 1
      /\ \A i \in 1..Len(x.ents) : x.ents[i] = G[x.from - 1 + i]
  BY DEF Sent, TailOf
<1>2. Len(G) = x.from - 1 + Len(x.ents)
  <2>1. PICK l \in Nat : l = Len(x.ents)
    BY <1>0
  <2>2. PICK f \in Nat : f = x.from
    BY <1>0
  <2>3. f + l = Len(G) + 1
    BY <1>1, <2>1, <2>2
  <2>4. Len(G) = f - 1 + l
    BY <2>3, <1>0
  <2> QED BY <2>1, <2>2, <2>4
<1>3. x.snapshot = NoSnap /\ x.ents = << >> => G = D[Len(q)]
  BY IdleIs
<1>4. x.snapshot = NoSnap => Same(x.from - 1, D[Len(q)], G)
  <2>1. x.snapshot = NoSnap => ~hasNextSnapshot(r)
    BY IdleIs
  <2> QED BY <2>1, <1>0, <1>1 DEF Link
<1>5. ASSUME x.snapshot # NoSnap
      PROVE  x.from = x.snapshot.index + 1 /\ G[x.snapshot.index].term = x.snapshot.term
  <2>1. x.snapshot = r.snapshot /\ hasNextSnapshot(r)
    BY <1>5 DEF Sent
  <2>2. r.offset = r.snapshot.index + 1 /\ r.snapshot.term = G[r.snapshot.index].term /\ r.offsetInProgress = r.offset
    BY <2>1, <1>0 DEF Pending, hasNextSnapshot
  <2> QED BY <2>1, <2>2, <1>1
<1> QED BY <1>1, <1>2, <1>3, <1>4, <1>5 DEF Saves

\* With the new write the disk will hold the log in memory.
LEMMA WriteDisks ==
    ASSUME NEW w, NEW r, NEW m, NEW q, NEW a, NEW G, NEW D, NEW H, Core(w, r, m, q, a, G, D, H),
           NEW x, Sent(r, G, x), NEW q2, NEW D2, NEW H2, Longer(q, D, H, x, G, hardState(r), q2, D2, H2)
    PROVE  Disks(w, m, q2, D2, H2) /\ H2[Len(q2)] = hardState(r)
<1>0. /\ r \in Nodes /\ G \in Seq(Entry) /\ Len(G) \in Nat /\ Memory(w, r, G) /\ Pending(r, G) /\ Cursors(w, r)
      /\ x \in Writes /\ q \in Seq(Writes) /\ Disks(w, m, q, D, H) /\ H[Len(q)] = r.prevHardSt
      /\ r.Term \in Nat /\ r.committed \in Nat
  BY NodeTypes DEF Core, Memory, Sent
<1>1. PICK n \in Nat : n = Len(q)
  BY <1>0
<1>2. PICK h \in HardStates : h = hardState(r)
  BY <1>0 DEF HardStates, hardState
<1>3. h.Term = r.Term /\ h.commit = r.committed
  BY <1>2 DEF hardState
<1>4. /\ q2 \in Seq(Writes) /\ Len(q2) = n + 1 /\ q2[n + 1] = x
      /\ \A k \in 1..n : q2[k] = q[k]
      /\ \A k \in 0..n : D2[k] = D[k] /\ H2[k] = H[k]
      /\ D2[n + 1] = G /\ H2[n + 1] = h
      /\ DOMAIN D2 = 0..(n + 1) /\ DOMAIN H2 = 0..(n + 1)
  BY <1>0, <1>1, <1>2, LongerIs
<1>5. \A k \in 0..n : D[k] \in Seq(Entry) /\ H[k] \in HardStates
  BY <1>0, <1>1 DEF Disks
<1>6. D2 \in [0..(n + 1) -> Seq(Entry)] /\ H2 \in [0..(n + 1) -> HardStates]
  <2>1. \A k \in 0..(n + 1) : D2[k] \in Seq(Entry) /\ H2[k] \in HardStates
    <3>1. SUFFICES ASSUME NEW k \in 0..(n + 1) PROVE D2[k] \in Seq(Entry) /\ H2[k] \in HardStates
      OBVIOUS
    <3>2. k \in 0..n \/ k = n + 1
      OBVIOUS
    <3> QED BY <3>2, <1>0, <1>4, <1>5
  <2>2. D2 = [k \in 0..(n + 1) |-> D2[k]] /\ H2 = [k \in 0..(n + 1) |-> H2[k]]
    BY <1>4, <1>1 DEF Longer
  <2> QED BY <2>1, <2>2
<1>7. Store(m, D2[0]) /\ H2[0] = m.hs
  <2>1. 0 \in 0..n
    OBVIOUS
  <2> QED BY <2>1, <1>0, <1>4 DEF Disks
<1>8. ASSUME NEW k \in 0..(n + 1)
      PROVE  /\ Sound(w, D2[k]) /\ CommitOK(w, D2[k], H2[k].Term, H2[k].commit)
             /\ H2[k].Term > 0 => H2[k].Term \in DOMAIN w.log
  <2>1. CASE k \in 0..n
    BY <2>1, <1>0, <1>1, <1>4 DEF Disks
  <2>2. CASE k = n + 1
    BY <2>2, <1>0, <1>3, <1>4 DEF Memory
  <2> QED BY <2>1, <2>2
<1>9. ASSUME NEW k \in 1..(n + 1)
      PROVE  /\ Saves(D2[k - 1], q2[k], D2[k]) /\ H2[k] = NextHS(H2[k - 1], q2[k])
             /\ H2[k - 1].commit <= H2[k].commit
             /\ q2[k].snapshot.index <= H2[k].commit
  <2>1. CASE k \in 1..n
    <3>1. k \in 0..n /\ k - 1 \in 0..n
      BY <2>1
    <3>2. D2[k] = D[k] /\ D2[k - 1] = D[k - 1] /\ H2[k] = H[k] /\ H2[k - 1] = H[k - 1] /\ q2[k] = q[k]
      BY <2>1, <3>1, <1>4
    <3> QED BY <2>1, <3>2, <1>0, <1>1 DEF Disks
  <2>2. CASE k = n + 1
    <3>1. k - 1 = n /\ n \in 0..n
      BY <2>2
    <3>2. D2[k - 1] = D[n] /\ H2[k - 1] = r.prevHardSt /\ q2[k] = x /\ D2[k] = G /\ H2[k] = h
      BY <2>2, <3>1, <1>0, <1>1, <1>4
    <3>3. Saves(D[n], x, G)
      BY <1>1, SentSaves
    <3>4. h = NextHS(r.prevHardSt, x)
      <4>1. x.hs = EmptyHardState => r.prevHardSt = h
        BY <1>2, IdleIs
      <4>2. x.hs = IF h = r.prevHardSt THEN EmptyHardState ELSE h
        BY <1>2 DEF Sent
      <4> QED BY <4>1, <4>2 DEF NextHS
    <3>5. r.prevHardSt.commit <= h.commit
      BY <1>0, <1>3 DEF Cursors
    <3>6. x.snapshot.index <= h.commit
      <4>1. CASE hasNextSnapshot(r)
        BY <4>1, <1>0, <1>3 DEF Sent, Pending, hasNextSnapshot
      <4>2. CASE ~hasNextSnapshot(r)
        <5>1. x.snapshot.index = 0
          BY <4>2 DEF Sent, NoSnap
        <5> QED BY <5>1, <1>0, <1>3
      <4> QED BY <4>1, <4>2
    <3> QED BY <3>2, <3>3, <3>4, <3>5, <3>6
  <2> QED BY <2>1, <2>2
<1>10. Disks(w, m, q2, D2, H2)
  BY <1>4, <1>6, <1>7, <1>8, <1>9 DEF Disks
<1> QED BY <1>2, <1>4, <1>10

\* The longer queue is in order.
LEMMA WriteQueue ==
    ASSUME NEW w, NEW r, NEW m, NEW q, NEW a, NEW G, NEW D, NEW H, Core(w, r, m, q, a, G, D, H),
           NEW x, Sent(r, G, x), NEW q2, NEW D2, NEW H2, Longer(q, D, H, x, G, hardState(r), q2, D2, H2)
    PROVE  Queue(m, q2, a)
<1>0. /\ r \in Nodes /\ G \in Seq(Entry) /\ Len(G) \in Nat /\ Memory(w, r, G) /\ Pending(r, G) /\ Cursors(w, r)
      /\ x \in Writes /\ q \in Seq(Writes) /\ Queue(m, q, a) /\ Link(w, r, m, q, G, D) /\ Ahead(r, a)
      /\ r.applied \in Nat /\ r.applying \in Nat /\ r.offset \in Nat /\ r.offsetInProgress \in Nat
      /\ r.snapshot.index \in Nat /\ m.index \in Nat /\ a \in Nat
  BY NodeTypes, StorageTypes DEF Core, Memory, Sent
<1>1. PICK n \in Nat : n = Len(q)
  BY <1>0
<1>4. /\ q2 \in Seq(Writes) /\ Len(q2) = n + 1 /\ q2[n + 1] = x
      /\ \A k \in 1..n : q2[k] = q[k]
  BY <1>0, <1>1, LongerIs
<1>5. PICK p \in Nat : p = r.offsetInProgress
  BY <1>0
<1>6. PICK s \in Nat : s = r.snapshot.index
  BY <1>0
<1>7. s < p /\ r.applied < p /\ r.applying < p /\ (hasNextSnapshot(r) => r.applying < s)
  <2>1. r.offset <= p /\ r.offset > 0 /\ r.applying < p /\ r.applied <= r.applying
    BY <1>0, <1>5 DEF Memory, TailOf, Cursors
  <2>2. r.snapshot # NoSnap => r.offset = s + 1 /\ r.applying < s
    BY <1>0, <1>6 DEF Pending
  <2>3. r.snapshot = NoSnap => s = 0
    BY <1>6 DEF NoSnap
  <2>4. s < p
    BY <2>1, <2>2, <2>3, <1>0
  <2> QED BY <2>1, <2>2, <2>4, <1>0 DEF hasNextSnapshot
<1>8. x.from = p /\ (x.snapshot # NoSnap => hasNextSnapshot(r) /\ x.snapshot = r.snapshot /\ x.snapshot.index = s)
  BY <1>5, <1>6 DEF Sent
<1>9. m.index < p
  <2>1. m.index <= MaxOf(r.applied, s)
    BY <1>0, <1>6 DEF Link
  <2> QED BY <2>1, <1>0, <1>7 DEF MaxOf
<1>10. x.snapshot # NoSnap => x.resps # << >> /\ a < x.snapshot.index
  BY <1>0, <1>6, <1>8 DEF Sent, Ahead
<1>11. ASSUME NEW k \in 1..(n + 1)
       PROVE  /\ m.index < q2[k].from
              /\ Len(q2[k].resps) <= 1
              /\ q2[k].resps # << >> => q2[k].resps[1].snapshot = q2[k].snapshot
              /\ q2[k].snapshot # NoSnap => q2[k].resps # << >> /\ a < q2[k].snapshot.index
  <2>1. CASE k \in 1..n
    BY <2>1, <1>0, <1>1, <1>4 DEF Queue
  <2>2. CASE k = n + 1
    BY <2>2, <1>4, <1>8, <1>9, <1>10 DEF Sent
  <2> QED BY <2>1, <2>2
<1>12. ASSUME NEW j \in 1..n
       PROVE  q[j].snapshot.index < p /\ (x.snapshot # NoSnap => q[j].snapshot.index < s)
  <2>1. PICK t \in Nat : t = q[j].snapshot.index
    BY <1>0, <1>1, WriteTypes
  <2>2. CASE q[j].snapshot = NoSnap
    <3>1. t = 0
      BY <2>1, <2>2 DEF NoSnap
    <3> QED BY <3>1, <2>1, <1>0, <1>7, <1>8
  <2>3. CASE q[j].snapshot # NoSnap
    <3>1. t <= s /\ (~r.snapshotInProgress => t < s)
      BY <2>1, <2>3, <1>0, <1>1, <1>6 DEF Link
    <3>2. x.snapshot # NoSnap => ~r.snapshotInProgress
      BY <1>8 DEF hasNextSnapshot
    <3>3. t < p
      BY <3>1, <1>7
    <3> QED BY <3>1, <3>2, <3>3, <2>1
  <2> QED BY <2>2, <2>3
<1>13. ASSUME NEW j \in 1..(n + 1), NEW k \in 1..(n + 1), j < k
       PROVE  /\ q2[j].snapshot.index < q2[k].from
              /\ q2[k].snapshot # NoSnap => q2[j].snapshot.index < q2[k].snapshot.index
  <2>0. j \in 1..n /\ q2[j] = q[j]
    BY <1>13, <1>4
  <2>1. CASE k \in 1..n
    <3>1. q2[k] = q[k]
      BY <2>1, <1>4
    <3> QED BY <2>0, <2>1, <3>1, <1>0, <1>1, <1>13 DEF Queue
  <2>2. CASE k = n + 1
    BY <2>0, <2>2, <1>4, <1>8, <1>12
  <2> QED BY <2>1, <2>2
<1> QED BY <1>0, <1>4, <1>11, <1>13 DEF Queue

\* Nothing is to come after a write of the longer queue only if it was so before.
LEMMA WriteRel ==
    ASSUME NEW w, NEW r, NEW m, NEW q, NEW a, NEW G, NEW D, NEW H, Core(w, r, m, q, a, G, D, H),
           NEW x, Sent(r, G, x), NEW q2, NEW D2, NEW H2, Longer(q, D, H, x, G, hardState(r), q2, D2, H2),
           NEW r2, ~hasNextSnapshot(r2), NEW k \in 0..Len(q)
    PROVE  /\ Rel(r2, q2, k) => ~hasNextSnapshot(r)
           /\ Rel(r2, q2, k) <=> Rel(r, q, k)
<1>0. x \in Writes /\ q \in Seq(Writes)
  BY DEF Core, Sent
<1>1. PICK n \in Nat : n = Len(q)
  BY <1>0
<1>2. Len(q2) = n + 1 /\ q2[n + 1] = x /\ \A j \in 1..n : q2[j] = q[j]
  BY <1>0, <1>1, LongerIs
<1>3. x.snapshot = NoSnap <=> ~hasNextSnapshot(r)
  BY DEF Sent, hasNextSnapshot
<1>4. Rel(r2, q2, k) => x.snapshot = NoSnap /\ \A j \in (k + 1)..n : q[j].snapshot = NoSnap
  <2>1. SUFFICES ASSUME Rel(r2, q2, k) PROVE x.snapshot = NoSnap /\ \A j \in (k + 1)..n : q[j].snapshot = NoSnap
    OBVIOUS
  <2>2. n + 1 \in (k + 1)..(n + 1) /\ \A j \in (k + 1)..n : j \in (k + 1)..(n + 1) /\ j \in 1..n
    BY <1>1
  <2>3. \A j \in (k + 1)..(n + 1) : q2[j].snapshot = NoSnap
    BY <2>1, <1>2 DEF Rel
  <2> QED BY <2>2, <2>3, <1>2
<1>5. x.snapshot = NoSnap /\ (\A j \in (k + 1)..n : q[j].snapshot = NoSnap) => Rel(r2, q2, k)
  <2>1. SUFFICES ASSUME x.snapshot = NoSnap, \A j \in (k + 1)..n : q[j].snapshot = NoSnap,
                        NEW j \in (k + 1)..(n + 1)
                 PROVE  q2[j].snapshot = NoSnap
    BY <1>2 DEF Rel
  <2>2. j = n + 1 \/ (j \in (k + 1)..n /\ j \in 1..n)
    BY <1>1
  <2> QED BY <2>1, <2>2, <1>2
<1> QED BY <1>1, <1>3, <1>4, <1>5 DEF Rel

\* The longer queue ends with the log in memory.
LEMMA WriteLink ==
    ASSUME NEW w, NEW r, NEW m, NEW q, NEW a, NEW G, NEW D, NEW H, Core(w, r, m, q, a, G, D, H),
           NEW x, Sent(r, G, x), NEW q2, NEW D2, NEW H2, Longer(q, D, H, x, G, hardState(r), q2, D2, H2),
           NEW e, HandsOut(w, r, G, e), NEW r2, Accepts(w, r, G, e, r2)
    PROVE  Link(w, r2, m, q2, G, D2)
<1>0. /\ r \in Nodes /\ r2 \in Nodes /\ G \in Seq(Entry) /\ Len(G) \in Nat /\ Memory(w, r, G) /\ Pending(r, G)
      /\ Cursors(w, r) /\ Link(w, r, m, q, G, D) /\ x \in Writes /\ q \in Seq(Writes)
      /\ r.applied \in Nat /\ r.applying \in Nat /\ r.offset \in Nat /\ r.offsetInProgress \in Nat
      /\ r.snapshot.index \in Nat
  BY NodeTypes DEF Core, Memory, Sent, Accepts
<1>1. PICK n \in Nat : n = Len(q)
  BY <1>0
<1>2. /\ q2 \in Seq(Writes) /\ Len(q2) = n + 1 /\ q2[n + 1] = x
      /\ \A k \in 1..n : q2[k] = q[k]
      /\ \A k \in 0..n : D2[k] = D[k]
      /\ D2[n + 1] = G
  BY <1>0, <1>1, LongerIs
<1>3. /\ r2.Term = r.Term /\ r2.applied = r.applied
      /\ r2.snapshot = r.snapshot /\ r2.snapshotInProgress = (r.snapshot # NoSnap)
      /\ r2.offset = r.offset /\ r2.offsetInProgress = Len(G) + 1
  BY DEF Accepts
<1>4. /\ ~hasNextSnapshot(r2)
      /\ r.snapshot # NoSnap => r2.applying = r.applying
      /\ r.applying <= r2.applying /\ r2.applying \in Nat
      /\ r2.applying = r.applying \/ (r.snapshot = NoSnap /\ (w.async => r2.applying < r.offset))
  BY AcceptsNode
<1>5. \A k \in 0..n : Rel(r2, q2, k) <=> Rel(r, q, k)
  BY <1>1, <1>4, WriteRel
<1>6. r.offset > 0 /\ r.offset <= r.offsetInProgress /\ r.offsetInProgress <= Len(G) + 1
      /\ r.applying < r.offsetInProgress /\ r.applied <= r.applying
  BY <1>0 DEF Memory, TailOf, Cursors
<1>7. x.from = r.offsetInProgress /\ (x.snapshot # NoSnap => x.snapshot = r.snapshot)
  BY DEF Sent
<1>8. x.ents # << >> => r.offset <= Len(G)
  <2>1. x.ents # << >> => ~(r.offsetInProgress = Len(G) + 1)
    BY IdleIs
  <2> QED BY <2>1, <1>0, <1>6
<1>9. m.index <= MaxOf(r2.applied, r2.snapshot.index)
  BY <1>0, <1>3 DEF Link
<1>10. Rel(r2, q2, 0) /\ r2.snapshot # NoSnap => m.index = r2.snapshot.index
  <2>1. 0 \in 0..n
    OBVIOUS
  <2> QED BY <2>1, <1>0, <1>3, <1>5 DEF Link
<1>11. ASSUME NEW k \in 0..(n + 1), Rel(r2, q2, k) PROVE Same(r2.offset - 1, D2[k], G)
  <2>1. CASE k \in 0..n
    BY <2>1, <1>0, <1>1, <1>2, <1>3, <1>5, <1>11 DEF Link
  <2>2. CASE k = n + 1
    <3>1. Same(r.offset - 1, G, G)
      BY <1>0, <1>6 DEF Same
    <3> QED BY <2>2, <3>1, <1>2, <1>3
  <2> QED BY <2>1, <2>2
<1>12. ASSUME NEW k \in 1..(n + 1)
       PROVE  /\ Rel(r2, q2, k) =>
                   /\ r2.offset <= q2[k].from
                   /\ q2[k].ents # << >> => r2.offset <= Len(G)
                   /\ q2[k].snapshot # NoSnap => q2[k].snapshot = r2.snapshot
              /\ (IF w.async THEN r2.applying ELSE r2.applied) < q2[k].from
              /\ q2[k].snapshot # NoSnap =>
                   /\ r2.snapshot # NoSnap
                   /\ q2[k].snapshot.index <= r2.snapshot.index
                   /\ ~r2.snapshotInProgress => q2[k].snapshot.index < r2.snapshot.index
                   /\ r2.applying < q2[k].snapshot.index
  <2>1. CASE k \in 1..n
    <3>1. k \in 0..n /\ q2[k] = q[k] /\ k \in 1..Len(q)
      BY <2>1, <1>1, <1>2
    <3>2. Rel(r2, q2, k) =>
            /\ r2.offset <= q[k].from
            /\ q[k].ents # << >> => r2.offset <= Len(G)
            /\ q[k].snapshot # NoSnap => q[k].snapshot = r2.snapshot
      BY <3>1, <1>0, <1>3, <1>5 DEF Link
    <3>3. (IF w.async THEN r2.applying ELSE r2.applied) < q[k].from
      <4>1. (IF w.async THEN r.applying ELSE r.applied) < q[k].from
        BY <3>1, <1>0 DEF Link
      <4>2. CASE r2.applying = r.applying
        BY <4>1, <4>2, <1>3
      <4>3. CASE r.snapshot = NoSnap /\ (w.async => r2.applying < r.offset)
        <5>1. k \in Nat
          BY <3>1
        <5>2. Rel(r, q, k)
          BY <4>3, <5>1, <1>0, <1>1, NoSnapRel
        <5>3. r.offset <= q[k].from /\ q[k].from \in Nat
          BY <5>2, <3>1, <1>0, WriteTypes DEF Link
        <5>4. w.async => r2.applying < q[k].from
          BY <4>3, <5>3, <1>0, <1>4
        <5> QED BY <5>4, <4>1, <1>3
      <4> QED BY <4>2, <4>3, <1>4
    <3>4. q[k].snapshot # NoSnap =>
            /\ r2.snapshot # NoSnap
            /\ q[k].snapshot.index <= r2.snapshot.index
            /\ ~r2.snapshotInProgress => q[k].snapshot.index < r2.snapshot.index
            /\ r2.applying < q[k].snapshot.index
      BY <3>1, <1>0, <1>3, <1>4 DEF Link
    <3> QED BY <3>1, <3>2, <3>3, <3>4
  <2>2. CASE k = n + 1
    <3>1. q2[k] = x
      BY <2>2, <1>2
    <3>2. r2.offset <= x.from
      BY <1>3, <1>6, <1>7
    <3>3. (IF w.async THEN r2.applying ELSE r2.applied) < x.from
      <4>1. r.applied < r.offsetInProgress
        BY <1>0, <1>6
      <4>2. w.async => r2.applying < r.offsetInProgress
        BY <1>0, <1>4, <1>6
      <4> QED BY <4>1, <4>2, <1>3, <1>7
    <3>4. ASSUME x.snapshot # NoSnap
          PROVE  /\ r2.snapshot # NoSnap
                 /\ x.snapshot.index <= r2.snapshot.index
                 /\ r2.snapshotInProgress
                 /\ r2.applying < x.snapshot.index
      <4>1. x.snapshot = r.snapshot
        BY <3>4, <1>7
      <4>2. r.applying < r.snapshot.index
        BY <3>4, <4>1, <1>0 DEF Pending
      <4>3. r.snapshot.index <= r.snapshot.index
        BY <1>0
      <4> QED BY <3>4, <4>1, <4>2, <4>3, <1>3, <1>4
    <3> QED BY <3>1, <3>2, <3>3, <3>4, <1>3, <1>7, <1>8
  <2> QED BY <2>1, <2>2
<1>13. Same(r2.offsetInProgress - 1, D2[n + 1], G) /\ D2[n + 1] = G
  <2>1. Same(Len(G) + 1 - 1, G, G)
    BY <1>0 DEF Same
  <2> QED BY <2>1, <1>2, <1>3
<1>14. Len(q2) = n + 1
  BY <1>2
<1> QED BY <1>9, <1>10, <1>11, <1>12, <1>13, <1>14 DEF Link

\* A Ready with a write keeps Core.
LEMMA WriteCore ==
    ASSUME NEW w, NEW r, NEW m, NEW q, NEW a, NEW G, NEW D, NEW H, Core(w, r, m, q, a, G, D, H),
           NEW x, Sent(r, G, x), NEW q2, NEW D2, NEW H2, Longer(q, D, H, x, G, hardState(r), q2, D2, H2),
           NEW e, HandsOut(w, r, G, e), NEW r2, Accepts(w, r, G, e, r2)
    PROVE  Core(w, r2, m, q2, a, G, D2, H2)
<1>1. w \in Worlds /\ r2 \in Nodes /\ m \in Storages /\ a \in Nat /\ r2.prevHardSt = hardState(r)
  BY DEF Core, Accepts
<1>2. q2 \in Seq(Writes)
  <2>1. q \in Seq(Writes) /\ x \in Writes /\ Len(q) \in Nat
    BY DEF Core, Sent
  <2> QED BY <2>1, LongerIs
<1>3. Disks(w, m, q2, D2, H2) /\ H2[Len(q2)] = hardState(r)
  BY WriteDisks
<1>4. Queue(m, q2, a)
  BY WriteQueue
<1>5. Link(w, r2, m, q2, G, D2)
  BY WriteLink
<1>6. Memory(w, r2, G) /\ Cursors(w, r2) /\ Pending(r2, G) /\ Ahead(r2, a)
  BY AcceptsNode
<1> QED BY <1>1, <1>2, <1>3, <1>4, <1>5, <1>6 DEF Core

\* A response on its way stays right when a write is added after it.
LEMMA WriteResponse ==
    ASSUME NEW w, NEW r, NEW m, NEW q, NEW a, NEW G, NEW D, NEW H, Core(w, r, m, q, a, G, D, H),
           NEW x, Sent(r, G, x), NEW q2, NEW D2, NEW H2, Longer(q, D, H, x, G, hardState(r), q2, D2, H2),
           NEW e, HandsOut(w, r, G, e), NEW r2, Accepts(w, r, G, e, r2),
           NEW y \in AppendResps, NEW p \in 0..Len(q), NEW c, NEW c2, c => c2, Response(w, r, q, G, D, y, p, c)
    PROVE  Response(w, r2, q2, G, D2, y, p, c2)
<1>0. /\ r \in Nodes /\ r2 \in Nodes /\ G \in Seq(Entry) /\ Len(G) \in Nat /\ Memory(w, r, G) /\ Pending(r, G)
      /\ Cursors(w, r) /\ x \in Writes /\ q \in Seq(Writes)
      /\ r.applied \in Nat /\ r.applying \in Nat /\ r.offset \in Nat /\ r.offsetInProgress \in Nat
      /\ r.snapshot.index \in Nat /\ y.snapshot.index \in Nat /\ y.index \in Nat
  BY NodeTypes, RespTypes DEF Core, Memory, Sent, Accepts
<1>1. PICK n \in Nat : n = Len(q)
  BY <1>0
<1>2. /\ q2 \in Seq(Writes) /\ Len(q2) = n + 1 /\ q2[n + 1] = x
      /\ \A k \in 1..n : q2[k] = q[k]
      /\ \A k \in 0..n : D2[k] = D[k]
      /\ D2[n + 1] = G
  BY <1>0, <1>1, LongerIs
<1>3. /\ r2.Term = r.Term /\ r2.applied = r.applied /\ r2.committed = r.committed
      /\ r2.snapshot = r.snapshot /\ r2.snapshotInProgress = (r.snapshot # NoSnap)
      /\ r2.offset = r.offset /\ r2.offsetInProgress = Len(G) + 1
  BY DEF Accepts
<1>4. ~hasNextSnapshot(r2)
  BY <1>3 DEF hasNextSnapshot
<1>5. r.offset > 0 /\ r.offset <= r.offsetInProgress /\ r.offsetInProgress <= Len(G) + 1
      /\ r.applying < r.offsetInProgress /\ r.applied <= r.applying
  BY <1>0 DEF Memory, TailOf, Cursors
<1>6. PICK s \in Nat : s = r.snapshot.index
  BY <1>0
<1>7. PICK t \in Nat : t = y.snapshot.index
  BY <1>0
<1>8. r.snapshot # NoSnap => r.offset = s + 1 /\ r.applying < s
  BY <1>0, <1>6 DEF Pending
<1>9. \/ t <= r.applied
      \/ r.snapshot # NoSnap /\ t <= s /\ (~r.snapshotInProgress => t < s)
  BY <1>6, <1>7 DEF Response
<1>10. x.from = r.offsetInProgress /\ (x.snapshot # NoSnap => x.snapshot = r.snapshot /\ hasNextSnapshot(r))
  BY DEF Sent
<1>11. t < r.offsetInProgress /\ (hasNextSnapshot(r) => t < s)
  BY <1>0, <1>5, <1>8, <1>9 DEF hasNextSnapshot
<1>12. ASSUME NEW k \in (p + 1)..(n + 1)
       PROVE  t < q2[k].from /\ (q2[k].snapshot # NoSnap => t < q2[k].snapshot.index)
  <2>1. CASE k = n + 1
    BY <2>1, <1>2, <1>6, <1>10, <1>11
  <2>2. CASE k \in (p + 1)..n
    <3>1. k \in 1..n /\ q2[k] = q[k] /\ k \in (p + 1)..Len(q)
      BY <2>2, <1>1, <1>2
    <3> QED BY <3>1, <1>7 DEF Response
  <2>3. k = n + 1 \/ k \in (p + 1)..n
    BY <1>1
  <2> QED BY <2>1, <2>2, <2>3
<1>13. Gone(r, y) => Gone(r2, y)
  BY <1>3 DEF Gone
<1>14. Lacks(w, r, G, y) => Lacks(w, r2, G, y)
  BY <1>3 DEF Lacks
<1>15. ASSUME Has(r, q, G, D, y, p) PROVE Has(r2, q2, G, D2, y, p)
  <2>1. /\ y.index <= Len(G) /\ y.index < r.offsetInProgress /\ G[y.index].term = y.logTerm
        /\ Rel(r, q, p)
        /\ \A k \in p..n : Same(y.index, D[k], G)
        /\ \A k \in (p + 1)..n : y.index < q[k].from /\ (q[k].ents # << >> => y.index < Len(G))
    BY <1>1, <1>15 DEF Has
  <2>2. y.index < Len(G) + 1
    <3>1. y.index <= Len(G)
      BY <2>1
    <3> QED BY <3>1, <1>0
  <2>3. Rel(r2, q2, p)
    BY <2>1, <1>4, WriteRel
  <2>4. ASSUME NEW k \in p..(n + 1) PROVE Same(y.index, D2[k], G)
    <3>1. CASE k = n + 1
      <4>1. y.index <= Len(G)
        BY <2>1
      <4> QED BY <3>1, <4>1, <1>2 DEF Same
    <3>2. CASE k \in p..n
      <4>1. k \in 0..n
        BY <3>2, <1>1
      <4> QED BY <3>2, <4>1, <2>1, <1>2
    <3>3. k = n + 1 \/ k \in p..n
      BY <1>1
    <3> QED BY <3>1, <3>2, <3>3
  <2>5. ASSUME NEW k \in (p + 1)..(n + 1)
        PROVE  y.index < q2[k].from /\ (q2[k].ents # << >> => y.index < Len(G))
    <3>1. CASE k = n + 1
      <4>1. x.ents # << >> => ~(r.offsetInProgress = Len(G) + 1)
        BY IdleIs
      <4>2. y.index < r.offsetInProgress
        BY <2>1
      <4>3. x.ents # << >> => y.index < Len(G)
        BY <4>1, <4>2, <1>0, <1>5
      <4> QED BY <3>1, <4>2, <4>3, <1>2, <1>10
    <3>2. CASE k \in (p + 1)..n
      <4>1. k \in 1..n
        BY <3>2, <1>1
      <4> QED BY <3>2, <4>1, <2>1, <1>2
    <3>3. k = n + 1 \/ k \in (p + 1)..n
      BY <1>1
    <3> QED BY <3>1, <3>2, <3>3
  <2> QED BY <2>1, <2>2, <2>3, <2>4, <2>5, <1>2, <1>3 DEF Has
<1>16. y.term = r.Term /\ y.index # 0 =>
        \/ Gone(r, y)
        \/ Lacks(w, r, G, y)
        \/ Has(r, q, G, D, y, p) /\ (r.snapshot # NoSnap => c)
  BY DEF Response
<1>17. y.term <= r.Term
  BY DEF Response
<1>18. \/ y.snapshot.index <= r2.applied
       \/ /\ r2.snapshot # NoSnap /\ y.snapshot.index <= r2.snapshot.index
          /\ ~r2.snapshotInProgress => y.snapshot.index < r2.snapshot.index
  BY <1>3, <1>6, <1>7, <1>9
<1>19. \A k \in (p + 1)..Len(q2) :
        /\ y.snapshot.index < q2[k].from
        /\ q2[k].snapshot # NoSnap => y.snapshot.index < q2[k].snapshot.index
  BY <1>2, <1>7, <1>12
<1> QED BY <1>3, <1>13, <1>14, <1>15, <1>16, <1>17, <1>18, <1>19 DEF Response

\* A response on its way stays true after a Ready with nothing to write.
LEMMA IdleResponse ==
    ASSUME NEW w, NEW r, NEW m, NEW q, NEW a, NEW G, NEW D, NEW H, Core(w, r, m, q, a, G, D, H),
           NEW e, HandsOut(w, r, G, e), NEW r2, Accepts(w, r, G, e, r2), ~hasNextSnapshot(r),
           NEW y \in AppendResps, NEW p \in 0..Len(q), NEW c, NEW c2, c => c2, Response(w, r, q, G, D, y, p, c)
    PROVE  Response(w, r2, q, G, D, y, p, c2)
<1>0. /\ r \in Nodes /\ G \in Seq(Entry) /\ Len(G) \in Nat /\ y.index \in Nat
  BY NodeTypes, RespTypes DEF Core, Memory
<1>1. /\ r2.Term = r.Term /\ r2.applied = r.applied /\ r2.committed = r.committed
      /\ r2.snapshot = r.snapshot /\ r2.snapshotInProgress = (r.snapshot # NoSnap)
      /\ r2.offset = r.offset /\ r2.offsetInProgress = Len(G) + 1
  BY DEF Accepts
<1>2. \A k : Rel(r2, q, k) <=> Rel(r, q, k)
  BY <1>1 DEF Rel, hasNextSnapshot
<1>3. Has(r, q, G, D, y, p) => Has(r2, q, G, D, y, p)
  <2>1. y.index <= Len(G) => y.index < Len(G) + 1
    BY <1>0
  <2> QED BY <2>1, <1>1, <1>2 DEF Has
<1>4. (Gone(r, y) => Gone(r2, y)) /\ (Lacks(w, r, G, y) => Lacks(w, r2, G, y))
  BY <1>1 DEF Gone, Lacks
<1> QED BY <1>1, <1>3, <1>4 DEF Response

\* The response of a new Ready.
LEMMA NewResponse ==
    ASSUME NEW w, NEW r, NEW m, NEW q, NEW a, NEW G, NEW D, NEW H, Core(w, r, m, q, a, G, D, H),
           NEW e, NEW r2, Accepts(w, r, G, e, r2), NEW x, Sent(r, G, x), x.resps # << >>,
           NEW q2, NEW D2, Len(q2) \in Nat, D2[Len(q2)] = G, NEW c, r.snapshot # NoSnap => c
    PROVE  Response(w, r2, q2, G, D2, x.resps[1], Len(q2), c)
<1>0. r \in Nodes /\ G \in Seq(Entry) /\ Len(G) \in Nat /\ r.Term \in Nat /\ r.applied \in Nat /\ r.snapshot.index \in Nat
  BY NodeTypes DEF Core, Memory
<1>1. /\ r2.Term = r.Term /\ r2.applied = r.applied
      /\ r2.snapshot = r.snapshot /\ r2.snapshotInProgress = (r.snapshot # NoSnap)
      /\ r2.offsetInProgress = Len(G) + 1
  BY DEF Accepts
<1>2. PICK y : y = x.resps[1]
  OBVIOUS
<1>3. /\ y.snapshot = x.snapshot /\ y.term = r.Term
      /\ y.index # 0 => y.index = Len(G) /\ y.logTerm = G[Len(G)].term
      /\ x.snapshot = IF hasNextSnapshot(r) THEN r.snapshot ELSE NoSnap
  BY <1>2 DEF Sent
<1>4. PICK n \in Nat : n = Len(q2)
  OBVIOUS
<1>5. (n + 1)..n = {} /\ n..n = {n}
  OBVIOUS
<1>6. \/ y.snapshot.index <= r2.applied
      \/ /\ r2.snapshot # NoSnap /\ y.snapshot.index <= r2.snapshot.index
         /\ ~r2.snapshotInProgress => y.snapshot.index < r2.snapshot.index
  <2>1. CASE hasNextSnapshot(r)
    <3>1. y.snapshot = r.snapshot /\ r.snapshot # NoSnap
      BY <2>1, <1>3 DEF hasNextSnapshot
    <3>2. r.snapshot.index <= r.snapshot.index
      BY <1>0
    <3> QED BY <3>1, <3>2, <1>1
  <2>2. CASE ~hasNextSnapshot(r)
    <3>1. y.snapshot.index = 0
      BY <2>2, <1>3 DEF NoSnap
    <3> QED BY <3>1, <1>0, <1>1
  <2> QED BY <2>1, <2>2
<1>7. y.index # 0 => Has(r2, q2, G, D2, y, n)
  <2>1. SUFFICES ASSUME y.index # 0 PROVE Has(r2, q2, G, D2, y, n)
    OBVIOUS
  <2>2. y.index = Len(G) /\ y.logTerm = G[Len(G)].term
    BY <2>1, <1>3
  <2>3. Len(G) <= Len(G) /\ Len(G) < Len(G) + 1
    BY <1>0
  <2>4. Rel(r2, q2, n)
    BY <1>1, <1>4, <1>5 DEF Rel, hasNextSnapshot
  <2>5. \A k \in n..n : Same(Len(G), D2[k], G)
    BY <1>4, <1>5, <2>3 DEF Same
  <2> QED BY <2>2, <2>3, <2>4, <2>5, <1>1, <1>4, <1>5 DEF Has
<1>8. y.term <= r2.Term
  BY <1>0, <1>1, <1>3
<1>9. Response(w, r2, q2, G, D2, y, n, c)
  BY <1>1, <1>4, <1>5, <1>6, <1>7, <1>8 DEF Response
<1> QED BY <1>2, <1>4, <1>9

\* The batch of a new Ready.
LEMMA NewBatch ==
    ASSUME NEW w, NEW r, NEW m, NEW q, NEW a, NEW G, NEW D, NEW H, Core(w, r, m, q, a, G, D, H),
           NEW e, HandsOut(w, r, G, e), NEW r2, Accepts(w, r, G, e, r2),
           NEW b, b = ApplyResp(e, r.applying + 1)
    PROVE  /\ BatchOK(w, r2, b) /\ b \in Batches /\ ~IsAppendResp(b)
           /\ BatchEnd(b) = r2.applying /\ b.from = r.applying + 1 /\ b.ents = e
           /\ w.async => \A j \in 1..Len(e) : OnDisk(m, D[0], b.from + j - 1, e[j])
<1>0. /\ r \in Nodes /\ G \in Seq(Entry) /\ Len(G) \in Nat /\ r.applying \in Nat /\ r.committed \in Nat
      /\ r.offset \in Nat /\ e \in Seq(Entry) /\ Len(e) \in Nat /\ w \in Worlds /\ r.Term \in Nat
      /\ Len(q) \in Nat /\ Link(w, r, m, q, G, D)
  BY NodeTypes DEF Core, Memory, HandsOut
<1>1. PICK ag \in Nat : ag = r.applying
  BY <1>0
<1>2. PICK l \in Nat : l = Len(e)
  BY <1>0
<1>3. PICK c \in Nat : c = r.committed
  BY <1>0
<1>4. PICK f \in Nat : f = ag + 1
  OBVIOUS
<1>5. b = ApplyResp(e, f)
  BY <1>1, <1>4
<1>6. b \in Batches /\ b.from = f /\ b.ents = e /\ b.type = "MsgStorageApplyResp"
  BY <1>0, <1>5 DEF ApplyResp, Batches
<1>7. BatchEnd(b) = ag + l
  BY <1>2, <1>4, <1>6 DEF BatchEnd
<1>8. r2.applying = ag + l
  BY <1>1, <1>2 DEF Accepts
<1>9. ag + l <= c /\ \A j \in 1..l : ag + j \in 1..Len(G) /\ e[j] = G[ag + j]
  BY <1>1, <1>2, <1>3 DEF HandsOut
<1>10. \A j \in 1..l : Committed(w, f + j - 1, e[j])
  <2>1. SUFFICES ASSUME NEW j \in 1..l PROVE Committed(w, f + j - 1, e[j])
    OBVIOUS
  <2>2. f + j - 1 = ag + j /\ ag + j <= c /\ ag + j > 0 /\ c # 0 /\ ag + j \in Nat
    BY <1>4, <1>9
  <2>3. CommitOK(w, G, r.Term, c)
    BY <1>3 DEF Core, Memory
  <2>4. PICK t \in DOMAIN w.log : c <= w.commit[t] /\ Same(c, G, w.log[t])
    BY <2>2, <2>3 DEF CommitOK
  <2>5. w.commit[t] \in Nat
    BY <1>0, WorldTypes
  <2>6. ag + j <= w.commit[t]
    BY <2>2, <2>4, <2>5
  <2>7. ag + j \in 1..c
    BY <2>2
  <2>8. G[ag + j] = w.log[t][ag + j]
    BY <2>4, <2>7 DEF Same
  <2>9. e[j] = G[ag + j]
    BY <1>9
  <2> QED BY <2>2, <2>6, <2>8, <2>9 DEF Committed
<1>11. BatchOK(w, r2, b)
  <2>1. b.from > 0 /\ BatchEnd(b) <= r2.applying
    BY <1>4, <1>6, <1>7, <1>8
  <2> QED BY <2>1, <1>2, <1>6, <1>10 DEF BatchOK
<1>12. w.async => \A j \in 1..l : OnDisk(m, D[0], f + j - 1, e[j])
  <2>1. SUFFICES ASSUME w.async, NEW j \in 1..l PROVE OnDisk(m, D[0], f + j - 1, e[j])
    OBVIOUS
  <2>2. e # << >>
    BY <1>2
  <2>3. r.snapshot = NoSnap /\ ag + l < r.offset
    BY <2>1, <2>2, <1>1, <1>2 DEF HandsOut
  <2>4. Rel(r, q, 0)
    BY <2>3, <1>0, NoSnapRel
  <2>5. Same(r.offset - 1, D[0], G)
    BY <2>4, <1>0 DEF Link
  <2>6. PICK o \in Nat : o = r.offset
    BY <1>0
  <2>7. f + j - 1 = ag + j /\ ag + j \in 1..(o - 1)
    BY <2>3, <2>6, <1>4
  <2>8. D[0] \in Seq(Entry)
    <3>1. D \in [0..Len(q) -> Seq(Entry)] /\ 0 \in 0..Len(q)
      BY <1>0 DEF Core, Disks
    <3> QED BY <3>1
  <2>9. o - 1 <= Len(D[0]) /\ D[0][ag + j] = G[ag + j] /\ Len(D[0]) \in Nat
    BY <2>5, <2>6, <2>7, <2>8 DEF Same
  <2>10. ag + j <= Len(D[0])
    BY <2>6, <2>7, <2>9
  <2> QED BY <2>7, <2>9, <2>10, <1>9 DEF OnDisk
<1>13. ~IsAppendResp(b)
  BY <1>6 DEF IsAppendResp
<1> QED BY <1>1, <1>2, <1>4, <1>6, <1>7, <1>8, <1>11, <1>12, <1>13

\* b is the batch of a Ready, aq2 the batches with it, if it has entries.
IsBatchOf(b, e, r) == b = ApplyResp(e, r.applying + 1)
\* The batches with that of the Ready.
WithBatch(aq, e, b, aq2) == aq2 = IF e = << >> THEN aq ELSE Append(aq, b)
\* The batches that Advance will acknowledge are right.
StepsOK(w, r) ==
    \A k \in 1..Len(r.stepsOnAdvance) :
        ~IsAppendResp(r.stepsOnAdvance[k]) => BatchOK(w, r, r.stepsOnAdvance[k])

\* The batches with that of a new Ready are right.
LEMMA ReadyBatches ==
    ASSUME NEW w, NEW r, NEW m, NEW q, NEW a, NEW G, NEW D, NEW H, Core(w, r, m, q, a, G, D, H),
           NEW aq \in Seq(Batches), NEW as \in Seq(Batches), BatchInv(w, r, m, aq, as, a, D[0]),
           NEW e, HandsOut(w, r, G, e), NEW r2, Accepts(w, r, G, e, r2),
           NEW b, IsBatchOf(b, e, r), NEW aq2, WithBatch(aq, e, b, aq2), StepsOK(w, r2)
    PROVE  BatchInv(w, r2, m, aq2, as, a, D[0]) /\ aq2 \in Seq(Batches)
<1>0. /\ r \in Nodes /\ r.applying \in Nat /\ r2.applying \in Nat /\ r.applying <= r2.applying /\ a \in Nat
  BY NodeTypes, AcceptsNode DEF Core
<1>1. /\ BatchOK(w, r2, b) /\ b \in Batches
      /\ BatchEnd(b) = r2.applying /\ b.from = r.applying + 1 /\ b.ents = e
      /\ w.async => \A j \in 1..Len(e) : OnDisk(m, D[0], b.from + j - 1, e[j])
  BY NewBatch DEF IsBatchOf
<1>2. \A z \in Batches : BatchOK(w, r, z) => BatchOK(w, r2, z)
  <2>1. SUFFICES ASSUME NEW z \in Batches, BatchOK(w, r, z) PROVE BatchOK(w, r2, z)
    OBVIOUS
  <2>2. PICK t \in Int : t = BatchEnd(z)
    BY DEF Batches, BatchEnd
  <2>3. t <= r.applying
    BY <2>1, <2>2 DEF BatchOK
  <2>4. t <= r2.applying
    BY <2>3, <1>0
  <2> QED BY <2>1, <2>2, <2>4 DEF BatchOK
<1>3. /\ \A k \in 1..Len(aq) : aq[k] \in Batches /\ BatchOK(w, r2, aq[k])
      /\ \A k \in 1..Len(as) : BatchOK(w, r2, as[k])
  <2>1. \A k \in 1..Len(aq) : aq[k] \in Batches /\ BatchOK(w, r2, aq[k])
    BY <1>2, BatchTypes DEF BatchInv
  <2>2. \A k \in 1..Len(as) : BatchOK(w, r2, as[k])
    BY <1>2, BatchTypes DEF BatchInv
  <2> QED BY <2>1, <2>2
<1>4. PICK n \in Nat : n = Len(aq)
  OBVIOUS
<1>5. CASE e = << >>
  <2>1. aq2 = aq
    BY <1>5 DEF WithBatch
  <2>2. Len(e) = 0
    BY <1>5
  <2>3. r2.applying = r.applying
    BY <2>2, <1>0 DEF Accepts
  <2> QED BY <2>1, <2>3, <1>3 DEF BatchInv, StepsOK
<1>6. CASE e # << >>
  <2>1. aq2 = Append(aq, b)
    BY <1>6 DEF WithBatch
  <2>2. /\ aq2 \in Seq(Batches) /\ Len(aq2) = n + 1 /\ aq2[n + 1] = b
        /\ \A k \in 1..n : aq2[k] = aq[k]
    BY <2>1, <1>1, <1>4
  <2>3. \A k \in 1..(n + 1) : k \in 1..n \/ k = n + 1
    OBVIOUS
  <2>4. \A k \in 1..(n + 1) : BatchOK(w, r2, aq2[k])
    BY <2>2, <2>3, <1>1, <1>3, <1>4
  <2>5. w.async => \A k \in 1..(n + 1) : \A j \in 1..Len(aq2[k].ents) :
            OnDisk(m, D[0], aq2[k].from + j - 1, aq2[k].ents[j])
    <3>1. SUFFICES ASSUME w.async, NEW k \in 1..(n + 1), NEW j \in 1..Len(aq2[k].ents)
                   PROVE  OnDisk(m, D[0], aq2[k].from + j - 1, aq2[k].ents[j])
      OBVIOUS
    <3>2. CASE k \in 1..n
      <4>1. aq2[k] = aq[k]
        BY <3>2, <2>2
      <4> QED BY <3>1, <3>2, <4>1, <1>4 DEF BatchInv
    <3>3. CASE k = n + 1
      <4>1. aq2[k] = b
        BY <3>3, <2>2
      <4> QED BY <3>1, <4>1, <1>1
    <3> QED BY <3>2, <3>3, <2>3
  <2>6. r.applying <= IF n = 0 THEN a ELSE MaxOf(a, BatchEnd(aq[n]))
    <3>1. aq = << >> <=> n = 0
      BY <1>4, EmptySeq
    <3> QED BY <3>1, <1>4 DEF BatchInv
  <2>7. ASSUME NEW k \in 1..(n + 1)
        PROVE  aq2[k].from <= MaxOf(a, IF k = 1 THEN a ELSE BatchEnd(aq2[k - 1])) + 1
    <3>1. CASE k \in 1..n
      <4>1. aq2[k] = aq[k] /\ (k # 1 => aq2[k - 1] = aq[k - 1])
        <5>1. k # 1 => k - 1 \in 1..n
          BY <3>1
        <5> QED BY <5>1, <3>1, <2>2
      <4>2. aq[k].from <= MaxOf(a, IF k = 1 THEN a ELSE BatchEnd(aq[k - 1])) + 1
        BY <3>1, <1>4 DEF BatchInv
      <4> QED BY <4>1, <4>2
    <3>2. CASE k = n + 1 /\ n = 0
      <4>1. aq2[k] = b /\ k = 1 /\ r.applying <= a
        BY <3>2, <2>2, <2>6
      <4>2. MaxOf(a, a) = a
        BY DEF MaxOf
      <4>3. r.applying + 1 <= a + 1
        BY <4>1, <1>0
      <4> QED BY <4>1, <4>2, <4>3, <1>1
    <3>3. CASE k = n + 1 /\ n # 0
      <4>1. k # 1 /\ k - 1 = n /\ n \in 1..n
        BY <3>3
      <4>2. aq2[k] = b /\ aq2[k - 1] = aq[n]
        BY <3>3, <4>1, <2>2
      <4>3. PICK t \in Int : t = BatchEnd(aq[n])
        BY <4>1, <1>4, BatchTypes
      <4>4. r.applying <= MaxOf(a, t)
        BY <3>3, <4>3, <2>6
      <4>5. r.applying + 1 <= MaxOf(a, t) + 1
        BY <4>4, <1>0 DEF MaxOf
      <4> QED BY <4>1, <4>2, <4>3, <4>5, <1>1
    <3> QED BY <3>1, <3>2, <3>3, <2>3
  <2>8. r2.applying <= IF aq2 = << >> THEN a ELSE MaxOf(a, BatchEnd(aq2[Len(aq2)]))
    <3>1. aq2 # << >>
      BY <2>2
    <3>2. BatchEnd(aq2[Len(aq2)]) = r2.applying
      BY <2>2, <1>1
    <3>3. r2.applying <= MaxOf(a, r2.applying)
      BY <1>0 DEF MaxOf
    <3> QED BY <3>1, <3>2, <3>3
  <2> QED BY <2>2, <2>4, <2>5, <2>7, <2>8, <1>3 DEF BatchInv, StepsOK
<1> QED BY <1>5, <1>6

\* The steps that Advance will take for a Ready: the response to its write,
\* then its batch.
Steps(s, rs, e, b) ==
    /\ Len(s) \in Nat /\ Len(s) <= 2
    /\ \A k \in 1..Len(s) : /\ IsAppendResp(s[k]) => rs # << >> /\ s[k] = rs[1]
                            /\ ~IsAppendResp(s[k]) => e # << >> /\ s[k] = b
    /\ Len(s) = 2 => IsAppendResp(s[1]) /\ ~IsAppendResp(s[2])
    /\ rs # << >> => 1 \in 1..Len(s) /\ s[1] = rs[1] /\ IsAppendResp(s[1])

\* Joining two sequences, of any kind.
LEMMA JoinIs ==
    ASSUME NEW S, NEW a \in Seq(S), NEW b \in Seq(S), NEW n \in Nat, NEW k \in Nat, n = Len(a), k = Len(b)
    PROVE  /\ a \o b \in Seq(S) /\ Len(a \o b) = n + k
           /\ \A i \in 1..n : (a \o b)[i] = a[i]
           /\ \A i \in 1..k : (a \o b)[n + i] = b[i]
  OBVIOUS

\* The steps, as acceptReady puts them together.
LEMMA StepsAre ==
    ASSUME NEW rs \in Seq(AppendResps), Len(rs) <= 1, NEW e, NEW b, ~IsAppendResp(b),
           NEW s, s = rs \o (IF e = << >> THEN << >> ELSE <<b>>)
    PROVE  Steps(s, rs, e, b)
<1>1. PICK n \in Nat : n = Len(rs)
  OBVIOUS
<1>2. n = 0 \/ n = 1
  BY <1>1
<1>3. rs = << >> <=> n = 0
  BY <1>1, EmptySeq
<1>4. n = 1 => rs[1] \in AppendResps
  <2>1. rs \in [1..n -> AppendResps]
    BY <1>1
  <2> QED BY <2>1
<1>5. n = 1 => IsAppendResp(rs[1])
  BY <1>4 DEF AppendResps, IsAppendResp
<1>6. CASE n = 0 /\ e = << >>
  <2>1. rs = << >> /\ s = << >> \o << >>
    BY <1>6, <1>3
  <2>2. Len(s) = 0
    BY <2>1
  <2> QED BY <2>1, <2>2 DEF Steps
<1>7. CASE n = 0 /\ e # << >>
  <2>1. rs = << >> /\ s = << >> \o <<b>>
    BY <1>7, <1>3
  <2>2. Len(s) = 1 /\ s[1] = b
    BY <2>1
  <2> QED BY <2>1, <2>2, <1>7 DEF Steps
<1>8. CASE n = 1 /\ e = << >>
  <2>1. rs # << >> /\ s = rs \o << >>
    BY <1>8, <1>3
  <2>2. Len(s) = 1 /\ s[1] = rs[1]
    <3>1. Len(rs) = 1 /\ Len(<< >>) = 0 /\ << >> \in Seq(AppendResps)
      BY <1>1, <1>8
    <3> QED BY <2>1, <3>1
  <2> QED BY <2>1, <2>2, <1>5, <1>8 DEF Steps
<1>9. CASE n = 1 /\ e # << >>
  <2>1. rs # << >> /\ s = rs \o <<b>>
    BY <1>9, <1>3
  <2>2. Len(s) = 2 /\ s[1] = rs[1] /\ s[2] = b
    <3>1. PICK u : u = <<b>>
      OBVIOUS
    <3>2. Len(rs) = 1 /\ Len(u) = 1 /\ u[1] = b
      BY <3>1, <1>1, <1>9
    <3>3. PICK S : S = AppendResps \cup {b}
      OBVIOUS
    <3>4. rs \in Seq(S) /\ u \in Seq(S)
      BY <3>1, <3>3
    <3>5. s = rs \o u
      BY <2>1, <3>1
    <3>6. Len(s) = 2 /\ s[1] = rs[1] /\ s[1 + 1] = u[1]
      <4>1. 1 \in Nat
        OBVIOUS
      <4>2. /\ Len(rs \o u) = 1 + 1
            /\ \A i \in 1..1 : (rs \o u)[i] = rs[i]
            /\ \A i \in 1..1 : (rs \o u)[1 + i] = u[i]
        BY <3>2, <3>4, <4>1, JoinIs
      <4> QED BY <3>5, <4>2
    <3> QED BY <3>2, <3>6
  <2>3. 1..2 = {1, 2}
    OBVIOUS
  <2> QED BY <2>1, <2>2, <2>3, <1>5, <1>9 DEF Steps
<1> QED BY <1>2, <1>6, <1>7, <1>8, <1>9

\* The responses with that of a new write are true.
LEMMA WriteAsync ==
    ASSUME NEW w, NEW r, NEW m, NEW q, NEW a, NEW G, NEW D, NEW H, Core(w, r, m, q, a, G, D, H),
           NEW x, Sent(r, G, x), NEW q2, NEW D2, NEW H2, Longer(q, D, H, x, G, hardState(r), q2, D2, H2),
           NEW e, HandsOut(w, r, G, e), NEW r2, Accepts(w, r, G, e, r2),
           NEW rs \in Seq(AppendResps), AsyncResponses(w, r, q, rs, a, G, D)
    PROVE  AsyncResponses(w, r2, q2, rs, a, G, D2)
<1>0. x \in Writes /\ q \in Seq(Writes) /\ r2.snapshot = r.snapshot
  BY DEF Core, Sent, Accepts
<1>1. PICK n \in Nat : n = Len(q)
  BY <1>0
<1>2. /\ q2 \in Seq(Writes) /\ Len(q2) = n + 1 /\ q2[n + 1] = x
      /\ \A k \in 1..n : q2[k] = q[k]
      /\ D2[n + 1] = G
  BY <1>0, <1>1, LongerIs
<1>3. \A i \in 1..Len(rs) : CarriedBy(r2, rs, i) <=> CarriedBy(r, rs, i)
  BY <1>0 DEF CarriedBy
<1>4. \A k \in 1..n : CarriedUpTo(r, q, rs, k) => CarriedUpTo(r2, q2, rs, k)
  <2>1. SUFFICES ASSUME NEW k \in 1..n, CarriedUpTo(r, q, rs, k) PROVE CarriedUpTo(r2, q2, rs, k)
    OBVIOUS
  <2>2. CarriedBy(r, rs, Len(rs)) => CarriedBy(r2, rs, Len(rs))
    BY <1>0 DEF CarriedBy
  <2>3. \A j \in 1..k : q2[j] = q[j]
    BY <1>2
  <2> QED BY <2>1, <2>2, <2>3, <1>0 DEF CarriedUpTo
<1>5. r.snapshot # NoSnap => CarriedUpTo(r2, q2, rs, n + 1)
  <2>1. SUFFICES ASSUME r.snapshot # NoSnap PROVE CarriedUpTo(r2, q2, rs, n + 1)
    OBVIOUS
  <2>2. CASE hasNextSnapshot(r)
    <3>1. x.snapshot = r.snapshot /\ n + 1 \in 1..(n + 1)
      BY <2>2 DEF Sent
    <3> QED BY <3>1, <1>0, <1>2 DEF CarriedUpTo
  <2>3. CASE ~hasNextSnapshot(r)
    <3>1. CarriedUpTo(r, q, rs, n)
      BY <2>1, <2>3, <1>1 DEF AsyncResponses, hasNextSnapshot
    <3>2. CarriedBy(r, rs, Len(rs)) => CarriedBy(r2, rs, Len(rs))
      BY <1>0 DEF CarriedBy
    <3>3. \A j \in 1..n : j \in 1..(n + 1) /\ q2[j] = q[j]
      BY <1>2
    <3> QED BY <3>1, <3>2, <3>3, <1>0 DEF CarriedUpTo
  <2> QED BY <2>2, <2>3
<1>6. ASSUME NEW i \in 1..Len(rs)
      PROVE  rs[i].snapshot.index <= a /\ Response(w, r2, q2, G, D2, rs[i], 0, CarriedBy(r2, rs, i))
  <2>1. rs[i].snapshot.index <= a /\ Response(w, r, q, G, D, rs[i], 0, CarriedBy(r, rs, i))
    BY DEF AsyncResponses
  <2>2. rs[i] \in AppendResps /\ 0 \in 0..Len(q) /\ (CarriedBy(r, rs, i) => CarriedBy(r2, rs, i))
    BY <1>1, <1>3
  <2> QED BY <2>1, <2>2, WriteResponse
<1>7. ASSUME NEW k \in 1..(n + 1), q2[k].resps # << >>
      PROVE  Response(w, r2, q2, G, D2, q2[k].resps[1], k, CarriedUpTo(r2, q2, rs, k))
  <2>1. CASE k \in 1..n
    <3>1. q2[k] = q[k] /\ k \in 0..Len(q) /\ k \in 1..Len(q)
      BY <2>1, <1>1, <1>2
    <3>2. Response(w, r, q, G, D, q[k].resps[1], k, CarriedUpTo(r, q, rs, k))
      BY <3>1, <1>7 DEF AsyncResponses
    <3>3. q[k].resps[1] \in AppendResps
      BY <3>1, <1>0, <1>7, QueueRespTypes
    <3>4. CarriedUpTo(r, q, rs, k) => CarriedUpTo(r2, q2, rs, k)
      BY <2>1, <1>4
    <3>5. Response(w, r2, q2, G, D2, q[k].resps[1], k, CarriedUpTo(r2, q2, rs, k))
      BY <3>1, <3>2, <3>3, <3>4, WriteResponse
    <3> QED BY <3>1, <3>5
  <2>2. CASE k = n + 1
    <3>1. q2[k] = x /\ k = Len(q2) /\ Len(q2) \in Nat /\ D2[Len(q2)] = G
      BY <2>2, <1>2
    <3>2. r.snapshot # NoSnap => CarriedUpTo(r2, q2, rs, k)
      BY <2>2, <1>5
    <3>3. x.resps # << >>
      BY <3>1, <1>7
    <3>4. Response(w, r2, q2, G, D2, x.resps[1], Len(q2), CarriedUpTo(r2, q2, rs, k))
      BY <3>1, <3>2, <3>3, NewResponse
    <3> QED BY <3>1, <3>4
  <2> QED BY <2>1, <2>2
<1>8. r2.snapshotInProgress => CarriedUpTo(r2, q2, rs, n + 1)
  <2>1. r2.snapshotInProgress => r.snapshot # NoSnap
    BY DEF Accepts
  <2> QED BY <2>1, <1>5
<1> QED BY <1>2, <1>6, <1>7, <1>8 DEF AsyncResponses

\* The responses stay true after a Ready with nothing to write.
LEMMA IdleAsync ==
    ASSUME NEW w, NEW r, NEW m, NEW q, NEW a, NEW G, NEW D, NEW H, Core(w, r, m, q, a, G, D, H),
           NEW e, HandsOut(w, r, G, e), NEW r2, Accepts(w, r, G, e, r2), ~hasNextSnapshot(r),
           NEW rs \in Seq(AppendResps), AsyncResponses(w, r, q, rs, a, G, D)
    PROVE  AsyncResponses(w, r2, q, rs, a, G, D)
<1>0. q \in Seq(Writes) /\ Len(q) \in Nat /\ r2.snapshot = r.snapshot /\ r2.snapshotInProgress = (r.snapshot # NoSnap)
  BY DEF Core, Accepts
<1>1. \A i : CarriedBy(r, rs, i) => CarriedBy(r2, rs, i)
  BY <1>0 DEF CarriedBy
<1>2. \A k : CarriedUpTo(r, q, rs, k) => CarriedUpTo(r2, q, rs, k)
  BY <1>0, <1>1 DEF CarriedUpTo
<1>3. ASSUME NEW i \in 1..Len(rs)
      PROVE  rs[i].snapshot.index <= a /\ Response(w, r2, q, G, D, rs[i], 0, CarriedBy(r2, rs, i))
  <2>1. rs[i].snapshot.index <= a /\ Response(w, r, q, G, D, rs[i], 0, CarriedBy(r, rs, i))
    BY DEF AsyncResponses
  <2>2. rs[i] \in AppendResps /\ 0 \in 0..Len(q) /\ (CarriedBy(r, rs, i) => CarriedBy(r2, rs, i))
    BY <1>0, <1>1
  <2> QED BY <2>1, <2>2, IdleResponse
<1>4. ASSUME NEW k \in 1..Len(q), q[k].resps # << >>
      PROVE  Response(w, r2, q, G, D, q[k].resps[1], k, CarriedUpTo(r2, q, rs, k))
  <2>1. k \in 0..Len(q)
    BY <1>0
  <2>2. Response(w, r, q, G, D, q[k].resps[1], k, CarriedUpTo(r, q, rs, k))
    BY <1>4 DEF AsyncResponses
  <2>3. q[k].resps[1] \in AppendResps
    BY <1>0, <1>4, QueueRespTypes
  <2>4. CarriedUpTo(r, q, rs, k) => CarriedUpTo(r2, q, rs, k)
    BY <1>2
  <2> QED BY <2>1, <2>2, <2>3, <2>4, IdleResponse
<1>5. r2.snapshotInProgress => CarriedUpTo(r2, q, rs, Len(q))
  <2>1. r2.snapshotInProgress => r.snapshotInProgress
    BY <1>0 DEF hasNextSnapshot
  <2> QED BY <2>1, <1>2 DEF AsyncResponses
<1> QED BY <1>3, <1>4, <1>5 DEF AsyncResponses

\* The responses of a Ready without asynchronous writes: q2 is its write, if any.
LEMMA ReadySync ==
    ASSUME NEW w, NEW r, NEW m, NEW q, NEW a, NEW G, NEW D, NEW H, Core(w, r, m, q, a, G, D, H),
           NEW x, Sent(r, G, x), NEW e, NEW r2, Accepts(w, r, G, e, r2),
           ~r.snapshotInProgress,
           NEW q2, NEW D2, Len(q2) \in Nat, D2[Len(q2)] = G,
           (q2 = << >> /\ ~hasNextSnapshot(r)) \/ (q2 # << >> /\ q2[1] = x),
           NEW b, ~IsAppendResp(b), r2.stepsOnAdvance = x.resps \o (IF e = << >> THEN << >> ELSE <<b>>)
    PROVE  SyncResponses(w, r2, q2, a, G, D2)
<1>0. x.resps \in Seq(AppendResps) /\ Len(x.resps) <= 1 /\ r2.snapshot = r.snapshot /\ a \in Nat
      /\ r2.snapshotInProgress = (r.snapshot # NoSnap)
  BY DEF Core, Sent, Writes, Accepts
<1>1. PICK s : s = r2.stepsOnAdvance
  OBVIOUS
<1>2. /\ \A k \in 1..Len(s) : IsAppendResp(s[k]) => x.resps # << >> /\ s[k] = x.resps[1]
      /\ x.resps # << >> => 1 \in 1..Len(s) /\ s[1] = x.resps[1] /\ IsAppendResp(s[1])
  <2>1. PICK t : t = x.resps
    OBVIOUS
  <2>2. t \in Seq(AppendResps) /\ Len(t) <= 1 /\ s = t \o (IF e = << >> THEN << >> ELSE <<b>>)
    BY <2>1, <1>0, <1>1
  <2>3. Steps(s, t, e, b)
    BY <2>2, StepsAre
  <2> QED BY <2>1, <2>3 DEF Steps
<1>3. r.snapshot # NoSnap => hasNextSnapshot(r)
  BY DEF hasNextSnapshot
<1>4. /\ x.snapshot = IF hasNextSnapshot(r) THEN r.snapshot ELSE NoSnap
      /\ x.resps # << >> => x.resps[1].snapshot = x.snapshot
      /\ hasNextSnapshot(r) => x.resps # << >>
  BY DEF Sent
<1>5. ASSUME x.resps # << >> PROVE SyncResponse(w, r2, q2, a, G, D2, x.resps[1])
  <2>1. r.snapshot # NoSnap => (x.resps[1].snapshot = r2.snapshot)
    BY <1>0, <1>3, <1>4, <1>5
  <2>2. Response(w, r2, q2, G, D2, x.resps[1], Len(q2), x.resps[1].snapshot = r2.snapshot)
    BY <1>5, <2>1, NewResponse
  <2>3. q2 = << >> => x.resps[1].snapshot.index <= a
    <3>1. q2 = << >> => x.resps[1].snapshot.index = 0
      BY <1>4, <1>5 DEF NoSnap
    <3> QED BY <3>1, <1>0
  <2>4. q2 # << >> => x.resps[1].snapshot = q2[1].snapshot
    BY <1>4, <1>5
  <2> QED BY <2>2, <2>3, <2>4 DEF SyncResponse
<1>6. r2.snapshotInProgress => \E i \in 1..Len(s) : IsAppendResp(s[i]) /\ s[i].snapshot = r2.snapshot
  BY <1>0, <1>2, <1>3, <1>4
<1>7. \A i \in 1..Len(s) : IsAppendResp(s[i]) => SyncResponse(w, r2, q2, a, G, D2, s[i])
  BY <1>2, <1>5
<1> QED BY <1>1, <1>6, <1>7 DEF SyncResponses

\* Taking a Ready: q2, D2 and H2 are the queue and the disk with its write, if
\* it has one, and aq2 the batches with its batch, if it has one.
ReadyTaken(w, r, q, aq, G, D, H, x, e, r2, q2, aq2, D2, H2) ==
    /\ Sent(r, G, x) /\ HandsOut(w, r, G, e) /\ Accepts(w, r, G, e, r2) /\ ~r.advancing
    /\ aq2 = IF e = << >> THEN aq ELSE Append(aq, ApplyResp(e, r.applying + 1))
    /\ w.async => r2.advancing = r.advancing /\ r2.stepsOnAdvance = r.stepsOnAdvance
    /\ ~w.async =>
        /\ r2.advancing = TRUE
        /\ r2.stepsOnAdvance =
            x.resps \o (IF e = << >> THEN << >> ELSE <<ApplyResp(e, r.applying + 1)>>)
    /\ \/ needStorageAppend(x) /\ Longer(q, D, H, x, G, hardState(r), q2, D2, H2)
       \/ ~needStorageAppend(x) /\ q2 = q /\ D2 = D /\ H2 = H

\* Taking a Ready keeps the whole invariant.
LEMMA ReadyWhole ==
    ASSUME NEW w, NEW r, NEW m, NEW q, NEW aq, NEW rs, NEW as, NEW a, NEW G, NEW D, NEW H,
           Whole(w, r, m, q, aq, rs, as, a, G, D, H),
           NEW x, NEW e, NEW r2, NEW q2, NEW aq2, NEW D2, NEW H2,
           ReadyTaken(w, r, q, aq, G, D, H, x, e, r2, q2, aq2, D2, H2)
    PROVE  Whole(w, r2, m, q2, aq2, rs, as, a, G, D2, H2)
<1>0. /\ Core(w, r, m, q, a, G, D, H)
      /\ aq \in Seq(Batches) /\ rs \in Seq(AppendResps) /\ as \in Seq(Batches)
      /\ BatchInv(w, r, m, aq, as, a, D[0])
  BY DEF Whole
<1>1. /\ Sent(r, G, x) /\ HandsOut(w, r, G, e) /\ Accepts(w, r, G, e, r2) /\ ~r.advancing
  BY DEF ReadyTaken
<1>b. PICK b : b = ApplyResp(e, r.applying + 1)
  OBVIOUS
<1>2. /\ aq2 = IF e = << >> THEN aq ELSE Append(aq, b)
      /\ w.async => r2.advancing = r.advancing /\ r2.stepsOnAdvance = r.stepsOnAdvance
      /\ ~w.async =>
        /\ r2.advancing = TRUE
        /\ r2.stepsOnAdvance = x.resps \o (IF e = << >> THEN << >> ELSE <<b>>)
  BY <1>b DEF ReadyTaken
<1>3. \/ needStorageAppend(x) /\ Longer(q, D, H, x, G, hardState(r), q2, D2, H2)
      \/ ~needStorageAppend(x) /\ q2 = q /\ D2 = D /\ H2 = H
  BY DEF ReadyTaken
<1>4. q \in Seq(Writes) /\ x \in Writes /\ x.resps \in Seq(AppendResps) /\ Len(x.resps) <= 1
  BY <1>0, <1>1 DEF Core, Sent, Writes
<1>n. PICK n \in Nat : n = Len(q)
  BY <1>4
<1>5. BatchOK(w, r2, b) /\ b \in Batches /\ ~IsAppendResp(b)
  BY <1>0, <1>1, <1>b, NewBatch
<1>6. ASSUME NEW k \in Nat, Len(q2) = k, D2[k] = G, D2[0] = D[0],
             Core(w, r2, m, q2, a, G, D2, H2), w.async => AsyncResponses(w, r2, q2, rs, a, G, D2),
             n = 0 => \/ q2 = << >> /\ ~hasNextSnapshot(r)
                      \/ q2 # << >> /\ q2[1] = x /\ k = 1
      PROVE  Whole(w, r2, m, q2, aq2, rs, as, a, G, D2, H2)
  <2>1. CASE w.async
    <3>1. AsyncMode(r)
      BY <2>1 DEF Whole
    <3>2. AsyncMode(r2)
      BY <2>1, <3>1, <1>2 DEF AsyncMode
    <3>3. StepsOK(w, r2)
      BY <3>2 DEF AsyncMode, StepsOK
    <3>4. BatchInv(w, r2, m, aq2, as, a, D[0]) /\ aq2 \in Seq(Batches)
      <4>1. WithBatch(aq, e, b, aq2) /\ IsBatchOf(b, e, r)
        BY <1>2, <1>b DEF WithBatch, IsBatchOf
      <4> QED BY <4>1, <3>3, <1>0, <1>1, ReadyBatches
    <3> QED BY <2>1, <3>2, <3>4, <1>0, <1>6 DEF Whole
  <2>2. CASE ~w.async
    <3>1. SyncMode(r, q, rs, as) /\ SyncResponses(w, r, q, a, G, D)
      BY <2>2 DEF Whole
    <3>2. q = << >> /\ r.stepsOnAdvance = << >> /\ rs = << >> /\ as = << >>
      BY <3>1, <1>1 DEF SyncMode
    <3>3. n = 0
      BY <3>2, <1>n
    <3>4. ~r.snapshotInProgress
      BY <3>1, <3>2 DEF SyncResponses
    <3>5. PICK s : s = r2.stepsOnAdvance
      OBVIOUS
    <3>6. s = x.resps \o (IF e = << >> THEN << >> ELSE <<b>>) /\ r2.advancing
      BY <2>2, <3>5, <1>2
    <3>7. Steps(s, x.resps, e, b)
      BY <3>6, <1>4, <1>5, StepsAre
    <3>8. SyncResponses(w, r2, q2, a, G, D2)
      <4>1. Len(q2) \in Nat /\ D2[Len(q2)] = G
        BY <1>6
      <4>2. (q2 = << >> /\ ~hasNextSnapshot(r)) \/ (q2 # << >> /\ q2[1] = x)
        BY <1>6, <3>3
      <4>3. r2.stepsOnAdvance = x.resps \o (IF e = << >> THEN << >> ELSE <<b>>)
        BY <3>5, <3>6
      <4> QED BY <4>1, <4>2, <4>3, <3>4, <1>0, <1>1, <1>5, ReadySync
    <3>9. SyncMode(r2, q2, rs, as)
      <4>1. Len(q2) <= 1
        <5>1. CASE q2 = << >>
          BY <5>1
        <5>2. CASE q2 # << >>
          BY <5>2, <1>6, <3>3
        <5> QED BY <5>1, <5>2
      <4>2. /\ Len(r2.stepsOnAdvance) <= 2
            /\ Len(r2.stepsOnAdvance) = 2 =>
                IsAppendResp(r2.stepsOnAdvance[1]) /\ ~IsAppendResp(r2.stepsOnAdvance[2])
        BY <3>5, <3>7 DEF Steps
      <4> QED BY <4>1, <4>2, <3>2, <3>6 DEF SyncMode
    <3>10. StepsOK(w, r2)
      BY <3>5, <3>7, <1>5 DEF Steps, StepsOK
    <3>11. BatchInv(w, r2, m, aq2, as, a, D[0]) /\ aq2 \in Seq(Batches)
      <4>1. WithBatch(aq, e, b, aq2) /\ IsBatchOf(b, e, r)
        BY <1>2, <1>b DEF WithBatch, IsBatchOf
      <4> QED BY <4>1, <3>10, <1>0, <1>1, ReadyBatches
    <3> QED BY <2>2, <3>8, <3>9, <3>11, <1>0, <1>6 DEF Whole
  <2> QED BY <2>1, <2>2
<1>7. CASE needStorageAppend(x) /\ Longer(q, D, H, x, G, hardState(r), q2, D2, H2)
  <2>1. q2 \in Seq(Writes) /\ Len(q2) = n + 1 /\ D2[n + 1] = G /\ D2[0] = D[0]
    <3>1. 0 \in 0..n
      BY <1>n
    <3> QED BY <3>1, <1>7, <1>n, <1>4, LongerIs
  <2>2. Core(w, r2, m, q2, a, G, D2, H2)
    BY <1>7, <1>0, <1>1, WriteCore
  <2>3. w.async => AsyncResponses(w, r2, q2, rs, a, G, D2)
    BY <1>7, <1>0, <1>1, WriteAsync DEF Whole
  <2>4. n = 0 => q2[1] = x /\ q2 # << >>
    <3>1. q2[n + 1] = x
      BY <1>7, <1>n, <1>4, LongerIs
    <3>2. q2 # << >>
      BY <2>1, EmptySeq
    <3> QED BY <2>1, <3>1, <3>2
  <2>5. n + 1 \in Nat /\ (n = 0 => q2 # << >> /\ q2[1] = x /\ n + 1 = 1)
    BY <2>4
  <2> QED BY <2>1, <2>2, <2>3, <2>5, <1>6
<1>8. CASE ~needStorageAppend(x) /\ q2 = q /\ D2 = D /\ H2 = H
  <2>1. Core(w, r2, m, q, a, G, D, H) /\ D[Len(q)] = G /\ ~hasNextSnapshot(r)
    BY <1>8, <1>0, <1>1, IdleCore
  <2>2. w.async => AsyncResponses(w, r2, q, rs, a, G, D)
    BY <2>1, <1>0, <1>1, IdleAsync DEF Whole
  <2>3. n = 0 => q = << >>
    BY <1>4, <1>n, EmptySeq
  <2> QED BY <2>1, <2>2, <2>3, <1>8, <1>n, <1>6
<1> QED BY <1>3, <1>7, <1>8

\* Ready keeps the invariant, for the longer queue.
LEMMA ReadyInv ==
    ASSUME NEW G, NEW D, NEW H, StateInv(G, D, H), Ready
    PROVE  \E D2, H2 : StateInv(G, D2, H2)'
<1> DEFINE x == NewAppendMsg(rn, ms)
           e == nextCommittedEnts(rn, ms)
<1>0. /\ Core(world, rn, ms, appendQ, sm, G, D, H) /\ rn \in Nodes /\ sm \in Nat
      /\ Whole(world, rn, ms, appendQ, applyQ, appendResps, applyResps, sm, G, D, H)
  BY StateFacts
<1>1. /\ ~rn.advancing /\ rn' = Accepted(rn, ms, e)
      /\ appendQ' = IF needStorageAppend(x) THEN Append(appendQ, x) ELSE appendQ
      /\ applyQ' = IF e = << >> THEN applyQ ELSE Append(applyQ, ApplyResp(e, rn.applying + 1))
      /\ UNCHANGED <<world, ms, appendResps, applyResps, sm, crashes>>
  BY DEF Ready
<1>2. Sent(rn, G, x)
  BY <1>0, SentIs
<1>3. HandsOut(world, rn, G, e)
  BY <1>0, NextCommittedIs
<1> HIDE DEF e
<1>4. Accepts(world, rn, G, e, rn') /\ AcceptsSteps(world, rn, ms, e, rn')
  BY <1>0, <1>1, <1>3, AcceptedIs
<1>10. /\ world.async => rn'.advancing = rn.advancing /\ rn'.stepsOnAdvance = rn.stepsOnAdvance
       /\ ~world.async =>
                /\ rn'.advancing = TRUE
                /\ rn'.stepsOnAdvance = x.resps
                        \o (IF e = << >> THEN << >> ELSE <<ApplyResp(e, rn.applying + 1)>>)
  BY <1>4 DEF AcceptsSteps
<1> HIDE DEF x
<1>5. \E D2, H2 : \/ needStorageAppend(x) /\ Longer(appendQ, D, H, x, G, hardState(rn), appendQ', D2, H2)
                  \/ ~needStorageAppend(x) /\ appendQ' = appendQ /\ D2 = D /\ H2 = H
  <2>1. CASE needStorageAppend(x)
    BY <2>1, <1>1 DEF Longer
  <2>2. CASE ~needStorageAppend(x)
    BY <2>2, <1>1
  <2> QED BY <2>1, <2>2
<1>6. PICK D2, H2 : \/ needStorageAppend(x) /\ Longer(appendQ, D, H, x, G, hardState(rn), appendQ', D2, H2)
                    \/ ~needStorageAppend(x) /\ appendQ' = appendQ /\ D2 = D /\ H2 = H
  BY <1>5
<1>7. ReadyTaken(world, rn, appendQ, applyQ, G, D, H, x, e, rn', appendQ', applyQ', D2, H2)
  BY <1>1, <1>2, <1>3, <1>4, <1>6, <1>10 DEF ReadyTaken
<1>8. Whole(world, rn', ms, appendQ', applyQ', appendResps, applyResps, sm, G, D2, H2)
  BY <1>0, <1>7, ReadyWhole
<1>9. StateInv(G, D2, H2)'
  BY <1>1, <1>8 DEF StateInv
<1> QED BY <1>9

\* The append thread saves write x: m becomes m2.
Wrote(m, x, m2) ==
    /\ m2 \in Storages /\ m2.hs = NextHS(m.hs, x)
    /\ x.snapshot = NoSnap => m2.index = m.index /\ m2.snapshot = m.snapshot
    /\ x.snapshot # NoSnap => m2.index = x.snapshot.index /\ m2.snapshot = x.snapshot

\* What appending to Storage does, when there is no gap.
StorageAppended(m, f, i, ents, x) ==
    /\ x \in Storages /\ x.hs = m.hs /\ x.snapshot = m.snapshot /\ x.index = m.index /\ x.term = m.term
    /\ ents = << >> => x.ents = m.ents
    /\ ents # << >> => /\ Len(x.ents) = f - i - 1 + Len(ents)
                       /\ \A k \in 1..(f - i - 1) : x.ents[k] = m.ents[k]
                       /\ \A k \in 1..Len(ents) : x.ents[f - i - 1 + k] = ents[k]
\* Entries from f on continue Storage m, or overwrite what it has.
NoGap(m, f, i) == i = m.index /\ i < f /\ f <= i + Len(m.ents) + 1

\* MemoryStorage.Append without a gap: the entries replace those from f on.
LEMMA StorageAppendIs ==
    ASSUME NEW m \in Storages, NEW f \in Nat, NEW ents \in Seq(Entry), NEW x, x = StorageAppend(m, f, ents),
           NEW i \in Nat, NoGap(m, f, i)
    PROVE  StorageAppended(m, f, i, ents, x)
<1>0. m.ents \in Seq(Entry) /\ m.index \in Nat
  BY StorageTypes
<1>g. i = m.index /\ i < f /\ f <= i + Len(m.ents) + 1
  BY DEF NoGap
<1>1. PICK n \in Nat : n = Len(ents)
  OBVIOUS
<1>2. PICK l \in Nat : l = Len(m.ents)
  BY <1>0
<1>3. x = IF n <= 0 THEN m
          ELSE [m EXCEPT !.ents = SubSeq(m.ents, 1, f - (i + 1)) \o SubSeq(ents, 1, n)]
  <2>1. PICK s : s = IF i + 1 > f THEN (i + 1) - f ELSE 0
    OBVIOUS
  <2>2. s = 0
    BY <2>1, <1>g
  <2>3. x = IF n <= s THEN m
            ELSE [m EXCEPT !.ents = SubSeq(@, 1, f + s - (i + 1)) \o SubSeq(ents, s + 1, n)]
    BY <1>1, <1>g, <2>1 DEF StorageAppend
  <2>4. f + s - (i + 1) = f - (i + 1) /\ s + 1 = 1
    BY <2>2
  <2> QED BY <2>2, <2>3, <2>4
<1>4. CASE ents = << >>
  <2>1. n = 0
    BY <1>1, <1>4
  <2> QED BY <1>3, <1>4, <2>1 DEF StorageAppended
<1>5. CASE ents # << >>
  <2>1. n > 0
    BY <1>1, <1>5, EmptySeq
  <2>2. PICK g \in Nat : g = f - (i + 1)
    BY <1>g
  <2>3. f - i - 1 = g /\ g <= l
    BY <2>2, <1>2, <1>g
  <2>4. PICK a : a = SubSeq(m.ents, 1, g)
    OBVIOUS
  <2>5. PICK b : b = SubSeq(ents, 1, n)
    OBVIOUS
  <2>6. a \in Seq(Entry) /\ Len(a) = g /\ \A k \in 1..g : a[k] = m.ents[k]
    BY <2>3, <2>4, <1>0, <1>2
  <2>7. b \in Seq(Entry) /\ Len(b) = n /\ \A k \in 1..n : b[k] = ents[k]
    BY <2>5, <1>1
  <2>8. /\ a \o b \in Seq(Entry) /\ Len(a \o b) = g + n
        /\ \A k \in 1..g : (a \o b)[k] = a[k]
        /\ \A k \in 1..n : (a \o b)[g + k] = b[k]
    <3>1. a \in Seq(Entry) /\ b \in Seq(Entry) /\ g = Len(a) /\ n = Len(b)
      BY <2>6, <2>7
    <3>2. a \o b \in Seq(Entry) /\ Len(a \o b) = g + n
      BY <3>1
    <3>3. \A k \in 1..g : (a \o b)[k] = a[k]
      BY <3>1
    <3>4. \A k \in 1..n : (a \o b)[g + k] = b[k]
      BY <3>1
    <3> QED BY <3>2, <3>3, <3>4
  <2>9. PICK c : c = a \o b
    OBVIOUS
  <2>10. x = [m EXCEPT !.ents = c]
    BY <1>3, <2>1, <2>2, <2>4, <2>5, <2>9
  <2>11. c \in Seq(Entry)
    BY <2>8, <2>9
  <2>12. /\ x \in Storages /\ x.hs = m.hs /\ x.snapshot = m.snapshot /\ x.index = m.index /\ x.term = m.term
         /\ x.ents = c
    BY <2>10, <2>11 DEF Storages
  <2>13. /\ Len(c) = g + n
         /\ \A k \in 1..g : c[k] = m.ents[k]
         /\ \A k \in 1..n : c[g + k] = ents[k]
    BY <2>6, <2>7, <2>8, <2>9
  <2> QED BY <2>3, <2>12, <2>13, <1>1, <1>5 DEF StorageAppended
<1> QED BY <1>4, <1>5

\* Saving write x turns the log d on disk into e.
LEMMA WrittenIs ==
    ASSUME NEW m \in Storages, NEW x \in Writes, NEW d \in Seq(Entry), NEW e \in Seq(Entry),
           Store(m, d), Saves(d, x, e), m.index < x.from,
           x.snapshot # NoSnap => m.snapshot.index < x.snapshot.index,
           NEW m2, m2 = Written(m, x)
    PROVE  Wrote(m, x, m2) /\ Store(m2, e)
<1>0. /\ x.hs \in HardStates /\ x.snapshot \in Snapshots /\ x.snapshot.index \in Nat /\ x.snapshot.term \in Nat
      /\ x.from \in Nat /\ x.ents \in Seq(Entry) /\ Len(x.ents) \in Nat
  BY DEF Writes, Snapshots
<1>1. PICK m1 : m1 = IF x.hs = EmptyHardState THEN m ELSE [m EXCEPT !.hs = x.hs]
  OBVIOUS
<1>2. /\ m1 \in Storages /\ m1.hs = NextHS(m.hs, x) /\ m1.snapshot = m.snapshot /\ m1.index = m.index
      /\ m1.term = m.term /\ m1.ents = m.ents
  <2>1. CASE x.hs = EmptyHardState
    BY <2>1, <1>1 DEF NextHS
  <2>2. CASE x.hs # EmptyHardState
    <3>1. m1 = [m EXCEPT !.hs = x.hs]
      BY <2>2, <1>1
    <3> QED BY <2>2, <3>1, <1>0 DEF NextHS, Storages
  <2> QED BY <2>1, <2>2
<1>3. PICK k2 : k2 = IF x.snapshot = NoSnap THEN m1 ELSE ApplySnapshot(m1, x.snapshot)
  OBVIOUS
<1>4. m2 = StorageAppend(k2, x.from, x.ents)
  BY <1>1, <1>3, Zenon DEF Written
<1>5. PICK f \in Nat : f = x.from
  BY <1>0
<1>6. PICK n \in Nat : n = Len(x.ents)
  BY <1>0
<1>e. PICK z \in Seq(Entry) : z = x.ents
  BY <1>0
<1>7. n = 0 <=> z = << >>
  BY <1>6, <1>e, EmptySeq
<1>8. CASE x.snapshot = NoSnap
  <2>1. k2 = m1
    BY <1>3, <1>8
  <2>2. PICK i \in Nat : i = m.index
    BY StorageTypes
  <2>3. PICK l \in Nat : l = Len(m.ents)
    BY StorageTypes
  <2>4. Len(d) = i + l /\ i < f
    BY <2>2, <2>3, <1>5 DEF Store
  <2>5. CASE z = << >>
    <3>1. e = d
      BY <2>5, <1>8, <1>e DEF Saves
    <3>2. m2 = m1
      <4>1. Len(x.ents) = 0
        BY <2>5, <1>e
      <4>2. PICK s \in Nat : s = IF i + 1 > f THEN (i + 1) - f ELSE 0
        BY <2>4
      <4>3. m2 = IF Len(x.ents) <= s THEN k2
                 ELSE [k2 EXCEPT !.ents = SubSeq(@, 1, f + s - (i + 1)) \o SubSeq(x.ents, s + 1, Len(x.ents))]
        BY <4>2, <2>1, <2>2, <1>2, <1>4, <1>5 DEF StorageAppend
      <4>4. 0 <= s
        BY <4>2
      <4> QED BY <4>1, <4>3, <4>4, <2>1
    <3> QED BY <3>1, <3>2, <1>2, <1>8 DEF Wrote, Store
  <2>6. CASE z # << >>
    <3>1. /\ Len(e) = f - 1 + n /\ Same(f - 1, d, e)
          /\ \A k \in 1..n : e[f - 1 + k] = z[k]
      BY <2>6, <1>e, <1>5, <1>6, <1>8 DEF Saves
    <3>2. f - 1 <= i + l
      BY <3>1, <2>4 DEF Same
    <3>3. f <= i + Len(m1.ents) + 1
      BY <3>2, <2>3, <1>2
    <3>4. m2 = StorageAppend(m1, f, z) /\ i = m1.index /\ i < f
      BY <1>2, <1>4, <1>5, <1>e, <2>1, <2>2, <2>4
    <3>5. /\ m2 \in Storages /\ m2.hs = m1.hs /\ m2.snapshot = m1.snapshot /\ m2.index = m1.index /\ m2.term = m1.term
          /\ Len(m2.ents) = f - i - 1 + Len(z)
          /\ \A k \in 1..(f - i - 1) : m2.ents[k] = m1.ents[k]
          /\ \A k \in 1..Len(z) : m2.ents[f - i - 1 + k] = z[k]
      <4>1. NoGap(m1, f, i)
        BY <3>3, <3>4 DEF NoGap
      <4>2. StorageAppended(m1, f, i, z, m2)
        BY <4>1, <3>4, <1>2, StorageAppendIs
      <4> QED BY <4>2, <2>6 DEF StorageAppended
    <3>6. PICK g \in Nat : g = f - i - 1
      BY <2>4
    <3>7. /\ Len(m2.ents) = g + n
          /\ \A k \in 1..g : m2.ents[k] = m.ents[k]
          /\ \A k \in 1..n : m2.ents[g + k] = z[k]
      BY <3>5, <3>6, <1>2, <1>6, <1>e
    <3>8. i + g = f - 1 /\ g <= l
      BY <3>2, <3>6
    <3>9. Len(e) = m2.index + Len(m2.ents)
      <4>1. m2.index = i
        BY <3>5, <1>2, <2>2
      <4>2. Len(e) = f - 1 + n /\ Len(m2.ents) = g + n
        BY <3>1, <3>7
      <4>3. f - 1 + n = i + (g + n)
        BY <3>8
      <4> QED BY <4>1, <4>2, <4>3
    <3>10. ASSUME NEW k \in 1..(g + n) PROVE m2.ents[k] = e[i + k]
      <4>1. CASE k <= g
        <5>1. k \in 1..g /\ k \in 1..l /\ i + k \in 1..(f - 1)
          BY <4>1, <3>8
        <5>2. m2.ents[k] = m.ents[k]
          BY <5>1, <3>7
        <5>3. m.ents[k] = d[i + k]
          BY <5>1, <2>2, <2>3 DEF Store
        <5>4. d[i + k] = e[i + k]
          BY <5>1, <3>1 DEF Same
        <5> QED BY <5>2, <5>3, <5>4
      <4>2. CASE k > g
        <5>1. PICK j \in 1..n : j = k - g
          BY <4>2
        <5>2. g + j = k /\ f - 1 + j = i + k
          BY <5>1, <3>8
        <5>3. m2.ents[g + j] = z[j] /\ e[f - 1 + j] = z[j]
          BY <5>1, <3>1, <3>7
        <5> QED BY <5>2, <5>3
      <4> QED BY <4>1, <4>2
    <3>11. m2.index = i /\ m2.term = m.term
      BY <3>5, <1>2, <2>2
    <3>12. i > 0 => m2.term = e[i].term
      <4>1. SUFFICES ASSUME i > 0 PROVE m2.term = e[i].term
        OBVIOUS
      <4>2. i \in 1..(f - 1)
        BY <4>1, <2>4
      <4>3. d[i] = e[i]
        BY <4>2, <3>1 DEF Same
      <4>4. m.term = d[i].term
        BY <4>1, <2>2 DEF Store
      <4> QED BY <4>3, <4>4, <3>11
    <3>13. i = 0 => m2.term = 0
      BY <3>11, <2>2 DEF Store
    <3>14. Store(m2, e)
      BY <3>7, <3>9, <3>10, <3>11, <3>12, <3>13 DEF Store
    <3> QED BY <3>5, <3>14, <1>2, <1>8 DEF Wrote
  <2> QED BY <2>5, <2>6
<1>9. CASE x.snapshot # NoSnap
  <2>1. PICK i \in Nat : i = x.snapshot.index
    BY <1>0
  <2>2. m1.snapshot.index < i
    BY <2>1, <1>2, <1>9
  <2>3. m1.snapshot.index \in Nat
    BY <1>2, StorageTypes
  <2>4. k2 = [m1 EXCEPT !.snapshot = x.snapshot, !.index = x.snapshot.index, !.term = x.snapshot.term, !.ents = << >>]
    <3>1. ~(m1.snapshot.index >= i) /\ i > 0
      BY <2>2, <2>3
    <3> QED BY <3>1, <2>1, <1>3, <1>9 DEF ApplySnapshot
  <2>5. << >> \in Seq(Entry)
    OBVIOUS
  <2>6. k2 \in Storages
    BY <2>4, <2>5, <1>0, <1>2 DEF Storages
  <2>7. /\ k2.hs = m1.hs /\ k2.snapshot = x.snapshot /\ k2.index = i /\ k2.term = x.snapshot.term
        /\ k2.ents = << >>
    BY <2>1, <2>4, <1>2 DEF Storages
  <2>8. f = i + 1 /\ e[i].term = x.snapshot.term /\ Len(e) = f - 1 + n /\ \A k \in 1..n : e[f - 1 + k] = z[k]
    BY <2>1, <1>5, <1>6, <1>e, <1>9 DEF Saves
  <2>9. i < f /\ f <= i + Len(k2.ents) + 1
    BY <2>7, <2>8
  <2>10. /\ m2 \in Storages /\ m2.hs = k2.hs /\ m2.snapshot = k2.snapshot /\ m2.index = k2.index /\ m2.term = k2.term
         /\ z = << >> => m2.ents = k2.ents
         /\ z # << >> => /\ Len(m2.ents) = f - i - 1 + Len(z)
                         /\ \A k \in 1..Len(z) : m2.ents[f - i - 1 + k] = z[k]
    <3>1. m2 = StorageAppend(k2, f, z) /\ i = k2.index
      BY <1>4, <1>5, <1>e, <2>7
    <3>2. NoGap(k2, f, i)
      BY <3>1, <2>9 DEF NoGap
    <3>3. StorageAppended(k2, f, i, z, m2)
      BY <3>1, <3>2, <2>6, StorageAppendIs
    <3> QED BY <3>3 DEF StorageAppended
  <2>11. Len(m2.ents) = n /\ \A k \in 1..n : m2.ents[k] = z[k]
    <3>1. CASE z = << >>
      <4>1. m2.ents = << >> /\ n = 0
        BY <3>1, <2>7, <2>10, <1>7
      <4> QED BY <4>1
    <3>2. CASE z # << >>
      <4>1. f - i - 1 = 0
        BY <2>8
      <4>2. \A k \in 1..n : 0 + k = k
        OBVIOUS
      <4> QED BY <4>1, <4>2, <3>2, <2>10, <1>6, <1>e
    <3> QED BY <3>1, <3>2
  <2>12. Store(m2, e)
    <3>1. m2.index = i /\ i > 0 /\ f - 1 = i
      BY <2>2, <2>3, <2>7, <2>8, <2>10
    <3>2. m2.term = e[i].term
      BY <2>7, <2>8, <2>10
    <3>3. Len(e) = m2.index + Len(m2.ents)
      BY <3>1, <2>8, <2>11
    <3>4. \A k \in 1..n : m2.ents[k] = e[m2.index + k]
      BY <3>1, <2>8, <2>11
    <3> QED BY <3>1, <3>2, <3>3, <3>4, <2>11 DEF Store
  <2> QED BY <2>1, <2>7, <2>10, <2>12, <1>2, <1>9 DEF Wrote
<1> QED BY <1>8, <1>9

\* The queue without its first write, and the disk from then on.
Shifted(q, D, H, q2, D2, H2) ==
    /\ q \in Seq(Writes) /\ q # << >> /\ q2 = Tail(q)
    /\ D2 = [k \in 0..(Len(q) - 1) |-> D[k + 1]]
    /\ H2 = [k \in 0..(Len(q) - 1) |-> H[k + 1]]
\* The same, element by element; n is the length of what is left.
ShiftedBy(q, D, H, q2, D2, H2, n) ==
    /\ Len(q) = n + 1 /\ q2 \in Seq(Writes) /\ Len(q2) = n /\ q[1] \in Writes
    /\ \A k \in 1..n : k + 1 \in 1..(n + 1) /\ q2[k] = q[k + 1]
    /\ \A k \in 0..n : k + 1 \in 0..(n + 1) /\ D2[k] = D[k + 1] /\ H2[k] = H[k + 1]
    /\ D2 = [k \in 0..n |-> D[k + 1]] /\ H2 = [k \in 0..n |-> H[k + 1]]

\* The elements of the shorter queue.
LEMMA ShiftedIs ==
    ASSUME NEW q, NEW D, NEW H, NEW q2, NEW D2, NEW H2, Shifted(q, D, H, q2, D2, H2)
    PROVE  \E n \in Nat : ShiftedBy(q, D, H, q2, D2, H2, n)
<1>0. q \in Seq(Writes) /\ q # << >> /\ q2 = Tail(q)
  BY DEF Shifted
<1>1. PICK l \in Nat : l = Len(q)
  BY <1>0
<1>2. /\ Tail(q) \in Seq(Writes) /\ Len(Tail(q)) = l - 1 /\ l - 1 \in Nat /\ l >= 1
      /\ \A k \in 1..(l - 1) : Tail(q)[k] = q[k + 1] /\ k + 1 \in 1..l
      /\ q[1] \in Writes
  BY <1>0, <1>1, TailIs
<1>3. PICK n \in Nat : n = l - 1
  BY <1>2
<1>4. l = n + 1
  BY <1>3
<1>5. /\ D2 = [k \in 0..n |-> D[k + 1]] /\ H2 = [k \in 0..n |-> H[k + 1]]
  BY <1>1, <1>3 DEF Shifted
<1>6. \A k \in 0..n : k + 1 \in 0..(n + 1) /\ D2[k] = D[k + 1] /\ H2[k] = H[k + 1]
  BY <1>5
<1>7. ShiftedBy(q, D, H, q2, D2, H2, n)
  BY <1>0, <1>1, <1>2, <1>3, <1>4, <1>5, <1>6 DEF ShiftedBy
<1> QED BY <1>7

\* Nothing is to come after a write: the same before and after the shift.
LEMMA ShiftedRel ==
    ASSUME NEW q, NEW D, NEW H, NEW q2, NEW D2, NEW H2, NEW n \in Nat, ShiftedBy(q, D, H, q2, D2, H2, n),
           NEW r, NEW k \in 0..n
    PROVE  Rel(r, q2, k) <=> Rel(r, q, k + 1)
<1>1. \A j \in (k + 1)..n : j \in 1..n /\ j + 1 \in (k + 2)..(n + 1) /\ q2[j] = q[j + 1]
  BY DEF ShiftedBy
<1>2. \A j \in (k + 2)..(n + 1) : j - 1 \in (k + 1)..n /\ q2[j - 1] = q[j]
  <2>1. SUFFICES ASSUME NEW j \in (k + 2)..(n + 1) PROVE j - 1 \in (k + 1)..n /\ q2[j - 1] = q[j]
    OBVIOUS
  <2>2. j - 1 \in (k + 1)..n /\ j - 1 + 1 = j
    OBVIOUS
  <2> QED BY <2>2, <1>1
<1>3. Len(q2) = n /\ Len(q) = n + 1 /\ k + 1 + 1 = k + 2
  BY DEF ShiftedBy
<1> QED BY <1>1, <1>2, <1>3 DEF Rel

\* What is known of the first write.
First(w, r, m, q, a, x) ==
    /\ x \in Writes /\ x.from \in Nat /\ x.snapshot \in Snapshots /\ x.snapshot.index \in Nat
    /\ m.index < x.from
    /\ x.snapshot # NoSnap =>
        /\ m.snapshot.index < x.snapshot.index /\ a < x.snapshot.index
        /\ r.snapshot # NoSnap /\ x.snapshot.index <= r.snapshot.index
        /\ ~r.snapshotInProgress => x.snapshot.index < r.snapshot.index
        /\ r.applying < x.snapshot.index
        /\ x.resps # << >>
    /\ Len(x.resps) <= 1
    /\ x.resps # << >> => x.resps[1].snapshot = x.snapshot
    /\ w.async => r.applying < x.from

\* What the invariant says of the first write.
LEMMA FirstWrite ==
    ASSUME NEW w, NEW r, NEW m, NEW q, NEW a, NEW G, NEW D, NEW H, Core(w, r, m, q, a, G, D, H),
           NEW x, 1 \in 1..Len(q), x = q[1]
    PROVE  First(w, r, m, q, a, x)
<1>0. /\ q \in Seq(Writes) /\ Queue(m, q, a) /\ Link(w, r, m, q, G, D) /\ m \in Storages /\ a \in Nat
  BY DEF Core
<1>1. x \in Writes /\ x.from \in Nat /\ x.snapshot \in Snapshots /\ x.snapshot.index \in Nat
  BY <1>0, WriteTypes
<1>2. m.index < x.from /\ Len(x.resps) <= 1 /\ (x.resps # << >> => x.resps[1].snapshot = x.snapshot)
  BY <1>0 DEF Queue
<1>3. ASSUME x.snapshot # NoSnap
      PROVE  /\ m.snapshot.index < x.snapshot.index /\ a < x.snapshot.index
             /\ x.resps # << >>
  <2>1. a < x.snapshot.index /\ x.resps # << >> /\ m.snapshot.index <= a
    BY <1>0, <1>3 DEF Queue
  <2>2. m.snapshot.index \in Nat
    BY <1>0, StorageTypes
  <2> QED BY <2>1, <2>2, <1>0, <1>1
<1>4. x.snapshot # NoSnap =>
        /\ r.snapshot # NoSnap /\ x.snapshot.index <= r.snapshot.index
        /\ ~r.snapshotInProgress => x.snapshot.index < r.snapshot.index
        /\ r.applying < x.snapshot.index
  BY <1>0 DEF Link
<1>5. w.async => r.applying < x.from
  BY <1>0 DEF Link
<1> QED BY <1>1, <1>2, <1>3, <1>4, <1>5 DEF First

\* The append thread has saved the first write.
Saved(r, m, q, a, D, H, x, m2, q2, a2, D2, H2) ==
    /\ Shifted(q, D, H, q2, D2, H2) /\ x = q[1] /\ m2 = Written(m, x)
    /\ a2 = MaxOf(a, x.snapshot.index)

\* The disk after the first write, and after those left.
LEMMA SavedDisks ==
    ASSUME NEW w, NEW r, NEW m, NEW q, NEW a, NEW G, NEW D, NEW H, Core(w, r, m, q, a, G, D, H),
           NEW x, NEW m2, NEW q2, NEW a2, NEW D2, NEW H2, Saved(r, m, q, a, D, H, x, m2, q2, a2, D2, H2)
    PROVE  Wrote(m, x, m2) /\ Disks(w, m2, q2, D2, H2) /\ H2[Len(q2)] = r.prevHardSt
<1>0. /\ q \in Seq(Writes) /\ m \in Storages /\ Disks(w, m, q, D, H) /\ H[Len(q)] = r.prevHardSt
  BY DEF Core
<1>1. PICK n \in Nat : ShiftedBy(q, D, H, q2, D2, H2, n)
  BY ShiftedIs DEF Saved
<1>2. Len(q) = n + 1 /\ 1 \in 1..(n + 1) /\ 0 \in 0..(n + 1) /\ 1 \in 0..(n + 1) /\ 0 \in 0..n /\ Len(q2) = n
  BY <1>1 DEF ShiftedBy
<1>3. x = q[1] /\ m2 = Written(m, x)
  BY DEF Saved
<1>4. First(w, r, m, q, a, x)
  BY <1>2, <1>3, FirstWrite
<1>5. D \in [0..(n + 1) -> Seq(Entry)] /\ H \in [0..(n + 1) -> HardStates]
  BY <1>0, <1>2 DEF Disks
<1>6. D[0] \in Seq(Entry) /\ D[1] \in Seq(Entry)
  BY <1>2, <1>5
<1>7. Store(m, D[0]) /\ Saves(D[0], x, D[1]) /\ H[0] = m.hs /\ H[1] = NextHS(H[0], x)
  <2>1. 1 - 1 = 0
    OBVIOUS
  <2> QED BY <2>1, <1>0, <1>2, <1>3 DEF Disks
<1>8. Wrote(m, x, m2) /\ Store(m2, D[1])
  BY <1>0, <1>3, <1>4, <1>6, <1>7, WrittenIs DEF First
<1>9. D2 \in [0..n -> Seq(Entry)] /\ H2 \in [0..n -> HardStates]
  <2>1. D2 = [k \in 0..n |-> D[k + 1]] /\ H2 = [k \in 0..n |-> H[k + 1]] /\ \A k \in 0..n : k + 1 \in 0..(n + 1)
    BY <1>1 DEF ShiftedBy
  <2> QED BY <2>1, <1>5
<1>10. \A k \in 0..n : k + 1 \in 0..(n + 1) /\ D2[k] = D[k + 1] /\ H2[k] = H[k + 1]
  BY <1>1 DEF ShiftedBy
<1>11. D2[0] = D[1] /\ H2[0] = H[1]
  <2>1. 0 + 1 = 1
    OBVIOUS
  <2> QED BY <2>1, <1>2, <1>10
<1>12. Store(m2, D2[0]) /\ H2[0] = m2.hs
  BY <1>7, <1>8, <1>11 DEF Wrote
<1>13. \A k \in 0..n : /\ Sound(w, D2[k]) /\ CommitOK(w, D2[k], H2[k].Term, H2[k].commit)
                       /\ H2[k].Term > 0 => H2[k].Term \in DOMAIN w.log
  <2>1. \A k \in 0..(n + 1) : /\ Sound(w, D[k]) /\ CommitOK(w, D[k], H[k].Term, H[k].commit)
                              /\ H[k].Term > 0 => H[k].Term \in DOMAIN w.log
    BY <1>0, <1>2 DEF Disks
  <2> QED BY <2>1, <1>10
<1>14. ASSUME NEW k \in 1..n
       PROVE  /\ Saves(D2[k - 1], q2[k], D2[k]) /\ H2[k] = NextHS(H2[k - 1], q2[k])
              /\ H2[k - 1].commit <= H2[k].commit
              /\ q2[k].snapshot.index <= H2[k].commit
  <2>1. q2[k] = q[k + 1] /\ k + 1 \in 1..(n + 1)
    BY <1>1 DEF ShiftedBy
  <2>2. k - 1 \in 0..n /\ k \in 0..n /\ k - 1 + 1 = k /\ k + 1 - 1 = k
    OBVIOUS
  <2>3. D2[k - 1] = D[k] /\ H2[k - 1] = H[k] /\ D2[k] = D[k + 1] /\ H2[k] = H[k + 1]
    BY <2>2, <1>10
  <2>4. /\ Saves(D[k], q[k + 1], D[k + 1]) /\ H[k + 1] = NextHS(H[k], q[k + 1])
        /\ H[k].commit <= H[k + 1].commit
        /\ q[k + 1].snapshot.index <= H[k + 1].commit
    <3>1. PICK j \in 1..(n + 1) : j = k + 1
      BY <2>1
    <3>2. j - 1 = k
      BY <3>1
    <3>3. /\ Saves(D[j - 1], q[j], D[j]) /\ H[j] = NextHS(H[j - 1], q[j])
          /\ H[j - 1].commit <= H[j].commit
          /\ q[j].snapshot.index <= H[j].commit
      BY <1>0, <1>2 DEF Disks
    <3> QED BY <3>1, <3>2, <3>3
  <2> QED BY <2>1, <2>3, <2>4
<1>15. Disks(w, m2, q2, D2, H2)
  BY <1>2, <1>9, <1>12, <1>13, <1>14 DEF Disks
<1>16. H2[n] = H[n + 1]
  <2>1. n \in 0..n
    OBVIOUS
  <2> QED BY <2>1, <1>10
<1> QED BY <1>0, <1>2, <1>8, <1>15, <1>16

\* How far the state machine is, after the first write.
LEMMA SavedIndex ==
    ASSUME NEW w, NEW r, NEW m, NEW q, NEW a, NEW G, NEW D, NEW H, Core(w, r, m, q, a, G, D, H),
           NEW x, NEW m2, NEW q2, NEW a2, NEW D2, NEW H2, Saved(r, m, q, a, D, H, x, m2, q2, a2, D2, H2)
    PROVE  /\ a \in Nat /\ a2 \in Nat /\ a <= a2 /\ First(w, r, m, q, a, x) /\ x.snapshot.index <= a2
           /\ x.snapshot = NoSnap => a2 = a
           /\ x.snapshot # NoSnap => a2 = x.snapshot.index
<1>1. PICK n \in Nat : ShiftedBy(q, D, H, q2, D2, H2, n)
  BY ShiftedIs DEF Saved
<1>2. 1 \in 1..Len(q)
  BY <1>1 DEF ShiftedBy
<1>3. First(w, r, m, q, a, x)
  BY <1>2, FirstWrite DEF Saved
<1>4. PICK s \in Nat : s = x.snapshot.index
  BY <1>3 DEF First
<1>5. a \in Nat /\ a2 = MaxOf(a, s)
  BY <1>4 DEF Core, Saved
<1>6. x.snapshot = NoSnap => s = 0
  BY <1>4 DEF NoSnap
<1>7. x.snapshot # NoSnap => a < s
  BY <1>3, <1>4 DEF First
<1> QED BY <1>3, <1>4, <1>5, <1>6, <1>7 DEF MaxOf

\* The shorter queue is in order.
LEMMA SavedQueue ==
    ASSUME NEW w, NEW r, NEW m, NEW q, NEW a, NEW G, NEW D, NEW H, Core(w, r, m, q, a, G, D, H),
           NEW x, NEW m2, NEW q2, NEW a2, NEW D2, NEW H2, Saved(r, m, q, a, D, H, x, m2, q2, a2, D2, H2)
    PROVE  Queue(m2, q2, a2)
<1>0. /\ q \in Seq(Writes) /\ m \in Storages /\ Disks(w, m, q, D, H) /\ Queue(m, q, a) /\ x = q[1]
  BY DEF Core, Saved
<1>1. PICK n \in Nat : ShiftedBy(q, D, H, q2, D2, H2, n)
  BY ShiftedIs DEF Saved
<1>2. /\ Len(q) = n + 1 /\ 1 \in 1..(n + 1) /\ Len(q2) = n /\ q2 \in Seq(Writes) /\ 1 \in 0..(n + 1)
      /\ 0 \in 0..(n + 1)
  BY <1>1 DEF ShiftedBy
<1>3. /\ a \in Nat /\ a2 \in Nat /\ a <= a2 /\ First(w, r, m, q, a, x) /\ x.snapshot.index <= a2
      /\ x.snapshot = NoSnap => a2 = a
      /\ x.snapshot # NoSnap => a2 = x.snapshot.index
  BY SavedIndex
<1>4. Wrote(m, x, m2)
  BY SavedDisks
<1>5. /\ m.index \in Nat /\ m.snapshot.index \in Nat /\ m2 \in Storages /\ x.snapshot.index \in Nat
      /\ m2.index \in Nat /\ m2.snapshot.index \in Nat /\ m2.hs.commit \in Nat /\ m.hs.commit \in Nat
  BY <1>0, <1>3, <1>4, StorageTypes DEF Wrote, First
<1>6. m2.index <= m2.snapshot.index /\ m2.snapshot.index <= a2
  <2>1. m.index <= m.snapshot.index /\ m.snapshot.index <= a
    BY <1>0 DEF Queue
  <2>2. CASE x.snapshot = NoSnap
    BY <2>1, <2>2, <1>3, <1>4, <1>5 DEF Wrote
  <2>3. CASE x.snapshot # NoSnap
    <3>1. m2.index = x.snapshot.index /\ m2.snapshot = x.snapshot
      BY <2>3, <1>4 DEF Wrote
    <3> QED BY <3>1, <1>3, <1>5
  <2> QED BY <2>2, <2>3
<1>7. CarefulSnapshots => m2.snapshot.index <= m2.hs.commit
  <2>1. m2.hs = H[1] /\ m.hs = H[0]
    <3>1. 1 - 1 = 0
      OBVIOUS
    <3>2. H[0] = m.hs /\ H[1] = NextHS(H[0], x)
      BY <3>1, <1>0, <1>2 DEF Disks
    <3> QED BY <3>2, <1>4 DEF Wrote
  <2>2. H[0].commit <= H[1].commit /\ x.snapshot.index <= H[1].commit
    <3>1. 1 - 1 = 0
      OBVIOUS
    <3> QED BY <3>1, <1>0, <1>2 DEF Disks
  <2>3. CarefulSnapshots => m.snapshot.index <= m.hs.commit
    BY <1>0 DEF Queue
  <2>4. CASE x.snapshot = NoSnap
    <3>1. m2.snapshot = m.snapshot
      BY <2>4, <1>4 DEF Wrote
    <3>2. m.hs.commit <= m2.hs.commit
      BY <2>1, <2>2
    <3> QED BY <3>1, <3>2, <2>3, <1>5
  <2>5. CASE x.snapshot # NoSnap
    BY <2>5, <2>1, <2>2, <1>4 DEF Wrote
  <2> QED BY <2>4, <2>5
<1>8. ASSUME NEW k \in 1..n
      PROVE  /\ m2.index < q2[k].from
             /\ Len(q2[k].resps) <= 1
             /\ q2[k].resps # << >> => q2[k].resps[1].snapshot = q2[k].snapshot
             /\ q2[k].snapshot # NoSnap => q2[k].resps # << >> /\ a2 < q2[k].snapshot.index
  <2>1. q2[k] = q[k + 1] /\ k + 1 \in 1..(n + 1) /\ 1 < k + 1
    BY <1>1 DEF ShiftedBy
  <2>2. PICK y : y = q[k + 1]
    OBVIOUS
  <2>3. /\ m.index < y.from /\ Len(y.resps) <= 1
        /\ y.resps # << >> => y.resps[1].snapshot = y.snapshot
        /\ y.snapshot # NoSnap => y.resps # << >> /\ a < y.snapshot.index
    BY <2>1, <2>2, <1>0, <1>2 DEF Queue
  <2>4. x.snapshot.index < y.from /\ (y.snapshot # NoSnap => x.snapshot.index < y.snapshot.index)
    BY <2>1, <2>2, <1>0, <1>2 DEF Queue
  <2>5. m2.index < y.from
    BY <2>3, <2>4, <1>4 DEF Wrote
  <2>6. y.snapshot # NoSnap => a2 < y.snapshot.index
    BY <2>3, <2>4, <1>3
  <2> QED BY <2>1, <2>2, <2>3, <2>5, <2>6
<1>9. ASSUME NEW j \in 1..n, NEW k \in 1..n, j < k
      PROVE  /\ q2[j].snapshot.index < q2[k].from
             /\ q2[k].snapshot # NoSnap => q2[j].snapshot.index < q2[k].snapshot.index
  <2>1. /\ q2[k] = q[k + 1] /\ k + 1 \in 1..(n + 1)
        /\ q2[j] = q[j + 1] /\ j + 1 \in 1..(n + 1)
    BY <1>1 DEF ShiftedBy
  <2>2. j + 1 < k + 1
    BY <1>9
  <2> QED BY <2>1, <2>2, <1>0, <1>2 DEF Queue
<1> QED BY <1>2, <1>6, <1>7, <1>8, <1>9 DEF Queue

\* The shorter queue still ends with the log in memory.
LEMMA SavedLink ==
    ASSUME NEW w, NEW r, NEW m, NEW q, NEW a, NEW G, NEW D, NEW H, Core(w, r, m, q, a, G, D, H),
           NEW x, NEW m2, NEW q2, NEW a2, NEW D2, NEW H2, Saved(r, m, q, a, D, H, x, m2, q2, a2, D2, H2)
    PROVE  Link(w, r, m2, q2, G, D2)
<1>0. /\ q \in Seq(Writes) /\ m \in Storages /\ Link(w, r, m, q, G, D) /\ x = q[1] /\ r \in Nodes
  BY DEF Core, Saved
<1>1. PICK n \in Nat : ShiftedBy(q, D, H, q2, D2, H2, n)
  BY ShiftedIs DEF Saved
<1>2. /\ Len(q) = n + 1 /\ 1 \in 1..(n + 1) /\ Len(q2) = n /\ 0 \in 0..n
  BY <1>1 DEF ShiftedBy
<1>3. First(w, r, m, q, a, x)
  BY SavedIndex
<1>4. Wrote(m, x, m2)
  BY SavedDisks
<1>5. \A k \in 0..n : Rel(r, q2, k) <=> Rel(r, q, k + 1)
  BY <1>1, ShiftedRel
<1>6. /\ m.index \in Nat /\ r.applied \in Nat /\ r.snapshot.index \in Nat /\ x.snapshot.index \in Nat
  BY <1>0, <1>3, StorageTypes, NodeTypes DEF First
<1>7. m2.index <= MaxOf(r.applied, r.snapshot.index)
  <2>1. m.index <= MaxOf(r.applied, r.snapshot.index)
    BY <1>0 DEF Link
  <2>2. CASE x.snapshot = NoSnap
    BY <2>1, <2>2, <1>4 DEF Wrote
  <2>3. CASE x.snapshot # NoSnap
    <3>1. m2.index = x.snapshot.index /\ x.snapshot.index <= r.snapshot.index
      BY <2>3, <1>3, <1>4 DEF Wrote, First
    <3> QED BY <3>1, <1>6 DEF MaxOf
  <2> QED BY <2>2, <2>3
<1>8. ASSUME Rel(r, q2, 0), r.snapshot # NoSnap PROVE m2.index = r.snapshot.index
  <2>1. Rel(r, q, 1)
    <3>1. 0 + 1 = 1
      OBVIOUS
    <3> QED BY <3>1, <1>2, <1>5, <1>8
  <2>2. CASE x.snapshot = NoSnap
    <3>1. Rel(r, q, 0)
      <4>1. \A j \in (0 + 1)..Len(q) : j = 1 \/ j \in (1 + 1)..Len(q)
        BY <1>2
      <4> QED BY <4>1, <2>1, <2>2, <1>0 DEF Rel
    <3> QED BY <3>1, <2>2, <1>0, <1>4, <1>8 DEF Link, Wrote
  <2>3. CASE x.snapshot # NoSnap
    <3>1. x.snapshot = r.snapshot
      BY <2>1, <2>3, <1>0, <1>2 DEF Link
    <3> QED BY <2>3, <3>1, <1>4 DEF Wrote
  <2> QED BY <2>2, <2>3
<1>9. ASSUME NEW k \in 0..n, Rel(r, q2, k) PROVE Same(r.offset - 1, D2[k], G)
  <2>1. k + 1 \in 0..(n + 1) /\ D2[k] = D[k + 1]
    BY <1>1 DEF ShiftedBy
  <2>2. Rel(r, q, k + 1)
    BY <1>5, <1>9
  <2> QED BY <2>1, <2>2, <1>0, <1>2 DEF Link
<1>10. ASSUME NEW k \in 1..n
       PROVE  /\ Rel(r, q2, k) =>
                    /\ r.offset <= q2[k].from
                    /\ q2[k].ents # << >> => r.offset <= Len(G)
                    /\ q2[k].snapshot # NoSnap => q2[k].snapshot = r.snapshot
              /\ (IF w.async THEN r.applying ELSE r.applied) < q2[k].from
              /\ q2[k].snapshot # NoSnap =>
                    /\ r.snapshot # NoSnap
                    /\ q2[k].snapshot.index <= r.snapshot.index
                    /\ ~r.snapshotInProgress => q2[k].snapshot.index < r.snapshot.index
                    /\ r.applying < q2[k].snapshot.index
  <2>1. q2[k] = q[k + 1] /\ k + 1 \in 1..(n + 1)
    BY <1>1 DEF ShiftedBy
  <2>2. k \in 0..n
    OBVIOUS
  <2>3. Rel(r, q2, k) => Rel(r, q, k + 1)
    BY <2>2, <1>5
  <2> QED BY <2>1, <2>3, <1>0, <1>2 DEF Link
<1>11. ~hasNextSnapshot(r) =>
        /\ Same(r.offsetInProgress - 1, D2[n], G)
        /\ r.offsetInProgress = Len(G) + 1 => D2[n] = G
  <2>1. n \in 0..n
    OBVIOUS
  <2>2. D2[n] = D[n + 1]
    BY <2>1, <1>1 DEF ShiftedBy
  <2> QED BY <2>2, <1>0, <1>2 DEF Link
<1> QED BY <1>2, <1>7, <1>8, <1>9, <1>10, <1>11 DEF Link

\* Saving the first write keeps Core.
LEMMA SavedCore ==
    ASSUME NEW w, NEW r, NEW m, NEW q, NEW a, NEW G, NEW D, NEW H, Core(w, r, m, q, a, G, D, H),
           NEW x, NEW m2, NEW q2, NEW a2, NEW D2, NEW H2, Saved(r, m, q, a, D, H, x, m2, q2, a2, D2, H2)
    PROVE  Core(w, r, m2, q2, a2, G, D2, H2)
<1>1. /\ a \in Nat /\ a2 \in Nat /\ a <= a2 /\ First(w, r, m, q, a, x)
      /\ x.snapshot = NoSnap => a2 = a
      /\ x.snapshot # NoSnap => a2 = x.snapshot.index
  BY SavedIndex
<1>2. Wrote(m, x, m2) /\ Disks(w, m2, q2, D2, H2) /\ H2[Len(q2)] = r.prevHardSt
  BY SavedDisks
<1>3. Queue(m2, q2, a2) /\ Link(w, r, m2, q2, G, D2)
  BY SavedQueue, SavedLink
<1>4. m2 \in Storages /\ q2 \in Seq(Writes)
  <2>1. \E n \in Nat : ShiftedBy(q, D, H, q2, D2, H2, n)
    BY ShiftedIs DEF Saved
  <2> QED BY <2>1, <1>2 DEF ShiftedBy, Wrote
<1>5. Ahead(r, a2)
  <2>1. Ahead(r, a)
    BY DEF Core
  <2>2. CASE x.snapshot = NoSnap
    BY <2>1, <2>2, <1>1
  <2>3. CASE x.snapshot # NoSnap
    BY <2>3, <1>1 DEF Ahead, First, hasNextSnapshot
  <2> QED BY <2>2, <2>3
<1> QED BY <1>1, <1>2, <1>3, <1>4, <1>5 DEF Core

\* A response on its way stays right when the first write is saved.
LEMMA SavedResponse ==
    ASSUME NEW q, NEW D, NEW H, NEW q2, NEW D2, NEW H2, NEW n \in Nat, ShiftedBy(q, D, H, q2, D2, H2, n),
           NEW w, NEW r, NEW G, NEW y, NEW p \in Nat, NEW p2 \in 0..n, p <= p2 + 1, NEW c, NEW c2,
           r.snapshot # NoSnap /\ c => c2, Response(w, r, q, G, D, y, p, c)
    PROVE  Response(w, r, q2, G, D2, y, p2, c2)
<1>1. \A k \in (p2 + 1)..n : k + 1 \in (p + 1)..(n + 1) /\ q2[k] = q[k + 1]
  BY DEF ShiftedBy
<1>2. \A k \in p2..n : k + 1 \in p..(n + 1) /\ D2[k] = D[k + 1]
  BY DEF ShiftedBy
<1>3. Len(q) = n + 1 /\ Len(q2) = n
  BY DEF ShiftedBy
<1>4. Has(r, q, G, D, y, p) => Has(r, q2, G, D2, y, p2)
  <2>1. Rel(r, q, p) => Rel(r, q2, p2)
    BY <1>1, <1>3 DEF Rel
  <2>2. \A k \in p2..n : (\A l \in p..(n + 1) : Same(y.index, D[l], G)) => Same(y.index, D2[k], G)
    BY <1>2
  <2> QED BY <2>1, <2>2, <1>1, <1>3 DEF Has
<1>5. \A k \in (p2 + 1)..Len(q2) :
        /\ y.snapshot.index < q2[k].from
        /\ q2[k].snapshot # NoSnap => y.snapshot.index < q2[k].snapshot.index
  BY <1>1, <1>3 DEF Response
<1> QED BY <1>4, <1>5 DEF Response

\* The responses with that of the first write.
Answered(rs, x, rs2) == rs2 = rs \o x.resps
\* With its response on its way, the responses are true.
LEMMA SavedAsync ==
    ASSUME NEW w, NEW r, NEW m, NEW q, NEW a, NEW G, NEW D, NEW H, Core(w, r, m, q, a, G, D, H),
           NEW x, NEW m2, NEW q2, NEW a2, NEW D2, NEW H2, Saved(r, m, q, a, D, H, x, m2, q2, a2, D2, H2),
           NEW rs \in Seq(AppendResps), AsyncResponses(w, r, q, rs, a, G, D), NEW rs2, Answered(rs, x, rs2)
    PROVE  AsyncResponses(w, r, q2, rs2, a2, G, D2) /\ rs2 \in Seq(AppendResps)
<1>0. /\ q \in Seq(Writes) /\ x = q[1] /\ r \in Nodes /\ Pending(r, G)
  BY DEF Core, Saved
<1>1. PICK n \in Nat : ShiftedBy(q, D, H, q2, D2, H2, n)
  BY ShiftedIs DEF Saved
<1>2. /\ Len(q) = n + 1 /\ 1 \in 1..(n + 1) /\ Len(q2) = n /\ 0 \in 0..n
      /\ \A k \in 1..n : k + 1 \in 1..(n + 1) /\ q2[k] = q[k + 1]
  BY <1>1 DEF ShiftedBy
<1>3. /\ a \in Nat /\ a2 \in Nat /\ a <= a2 /\ First(w, r, m, q, a, x) /\ x.snapshot.index <= a2
  BY SavedIndex
<1>4. x.resps \in Seq(AppendResps)
  BY <1>3 DEF First, Writes
<1>5. PICK l \in Nat : l = Len(rs)
  OBVIOUS
<1>6. PICK v \in Nat : v = Len(x.resps)
  BY <1>4
<1>7. v <= 1 /\ (x.resps = << >> <=> v = 0)
  BY <1>3, <1>4, <1>6, EmptySeq DEF First
<1>8. /\ rs2 \in Seq(AppendResps) /\ Len(rs2) = l + v
      /\ \A i \in 1..l : rs2[i] = rs[i]
      /\ \A i \in 1..v : rs2[l + i] = x.resps[i]
  <2>1. PICK z \in Seq(AppendResps) : z = x.resps
    BY <1>4
  <2>2. v = Len(z) /\ rs2 = rs \o z
    BY <2>1, <1>6 DEF Answered
  <2>3. /\ rs \o z \in Seq(AppendResps) /\ Len(rs \o z) = l + v
        /\ \A i \in 1..l : (rs \o z)[i] = rs[i]
        /\ \A i \in 1..v : (rs \o z)[l + i] = z[i]
    BY <2>2, <1>5, JoinIs
  <2> QED BY <2>1, <2>2, <2>3
<1>9. \A i \in 1..l : CarriedBy(r, rs, i) => CarriedBy(r, rs2, i)
  <2>1. SUFFICES ASSUME NEW i \in 1..l, CarriedBy(r, rs, i) PROVE CarriedBy(r, rs2, i)
    OBVIOUS
  <2>2. \A j \in 1..i : j \in 1..l
    OBVIOUS
  <2> QED BY <2>1, <2>2, <1>8 DEF CarriedBy
<1>10. CarriedBy(r, rs, l) => CarriedBy(r, rs2, l + v)
  <2>1. \A j \in 1..l : j \in 1..(l + v) /\ rs2[j] = rs[j]
    BY <1>8
  <2> QED BY <2>1 DEF CarriedBy
<1>11. r.snapshot # NoSnap /\ x.snapshot = r.snapshot => v = 1 /\ CarriedBy(r, rs2, l + v)
  <2>1. SUFFICES ASSUME r.snapshot # NoSnap, x.snapshot = r.snapshot PROVE v = 1 /\ CarriedBy(r, rs2, l + v)
    OBVIOUS
  <2>2. x.resps # << >> /\ x.resps[1].snapshot = x.snapshot
    BY <2>1, <1>3 DEF First
  <2>3. v = 1
    BY <2>2, <1>7
  <2>4. l + 1 \in 1..(l + v) /\ rs2[l + 1] = x.resps[1]
    BY <2>3, <1>8
  <2> QED BY <2>1, <2>2, <2>3, <2>4 DEF CarriedBy
<1>12. \A k \in 0..n : r.snapshot # NoSnap /\ CarriedUpTo(r, q, rs, k + 1) => CarriedUpTo(r, q2, rs2, k)
  <2>1. SUFFICES ASSUME NEW k \in 0..n, r.snapshot # NoSnap, CarriedUpTo(r, q, rs, k + 1)
                 PROVE  CarriedUpTo(r, q2, rs2, k)
    OBVIOUS
  <2>2. CASE CarriedBy(r, rs, l)
    BY <2>2, <1>8, <1>10 DEF CarriedUpTo
  <2>3. CASE \E j \in 1..(k + 1) : q[j].snapshot = r.snapshot
    <3>1. PICK j \in 1..(k + 1) : q[j].snapshot = r.snapshot
      BY <2>3
    <3>2. CASE j = 1
      <4>1. CarriedBy(r, rs2, l + v)
        BY <2>1, <3>1, <3>2, <1>0, <1>11
      <4> QED BY <4>1, <1>8 DEF CarriedUpTo
    <3>3. CASE j # 1
      <4>1. PICK i \in 1..k : i + 1 = j
        <5>1. j - 1 \in 1..k /\ j - 1 + 1 = j
          BY <3>3
        <5> QED BY <5>1
      <4>2. i \in 1..n
        OBVIOUS
      <4>3. q2[i].snapshot = r.snapshot
        BY <4>1, <4>2, <3>1, <1>2
      <4> QED BY <4>3 DEF CarriedUpTo
    <3> QED BY <3>2, <3>3
  <2> QED BY <2>1, <2>2, <2>3, <1>5 DEF CarriedUpTo
<1>13. ASSUME NEW i \in 1..l
       PROVE  rs2[i].snapshot.index <= a2 /\ Response(w, r, q2, G, D2, rs2[i], 0, CarriedBy(r, rs2, i))
  <2>1. rs[i].snapshot.index <= a /\ Response(w, r, q, G, D, rs[i], 0, CarriedBy(r, rs, i))
    BY <1>5 DEF AsyncResponses
  <2>2. rs[i].snapshot.index \in Nat /\ rs2[i] = rs[i]
    <3>1. rs[i] \in AppendResps
      BY <1>5
    <3> QED BY <3>1, <1>8, RespTypes
  <2>3. rs[i].snapshot.index <= a2
    BY <2>1, <2>2, <1>3
  <2>4. 0 \in Nat /\ 0 <= 0 + 1 /\ (r.snapshot # NoSnap /\ CarriedBy(r, rs, i) => CarriedBy(r, rs2, i))
    BY <1>9
  <2>5. Response(w, r, q2, G, D2, rs[i], 0, CarriedBy(r, rs2, i))
    BY <2>1, <2>4, <1>1, <1>2, SavedResponse
  <2> QED BY <2>2, <2>3, <2>5
<1>14. ASSUME NEW i \in 1..(l + v), i \notin 1..l
       PROVE  rs2[i].snapshot.index <= a2 /\ Response(w, r, q2, G, D2, rs2[i], 0, CarriedBy(r, rs2, i))
  <2>1. v = 1 /\ i = l + 1 /\ i = l + v
    BY <1>7, <1>14
  <2>2. x.resps # << >> /\ rs2[i] = x.resps[1]
    BY <2>1, <1>7, <1>8
  <2>3. x.resps[1].snapshot = x.snapshot
    BY <2>2, <1>3 DEF First
  <2>4. Response(w, r, q, G, D, x.resps[1], 1, CarriedUpTo(r, q, rs, 1))
    BY <2>2, <1>0, <1>2 DEF AsyncResponses
  <2>5. r.snapshot # NoSnap /\ CarriedUpTo(r, q, rs, 1) => CarriedBy(r, rs2, i)
    <3>1. \A j \in 1..1 : j = 1
      OBVIOUS
    <3> QED BY <3>1, <2>1, <1>0, <1>5, <1>10, <1>11 DEF CarriedUpTo
  <2>6. 1 \in Nat /\ 1 <= 0 + 1
    OBVIOUS
  <2>7. Response(w, r, q2, G, D2, x.resps[1], 0, CarriedBy(r, rs2, i))
    BY <2>4, <2>5, <2>6, <1>1, <1>2, SavedResponse
  <2> QED BY <2>2, <2>3, <2>7, <1>3
<1>15. ASSUME NEW k \in 1..n, q2[k].resps # << >>
       PROVE  Response(w, r, q2, G, D2, q2[k].resps[1], k, CarriedUpTo(r, q2, rs2, k))
  <2>1. PICK j \in 1..(n + 1) : j = k + 1
    BY <1>2
  <2>2. q2[k] = q[j]
    BY <2>1, <1>2
  <2>3. Response(w, r, q, G, D, q[j].resps[1], j, CarriedUpTo(r, q, rs, j))
    BY <2>2, <1>2, <1>15 DEF AsyncResponses
  <2>4. k \in 0..n /\ j \in Nat /\ j <= k + 1
    BY <2>1
  <2>5. r.snapshot # NoSnap /\ CarriedUpTo(r, q, rs, j) => CarriedUpTo(r, q2, rs2, k)
    BY <2>1, <2>4, <1>12
  <2>6. Response(w, r, q2, G, D2, q[j].resps[1], k, CarriedUpTo(r, q2, rs2, k))
    BY <2>3, <2>4, <2>5, <1>1, SavedResponse
  <2> QED BY <2>2, <2>6
<1>16. r.snapshotInProgress => CarriedUpTo(r, q2, rs2, n)
  <2>1. SUFFICES ASSUME r.snapshotInProgress PROVE CarriedUpTo(r, q2, rs2, n)
    OBVIOUS
  <2>2. r.snapshot # NoSnap
    BY <2>1, <1>0 DEF Pending
  <2>3. CarriedUpTo(r, q, rs, n + 1)
    BY <2>1, <1>2 DEF AsyncResponses
  <2>4. n \in 0..n
    OBVIOUS
  <2> QED BY <2>2, <2>3, <2>4, <1>12
<1> QED BY <1>2, <1>8, <1>13, <1>14, <1>15, <1>16 DEF AsyncResponses

\* The response that Advance will step is true of the disk now.
LEMMA SavedSync ==
    ASSUME NEW w, NEW r, NEW m, NEW q, NEW a, NEW G, NEW D, NEW H, Core(w, r, m, q, a, G, D, H),
           NEW x, NEW m2, NEW q2, NEW a2, NEW D2, NEW H2, Saved(r, m, q, a, D, H, x, m2, q2, a2, D2, H2),
           NEW rs, NEW as, SyncMode(r, q, rs, as), SyncResponses(w, r, q, a, G, D)
    PROVE  SyncMode(r, q2, rs, as) /\ SyncResponses(w, r, q2, a2, G, D2)
<1>0. /\ q \in Seq(Writes) /\ x = q[1] /\ r \in Nodes
  BY DEF Core, Saved
<1>1. PICK n \in Nat : ShiftedBy(q, D, H, q2, D2, H2, n)
  BY ShiftedIs DEF Saved
<1>2. Len(q) = n + 1 /\ Len(q2) = n /\ q2 \in Seq(Writes) /\ q # << >>
  BY <1>1 DEF ShiftedBy
<1>3. n = 0
  BY <1>2 DEF SyncMode
<1>4. q2 = << >> /\ Len(q) = 1
  BY <1>2, <1>3, EmptySeq
<1>5. x.snapshot.index <= a2
  BY SavedIndex
<1>6. SyncMode(r, q2, rs, as)
  BY <1>2, <1>3, <1>4 DEF SyncMode
<1>7. ASSUME NEW i \in 1..Len(r.stepsOnAdvance), IsAppendResp(r.stepsOnAdvance[i])
      PROVE  SyncResponse(w, r, q2, a2, G, D2, r.stepsOnAdvance[i])
  <2>1. PICK y : y = r.stepsOnAdvance[i]
    OBVIOUS
  <2>2. SyncResponse(w, r, q, a, G, D, y)
    BY <2>1, <1>7 DEF SyncResponses
  <2>3. y.snapshot = x.snapshot
    BY <2>2, <1>0, <1>2 DEF SyncResponse
  <2>4. Response(w, r, q, G, D, y, 1, y.snapshot = r.snapshot)
    BY <2>2, <1>4 DEF SyncResponse
  <2>5. 0 \in 0..n /\ 1 \in Nat /\ 1 <= 0 + 1
    OBVIOUS
  <2>6. r.snapshot # NoSnap /\ y.snapshot = r.snapshot => y.snapshot = r.snapshot
    OBVIOUS
  <2>7. Response(w, r, q2, G, D2, y, 0, y.snapshot = r.snapshot)
    BY <2>4, <2>5, <2>6, <1>1, SavedResponse
  <2>8. Len(q2) = 0
    BY <1>2, <1>3
  <2> QED BY <2>1, <2>3, <2>7, <2>8, <1>4, <1>5 DEF SyncResponse
<1>8. SyncResponses(w, r, q2, a2, G, D2)
  BY <1>7 DEF SyncResponses
<1> QED BY <1>6, <1>8

\* The batches stay right: what was compacted by a snapshot counts as on disk.
LEMMA SavedBatches ==
    ASSUME NEW w, NEW r, NEW m, NEW q, NEW a, NEW G, NEW D, NEW H, Core(w, r, m, q, a, G, D, H),
           NEW x, NEW m2, NEW q2, NEW a2, NEW D2, NEW H2, Saved(r, m, q, a, D, H, x, m2, q2, a2, D2, H2),
           NEW aq \in Seq(Batches), NEW as, BatchInv(w, r, m, aq, as, a, D[0])
    PROVE  BatchInv(w, r, m2, aq, as, a2, D2[0])
<1>0. /\ q \in Seq(Writes) /\ x = q[1] /\ r \in Nodes /\ Disks(w, m, q, D, H) /\ m \in Storages
      /\ r.applying \in Nat
  BY NodeTypes DEF Core, Saved
<1>1. PICK n \in Nat : ShiftedBy(q, D, H, q2, D2, H2, n)
  BY ShiftedIs DEF Saved
<1>2. /\ Len(q) = n + 1 /\ 1 \in 1..(n + 1) /\ D2[0] = D[1]
  <2>1. 0 \in 0..n /\ 0 + 1 = 1
    OBVIOUS
  <2> QED BY <2>1, <1>1 DEF ShiftedBy
<1>3. /\ a \in Nat /\ a2 \in Nat /\ a <= a2 /\ First(w, r, m, q, a, x)
  BY SavedIndex
<1>4. Wrote(m, x, m2)
  BY SavedDisks
<1>5. Saves(D[0], x, D[1])
  <2>1. 1 - 1 = 0
    OBVIOUS
  <2> QED BY <2>1, <1>0, <1>2 DEF Disks
<1>6. m.index \in Nat /\ m2.index \in Nat /\ x.from \in Nat /\ m.index <= m2.index
  <2>1. m.index \in Nat /\ m2.index \in Nat /\ x.from \in Nat
    BY <1>0, <1>3, <1>4, StorageTypes DEF Wrote, First
  <2>2. CASE x.snapshot = NoSnap
    BY <2>1, <2>2, <1>4 DEF Wrote
  <2>3. CASE x.snapshot # NoSnap
    <3>1. m.index <= m.snapshot.index /\ m.snapshot.index < x.snapshot.index /\ m.snapshot.index \in Nat
      BY <2>3, <1>0, <1>3, StorageTypes DEF First, Core, Queue
    <3>2. m2.index = x.snapshot.index
      BY <2>3, <1>4 DEF Wrote
    <3> QED BY <3>1, <3>2, <2>1
  <2> QED BY <2>2, <2>3
<1>7. ASSUME NEW i \in Nat, NEW e, w.async, i > 0, i <= r.applying, OnDisk(m, D[0], i, e)
      PROVE  OnDisk(m2, D2[0], i, e)
  <2>1. CASE i <= m.index
    BY <2>1, <1>6 DEF OnDisk
  <2>2. CASE i <= Len(D[0]) /\ D[0][i] = e /\ x.snapshot # NoSnap
    <3>1. r.applying < m2.index
      BY <2>2, <1>3, <1>4 DEF First, Wrote
    <3>2. i <= m2.index
      BY <3>1, <1>0, <1>6, <1>7
    <3> QED BY <3>2 DEF OnDisk
  <2>3. CASE i <= Len(D[0]) /\ D[0][i] = e /\ x.snapshot = NoSnap /\ x.ents = << >>
    <3>1. D[1] = D[0]
      BY <2>3, <1>5 DEF Saves
    <3> QED BY <2>3, <3>1, <1>2 DEF OnDisk
  <2>4. CASE i <= Len(D[0]) /\ D[0][i] = e /\ x.snapshot = NoSnap /\ x.ents # << >>
    <3>1. PICK f \in Nat : f = x.from
      BY <1>6
    <3>2. Same(f - 1, D[0], D[1])
      BY <2>4, <3>1, <1>5 DEF Saves
    <3>3. r.applying < f
      BY <3>1, <1>3, <1>7 DEF First
    <3>4. i \in 1..(f - 1)
      BY <3>3, <1>0, <1>7
    <3>5. D[1][i] = e
      BY <2>4, <3>2, <3>4 DEF Same
    <3>6. PICK l \in Nat : l = Len(D[1])
      <4>1. 1 \in 0..Len(q)
        BY <1>2
      <4>2. D \in [0..Len(q) -> Seq(Entry)]
        BY <1>0 DEF Disks
      <4>3. D[1] \in Seq(Entry)
        BY <4>1, <4>2
      <4> QED BY <4>3
    <3>7. i <= l
      BY <3>2, <3>4, <3>6 DEF Same
    <3> QED BY <3>5, <3>6, <3>7, <1>2 DEF OnDisk
  <2> QED BY <2>1, <2>2, <2>3, <2>4, <1>7 DEF OnDisk
<1>8. ASSUME w.async, NEW k \in 1..Len(aq), NEW j \in 1..Len(aq[k].ents)
      PROVE  OnDisk(m2, D2[0], aq[k].from + j - 1, aq[k].ents[j])
  <2>1. PICK f \in Nat : f = aq[k].from
    BY BatchTypes
  <2>2. PICK l \in Nat : l = Len(aq[k].ents)
    BY BatchTypes
  <2>3. BatchOK(w, r, aq[k])
    BY DEF BatchInv
  <2>4. f > 0 /\ f + l - 1 <= r.applying
    BY <2>1, <2>2, <2>3 DEF BatchOK, BatchEnd
  <2>5. PICK i \in Nat : i = f + j - 1 /\ i > 0
    BY <2>2, <2>4
  <2>6. i <= r.applying
    BY <2>2, <2>4, <2>5, <1>0
  <2>7. OnDisk(m, D[0], i, aq[k].ents[j])
    BY <2>1, <2>5, <1>8 DEF BatchInv
  <2> QED BY <2>1, <2>5, <2>6, <2>7, <1>7, <1>8
<1>9. ASSUME NEW k \in 1..Len(aq)
      PROVE  aq[k].from <= MaxOf(a2, IF k = 1 THEN a2 ELSE BatchEnd(aq[k - 1])) + 1
  <2>1. PICK f \in Nat : f = aq[k].from
    BY BatchTypes
  <2>2. f <= MaxOf(a, IF k = 1 THEN a ELSE BatchEnd(aq[k - 1])) + 1
    BY <2>1 DEF BatchInv
  <2>3. CASE k = 1
    <3>1. f <= a + 1
      BY <2>2, <2>3, <1>3 DEF MaxOf
    <3>2. f <= a2 + 1
      BY <3>1, <1>3
    <3> QED BY <2>1, <2>3, <3>2 DEF MaxOf
  <2>4. CASE k # 1
    <3>1. PICK t \in Int : t = BatchEnd(aq[k - 1])
      <4>1. k - 1 \in 1..Len(aq)
        BY <2>4
      <4> QED BY <4>1, BatchTypes
    <3>2. f <= MaxOf(a, t) + 1
      BY <2>2, <2>4, <3>1
    <3>3. f <= MaxOf(a2, t) + 1
      BY <3>2, <1>3 DEF MaxOf
    <3> QED BY <2>1, <2>4, <3>1, <3>3
  <2> QED BY <2>3, <2>4
<1>10. r.applying <= IF aq = << >> THEN a2 ELSE MaxOf(a2, BatchEnd(aq[Len(aq)]))
  <2>1. r.applying <= IF aq = << >> THEN a ELSE MaxOf(a, BatchEnd(aq[Len(aq)]))
    BY DEF BatchInv
  <2>2. CASE aq = << >>
    BY <2>1, <2>2, <1>0, <1>3
  <2>3. CASE aq # << >>
    <3>1. PICK t \in Int : t = BatchEnd(aq[Len(aq)])
      <4>1. Len(aq) \in 1..Len(aq)
        BY <2>3, EmptySeq
      <4> QED BY <4>1, BatchTypes
    <3>2. r.applying <= MaxOf(a2, t)
      BY <2>1, <2>3, <3>1, <1>0, <1>3 DEF MaxOf
    <3> QED BY <2>3, <3>1, <3>2
  <2> QED BY <2>2, <2>3
<1> QED BY <1>8, <1>9, <1>10 DEF BatchInv

\* The append thread's step keeps the invariant, for the shorter queue.
LEMMA ProcessAppendInv ==
    ASSUME NEW G, NEW D, NEW H, StateInv(G, D, H), ProcessAppend
    PROVE  \E D2, H2 : StateInv(G, D2, H2)'
<1>0. /\ Core(world, rn, ms, appendQ, sm, G, D, H) /\ appendQ \in Seq(Writes)
      /\ Whole(world, rn, ms, appendQ, applyQ, appendResps, applyResps, sm, G, D, H)
  BY StateFacts
<1>1. PICK x : x = appendQ[1]
  OBVIOUS
<1>2. /\ appendQ # << >> /\ ms' = Written(ms, x) /\ sm' = MaxOf(sm, x.snapshot.index)
      /\ appendQ' = Tail(appendQ)
      /\ appendResps' = IF world.async THEN appendResps \o x.resps ELSE appendResps
      /\ UNCHANGED <<world, rn, applyQ, applyResps, crashes>>
  <2>1. appendQ # << >>
    BY DEF ProcessAppend
  <2>2. Head(appendQ) = x
    BY <2>1, <1>0, <1>1
  <2> QED BY <2>1, <2>2 DEF ProcessAppend
<1>3. PICK D2, H2 : Shifted(appendQ, D, H, appendQ', D2, H2)
  BY <1>0, <1>2 DEF Shifted
<1>4. Saved(rn, ms, appendQ, sm, D, H, x, ms', appendQ', sm', D2, H2)
  BY <1>1, <1>2, <1>3 DEF Saved
<1>5. Core(world, rn, ms', appendQ', sm', G, D2, H2)
  BY <1>0, <1>4, SavedCore
<1>6. /\ applyQ \in Seq(Batches) /\ appendResps \in Seq(AppendResps) /\ applyResps \in Seq(Batches)
      /\ BatchInv(world, rn, ms, applyQ, applyResps, sm, D[0])
  BY <1>0 DEF Whole
<1>7. BatchInv(world, rn, ms', applyQ, applyResps, sm', D2[0])
  BY <1>0, <1>4, <1>6, SavedBatches
<1>8. Whole(world, rn, ms', appendQ', applyQ, appendResps', applyResps, sm', G, D2, H2)
  <2>1. CASE world.async
    <3>1. AsyncMode(rn) /\ AsyncResponses(world, rn, appendQ, appendResps, sm, G, D)
      BY <2>1, <1>0 DEF Whole
    <3>2. AsyncResponses(world, rn, appendQ', appendResps', sm', G, D2) /\ appendResps' \in Seq(AppendResps)
      <4>1. Answered(appendResps, x, appendResps')
        BY <2>1, <1>2 DEF Answered
      <4> QED BY <4>1, <3>1, <1>0, <1>4, <1>6, SavedAsync
    <3> QED BY <2>1, <3>1, <3>2, <1>5, <1>6, <1>7 DEF Whole
  <2>2. CASE ~world.async
    <3>1. SyncMode(rn, appendQ, appendResps, applyResps) /\ SyncResponses(world, rn, appendQ, sm, G, D)
      BY <2>2, <1>0 DEF Whole
    <3>2. SyncMode(rn, appendQ', appendResps, applyResps) /\ SyncResponses(world, rn, appendQ', sm', G, D2)
      BY <3>1, <1>0, <1>4, SavedSync
    <3> QED BY <2>2, <3>2, <1>2, <1>5, <1>6, <1>7 DEF Whole
  <2> QED BY <2>1, <2>2
<1>9. StateInv(G, D2, H2)'
  BY <1>0, <1>2, <1>8 DEF StateInv
<1> QED BY <1>9

\* A node that starts from Storage m, which holds the whole log d.
Startable(w, m, d) ==
    /\ w \in Worlds /\ m \in Storages /\ d \in Seq(Entry) /\ Store(m, d)
    /\ Sound(w, d) /\ CommitOK(w, d, m.hs.Term, m.hs.commit)
    /\ m.hs.Term > 0 => m.hs.Term \in DOMAIN w.log
    /\ m.index <= m.snapshot.index /\ CanRestart(m)

\* The node that newRaft makes of Storage m.
Started(m, d, r) ==
    /\ r \in Nodes /\ r.Term = m.hs.Term /\ r.state = "StateFollower" /\ r.committed = m.hs.commit
    /\ r.applied = m.snapshot.index /\ r.applying = m.snapshot.index
    /\ r.applyingEntsSize = 0 /\ r.applyingEntsPaused = FALSE
    /\ r.snapshot = NoSnap /\ r.snapshotInProgress = FALSE /\ r.entries = << >>
    /\ r.offset = Len(d) + 1 /\ r.offsetInProgress = Len(d) + 1
    /\ r.prevHardSt = m.hs /\ r.advancing = FALSE /\ r.stepsOnAdvance = << >>
    /\ m.snapshot.index <= m.hs.commit /\ m.hs.commit <= Len(d)

\* newRaft starts where Storage ends, with its HardState, at its snapshot.
LEMMA StartNode ==
    ASSUME NEW w, NEW m, NEW d, Startable(w, m, d), NEW r, r = newRaft(m)
    PROVE  Started(m, d, r)
<1>0. m \in Storages /\ d \in Seq(Entry) /\ Store(m, d) /\ m.index <= m.snapshot.index /\ CanRestart(m)
  BY DEF Startable
<1>1. PICK s \in Nat : s = m.snapshot.index
  BY <1>0, StorageTypes
<1>2. PICK i \in Nat : i = m.index
  BY <1>0, StorageTypes
<1>3. PICK o \in Nat : o = Len(d) + 1
  BY <1>0
<1>4. storageLast(m) = Len(d)
  BY <1>0 DEF Store, storageLast
<1>5. MaxOf(m.index, m.snapshot.index) = s
  <2>1. MaxOf(i, s) = s
    BY <1>0, <1>1, <1>2 DEF MaxOf
  <2> QED BY <2>1, <1>1, <1>2
<1>6. r = [Term |-> m.hs.Term, state |-> "StateFollower", uncommittedSize |-> 0,
           committed |-> m.hs.commit, applied |-> s, applying |-> s,
           applyingEntsSize |-> 0, applyingEntsPaused |-> FALSE,
           snapshot |-> NoSnap, snapshotInProgress |-> FALSE,
           entries |-> << >>, offset |-> o, offsetInProgress |-> o,
           prevHardSt |-> m.hs, advancing |-> FALSE, stepsOnAdvance |-> << >>]
  BY <1>3, <1>4, <1>5 DEF newRaft
<1>7. m.hs.Term \in Nat /\ m.hs.commit \in Nat /\ m.hs \in HardStates /\ NoSnap \in Snapshots
  BY <1>0, StorageTypes DEF NoSnap, Snapshots
<1>8. << >> \in Seq(Entry) /\ << >> \in Seq(AppendResps \cup Batches)
  OBVIOUS
<1>9. r \in Nodes
  BY <1>6, <1>7, <1>8 DEF Nodes
<1>10. s <= m.hs.commit /\ m.hs.commit <= Len(d)
  BY <1>0, <1>4, <1>5 DEF CanRestart
<1> QED BY <1>1, <1>3, <1>6, <1>9, <1>10 DEF Started

\* A started node satisfies the whole invariant, with the disk's log for its own.
LEMMA StartWhole ==
    ASSUME NEW w, NEW m, NEW d, Startable(w, m, d), NEW r, r = newRaft(m), NEW a, a = m.snapshot.index,
           NEW D, NEW H, D = [k \in 0..0 |-> d], H = [k \in 0..0 |-> m.hs]
    PROVE  Whole(w, r, m, << >>, << >>, << >>, << >>, a, d, D, H)
<1>0. /\ w \in Worlds /\ m \in Storages /\ d \in Seq(Entry) /\ Store(m, d)
      /\ Sound(w, d) /\ CommitOK(w, d, m.hs.Term, m.hs.commit)
      /\ m.hs.Term > 0 => m.hs.Term \in DOMAIN w.log
      /\ m.index <= m.snapshot.index
  BY DEF Startable
<1>1. PICK s \in Nat : s = m.snapshot.index
  BY <1>0, StorageTypes
<1>2. PICK l \in Nat : l = Len(d)
  BY <1>0
<1>3. PICK c \in Nat : c = m.hs.commit
  BY <1>0, StorageTypes
<1>4. PICK i \in Nat : i = m.index
  BY <1>0, StorageTypes
<1>5. /\ r \in Nodes /\ r.Term = m.hs.Term /\ r.state = "StateFollower" /\ r.committed = c
      /\ r.applied = s /\ r.applying = s
      /\ r.applyingEntsSize = 0 /\ r.applyingEntsPaused = FALSE
      /\ r.snapshot = NoSnap /\ r.snapshotInProgress = FALSE /\ r.entries = << >>
      /\ r.offset = l + 1 /\ r.offsetInProgress = l + 1
      /\ r.prevHardSt = m.hs /\ r.advancing = FALSE /\ r.stepsOnAdvance = << >>
      /\ s <= c /\ c <= l
  <2>1. /\ r \in Nodes /\ r.Term = m.hs.Term /\ r.state = "StateFollower" /\ r.committed = m.hs.commit
        /\ r.applied = m.snapshot.index /\ r.applying = m.snapshot.index
        /\ r.applyingEntsSize = 0 /\ r.applyingEntsPaused = FALSE
        /\ r.snapshot = NoSnap /\ r.snapshotInProgress = FALSE /\ r.entries = << >>
        /\ r.offset = Len(d) + 1 /\ r.offsetInProgress = Len(d) + 1
        /\ r.prevHardSt = m.hs /\ r.advancing = FALSE /\ r.stepsOnAdvance = << >>
        /\ m.snapshot.index <= m.hs.commit /\ m.hs.commit <= Len(d)
    <3>1. Started(m, d, r)
      BY StartNode
    <3> QED BY <3>1 DEF Started
  <2> QED BY <2>1, <1>1, <1>2, <1>3
<1>6. i <= s /\ a = s
  BY <1>0, <1>1, <1>4
<1>7. Len(<< >>) = 0 /\ 1..0 = {} /\ 0..0 = {0} /\ << >> \in Seq(Writes) /\ << >> \in Seq(Batches)
      /\ << >> \in Seq(AppendResps)
  OBVIOUS
<1>8. D[0] = d /\ H[0] = m.hs /\ D \in [0..0 -> Seq(Entry)] /\ H \in [0..0 -> HardStates]
  BY <1>0, StorageTypes
<1>9. Disks(w, m, << >>, D, H)
  BY <1>0, <1>7, <1>8 DEF Disks
<1>10. Queue(m, << >>, a)
  <2>1. m.index <= m.snapshot.index /\ m.snapshot.index <= a /\ m.snapshot.index <= m.hs.commit
    BY <1>1, <1>3, <1>4, <1>5, <1>6
  <2> QED BY <2>1, <1>7 DEF Queue
<1>11. Memory(w, r, d)
  <2>1. TailOf(r.entries, r.offset, d)
    <3>1. l + 1 > 0 /\ l + 1 + 0 = l + 1
      OBVIOUS
    <3> QED BY <3>1, <1>2, <1>5, <1>7 DEF TailOf
  <2>2. r.offset <= r.offsetInProgress /\ r.offsetInProgress <= Len(d) + 1
    BY <1>2, <1>5
  <2> QED BY <2>1, <2>2, <1>0, <1>3, <1>5 DEF Memory
<1>12. Cursors(w, r)
  <2>1. 0 < MaxCommittedSizePerReady
    BY LimitAssumption
  <2>2. s < l + 1 /\ s <= s
    BY <1>5
  <2>3. m.hs.Term <= m.hs.Term /\ c <= c
    BY <1>0, StorageTypes
  <2> QED BY <2>1, <2>2, <2>3, <1>3, <1>5 DEF Cursors
<1>13. Pending(r, d) /\ ~hasNextSnapshot(r)
  BY <1>5 DEF Pending, hasNextSnapshot
<1>14. Same(l, d, d)
  BY <1>0, <1>2 DEF Same
<1>15. Link(w, r, m, << >>, d, D)
  <2>1. m.index <= MaxOf(r.applied, r.snapshot.index)
    <3>1. r.snapshot.index = 0
      BY <1>5 DEF NoSnap
    <3>2. i <= MaxOf(s, 0)
      BY <1>6 DEF MaxOf
    <3> QED BY <3>1, <3>2, <1>4, <1>5
  <2>2. Same(r.offset - 1, D[0], d) /\ Same(r.offsetInProgress - 1, D[0], d)
    <3>1. l + 1 - 1 = l
      OBVIOUS
    <3> QED BY <3>1, <1>5, <1>8, <1>14
  <2> QED BY <2>1, <2>2, <1>5, <1>7, <1>8 DEF Link
<1>16. Ahead(r, a)
  BY <1>5, <1>6, <1>13 DEF Ahead
<1>17. Core(w, r, m, << >>, a, d, D, H)
  BY <1>0, <1>5, <1>6, <1>7, <1>8, <1>9, <1>10, <1>11, <1>12, <1>13, <1>15, <1>16 DEF Core
<1>18. BatchInv(w, r, m, << >>, << >>, a, D[0])
  BY <1>5, <1>6, <1>7 DEF BatchInv
<1>19. AsyncMode(r) /\ AsyncResponses(w, r, << >>, << >>, a, d, D)
  BY <1>5, <1>7 DEF AsyncMode, AsyncResponses
<1>20. SyncMode(r, << >>, << >>, << >>) /\ SyncResponses(w, r, << >>, a, d, D)
  BY <1>5, <1>7 DEF SyncMode, SyncResponses
<1> QED BY <1>7, <1>17, <1>18, <1>19, <1>20 DEF Whole

\* Two logs with the same committed entries, whoever committed them.
LEMMA CommittedSame ==
    ASSUME NEW w \in Worlds, NEW a \in Seq(Entry), NEW b \in Seq(Entry), NEW T, NEW U, NEW c \in Nat, NEW c2 \in Nat,
           CommitOK(w, a, T, c), CommitOK(w, b, U, c2), c <= c2
    PROVE  Same(c, a, b)
<1>0. Len(a) \in Nat /\ Len(b) \in Nat /\ c <= Len(a) /\ c2 <= Len(b)
  BY DEF CommitOK
<1>1. CASE c = 0
  BY <1>0, <1>1 DEF Same
<1>2. CASE c # 0
  <2>1. PICK t \in DOMAIN w.log : c <= w.commit[t] /\ Same(c, a, w.log[t])
    BY <1>2 DEF CommitOK
  <2>2. c2 # 0
    BY <1>2
  <2>3. PICK u \in DOMAIN w.log : c2 <= w.commit[u] /\ Same(c2, b, w.log[u])
    BY <2>2 DEF CommitOK
  <2>4. /\ t \in Nat /\ t > 0 /\ u \in Nat /\ u > 0 /\ w.log[t] \in Seq(Entry) /\ w.log[u] \in Seq(Entry)
        /\ w.commit[t] \in Nat /\ w.commit[u] \in Nat
        /\ w.commit[t] <= Len(w.log[t]) /\ w.commit[u] <= Len(w.log[u])
    BY WorldTypes
  <2>5. Same(c, w.log[t], w.log[u])
    <3>1. ValidWorld(w)
      BY WorldAssumption
    <3>2. w.log[t] # << >> /\ w.log[u] # << >>
      <4>1. Len(w.log[t]) # 0 /\ Len(w.log[u]) # 0
        BY <2>1, <2>3, <2>4, <1>2, SMTT(20)
      <4> QED BY <4>1
    <3>3. CASE t < u
      <4>1. t \in 1..(u - 1)
        BY <3>3, <2>4
      <4>2. Agree(w.commit[t], w.log[t], w.log[u])
        BY <3>1, <3>2, <4>1 DEF ValidWorld
      <4>3. Same(w.commit[t], w.log[t], w.log[u])
        BY <4>2, <2>4, AgreeSame
      <4> QED BY <4>3, <2>1, <2>4, SameLess
    <3>4. CASE u < t
      <4>1. u \in 1..(t - 1)
        BY <3>4, <2>4
      <4>2. Agree(w.commit[u], w.log[u], w.log[t])
        BY <3>1, <3>2, <4>1 DEF ValidWorld
      <4>3. Same(w.commit[u], w.log[u], w.log[t])
        BY <4>2, <2>4, AgreeSame
      <4>4. c <= w.commit[u]
        BY <2>3, <2>4
      <4>5. Same(c, w.log[u], w.log[t])
        BY <4>3, <4>4, <2>4, SameLess
      <4> QED BY <4>5, SameSym
    <3>5. CASE u = t
      BY <3>5, <2>1, <2>4 DEF Same
    <3> QED BY <3>3, <3>4, <3>5, <2>4
  <2>6. Same(c, a, w.log[u])
    BY <2>1, <2>5, <2>4, SameTrans
  <2>7. Same(c, w.log[u], b)
    <3>1. Same(c, b, w.log[u])
      BY <2>3, <2>4, SameLess
    <3> QED BY <3>1, SameSym
  <2> QED BY <2>6, <2>7, <2>4, SameTrans
<1> QED BY <1>1, <1>2

\* A crash leaves Storage x with the log d for m: all of m, or m with the entries of
\* the first write and its old HardState.
Crashed(w, m, x, d) ==
    /\ x \in Storages /\ x.hs = m.hs /\ x.index = m.index /\ x.term = m.term /\ x.snapshot = m.snapshot
    /\ d \in Seq(Entry) /\ Store(x, d) /\ Sound(w, d) /\ CommitOK(w, d, m.hs.Term, m.hs.commit)

\* What is committed on disk is committed in a later log, too.
LEMMA CommitStays ==
    ASSUME NEW w \in Worlds, NEW a \in Seq(Entry), NEW b \in Seq(Entry), NEW T, NEW U, NEW c \in Nat, NEW c2 \in Nat,
           CommitOK(w, a, T, c), CommitOK(w, b, U, c2), c <= c2
    PROVE  CommitOK(w, b, T, c)
<1>1. Same(c, a, b)
  BY CommittedSame
<1>2. Same(c, b, a)
  BY <1>1, SameSym
<1>3. c <= Len(b)
  BY <1>1 DEF Same
<1>4. ASSUME c # 0
      PROVE  \E t \in DOMAIN w.log : t <= T /\ c <= w.commit[t] /\ Same(c, b, w.log[t])
  <2>1. PICK t \in DOMAIN w.log : t <= T /\ c <= w.commit[t] /\ Same(c, a, w.log[t])
    BY <1>4 DEF CommitOK
  <2>2. w.log[t] \in Seq(Entry) /\ c <= c
    BY WorldTypes
  <2>3. Same(c, b, w.log[t])
    BY <2>1, <2>2, <1>2, SameTrans
  <2> QED BY <2>1, <2>3
<1> QED BY <1>3, <1>4 DEF CommitOK

\* The first write without its HardState: its entries are on disk.
LEMMA TornIs ==
    ASSUME NEW w, NEW r, NEW m, NEW q, NEW a, NEW G, NEW D, NEW H, Core(w, r, m, q, a, G, D, H),
           1 \in DOMAIN q, q[1].snapshot = NoSnap, NEW x, x = Torn(m, q[1])
    PROVE  Crashed(w, m, x, D[1])
<1>0. /\ w \in Worlds /\ m \in Storages /\ q \in Seq(Writes) /\ Disks(w, m, q, D, H) /\ Queue(m, q, a)
  BY DEF Core
<1>1. 1 \in 1..Len(q) /\ 0 \in 0..Len(q) /\ 1 \in 0..Len(q) /\ 1 - 1 = 0
  BY <1>0
<1>2. q[1] \in Writes
  BY <1>0, <1>1
<1>3. PICK y : y = [q[1] EXCEPT !.hs = EmptyHardState]
  OBVIOUS
<1>4. /\ y \in Writes /\ y.hs = EmptyHardState /\ y.snapshot = NoSnap /\ y.from = q[1].from /\ y.ents = q[1].ents
  BY <1>2, <1>3 DEF Writes, HardStates, EmptyHardState
<1>5. x = Written(m, y)
  BY <1>4 DEF Torn, Written
<1>6. /\ D[0] \in Seq(Entry) /\ D[1] \in Seq(Entry) /\ Store(m, D[0]) /\ Saves(D[0], q[1], D[1])
      /\ H[0] = m.hs /\ H[1] \in HardStates
  BY <1>0, <1>1 DEF Disks
<1>7. /\ Sound(w, D[1]) /\ CommitOK(w, D[0], H[0].Term, H[0].commit) /\ CommitOK(w, D[1], H[1].Term, H[1].commit)
      /\ H[0].commit <= H[1].commit
  <2>1. Sound(w, D[1]) /\ CommitOK(w, D[0], H[0].Term, H[0].commit) /\ CommitOK(w, D[1], H[1].Term, H[1].commit)
    BY <1>0, <1>1 DEF Disks
  <2>2. H[0].commit <= H[1].commit
    BY <1>0, <1>1 DEF Disks
  <2> QED BY <2>1, <2>2
<1>8. Saves(D[0], y, D[1])
  BY <1>4, <1>6 DEF Saves
<1>9. m.index < y.from
  BY <1>0, <1>1, <1>4 DEF Queue
<1>10. Wrote(m, y, x) /\ Store(x, D[1])
  BY <1>0, <1>4, <1>5, <1>6, <1>8, <1>9, WrittenIs
<1>11. H[0].commit \in Nat /\ H[1].commit \in Nat
  BY <1>0, <1>6, StorageTypes DEF HardStates
<1>12. CommitOK(w, D[1], m.hs.Term, m.hs.commit)
  BY <1>0, <1>6, <1>7, <1>11, CommitStays
<1>13. x.term = m.term
  <2>1. PICK e : x = m \/ x = [m EXCEPT !.ents = e]
    BY DEF Torn, StorageAppend
  <2> QED BY <2>1, <1>0 DEF Storages
<1> QED BY <1>4, <1>6, <1>7, <1>10, <1>12, <1>13 DEF Crashed, Wrote, NextHS

\* Whatever a crash leaves is a whole log: the one on disk, or that of the first write.
LEMMA CrashDiskIs ==
    ASSUME NEW G, NEW D, NEW H, StateInv(G, D, H), NEW x \in CrashDisks
    PROVE  /\ \E d : Crashed(world, ms, x, d)
           /\ \/ x = ms
              \/ 1 \in DOMAIN appendQ /\ appendQ[1].snapshot = NoSnap /\ Crashed(world, ms, x, D[1])
<1>0. /\ Core(world, rn, ms, appendQ, sm, G, D, H) /\ appendQ \in Seq(Writes) /\ ms \in Storages
  BY StateFacts
<1>1. Crashed(world, ms, ms, D[0])
  <2>1. 0 \in 0..Len(appendQ)
    BY <1>0
  <2>2. Disks(world, ms, appendQ, D, H)
    BY <1>0 DEF Core
  <2>3. D[0] \in Seq(Entry) /\ Store(ms, D[0]) /\ H[0] = ms.hs
    BY <2>1, <2>2 DEF Disks
  <2>4. Sound(world, D[0]) /\ CommitOK(world, D[0], H[0].Term, H[0].commit)
    BY <2>1, <2>2 DEF Disks
  <2> QED BY <2>3, <2>4, <1>0 DEF Crashed
<1>2. x = ms \/ (1 \in DOMAIN appendQ /\ x = Torn(ms, appendQ[1]))
  BY DEF CrashDisks
<1>3. CASE x = ms
  BY <1>1, <1>3
<1>4. CASE 1 \in DOMAIN appendQ /\ x = Torn(ms, appendQ[1])
  <2>1. CASE appendQ[1].snapshot = NoSnap
    <3>1. Crashed(world, ms, x, D[1])
      BY <1>0, <1>4, <2>1, TornIs
    <3> QED BY <3>1, <1>4, <2>1
  <2>2. CASE appendQ[1].snapshot # NoSnap
    <3>1. x = ms
      BY <1>4, <2>2 DEF Torn
    <3> QED BY <3>1, <1>1
  <2> QED BY <2>1, <2>2
<1> QED BY <1>2, <1>3, <1>4

\* A crash, between two saves or within one, and a restart keep the invariant.
LEMMA RestartInv ==
    ASSUME NEW G, NEW D, NEW H, StateInv(G, D, H), Restart
    PROVE  \E G2, D2, H2 : StateInv(G2, D2, H2)'
<1>0. /\ Core(world, rn, ms, appendQ, sm, G, D, H) /\ appendQ \in Seq(Writes) /\ Len(appendQ) \in Nat
      /\ ms \in Storages /\ world \in Worlds
  BY StateFacts
<1>1. Disks(world, ms, appendQ, D, H) /\ Queue(ms, appendQ, sm)
  BY <1>0 DEF Core
<1>2. PICK m \in CrashDisks : CanRestart(m) /\ ms' = m /\ rn' = newRaft(m) /\ sm' = m.snapshot.index
  BY DEF Restart
<1>3. PICK d : Crashed(world, ms, m, d)
  BY CrashDiskIs
<1>4. Startable(world, m, d)
  <2>1. ms.hs.Term > 0 => ms.hs.Term \in DOMAIN world.log
    <3>1. 0 \in 0..Len(appendQ) /\ H[0] = ms.hs
      BY <1>0, <1>1 DEF Disks
    <3> QED BY <3>1, <1>1 DEF Disks
  <2>2. ms.index <= ms.snapshot.index
    BY <1>1 DEF Queue
  <2> QED BY <2>1, <2>2, <1>0, <1>2, <1>3 DEF Startable, Crashed
<1>5. PICK D2, H2 : D2 = [k \in 0..0 |-> d] /\ H2 = [k \in 0..0 |-> m.hs]
  OBVIOUS
<1>6. Whole(world, rn', m, << >>, << >>, << >>, << >>, sm', d, D2, H2)
  BY <1>2, <1>4, <1>5, StartWhole
<1>7. crashes' \in Nat
  BY DEF StateInv, Restart
<1>8. StateInv(d, D2, H2)'
  BY <1>2, <1>6, <1>7 DEF StateInv, Restart
<1> QED BY <1>8

\* A new node satisfies the invariant.
LEMMA InitInv ==
    ASSUME Init
    PROVE  \E G, D, H : StateInv(G, D, H)
<1>1. PICK m : m = NewMemoryStorage
  OBVIOUS
<1>2. Startable(world, m, << >>)
  <2>1. /\ m.hs = EmptyHardState /\ m.snapshot = NoSnap /\ m.index = 0 /\ m.term = 0 /\ m.ents = << >>
        /\ m \in Storages
    <3>1. << >> \in Seq(Entry)
      OBVIOUS
    <3> QED BY <3>1, <1>1 DEF NewMemoryStorage, EmptyHardState, NoSnap, Storages, HardStates, Snapshots
  <2>2. m.hs.Term = 0 /\ m.hs.commit = 0 /\ m.snapshot.index = 0
    BY <2>1 DEF EmptyHardState, NoSnap
  <2>3. Len(<< >>) = 0 /\ << >> \in Seq(Entry) /\ 1..0 = {}
    OBVIOUS
  <2>4. Store(m, << >>)
    BY <2>1, <2>3 DEF Store
  <2>5. Sound(world, << >>) /\ CommitOK(world, << >>, 0, 0)
    BY <2>3 DEF Sound, CommitOK
  <2>6. CanRestart(m)
    BY <2>1, <2>2, <2>3 DEF CanRestart, MaxOf, storageLast
  <2> QED BY <2>1, <2>2, <2>3, <2>4, <2>5, <2>6 DEF Startable, Init
<1>3. PICK D, H : D = [k \in 0..0 |-> << >>] /\ H = [k \in 0..0 |-> m.hs]
  OBVIOUS
<1>4. m.snapshot.index = 0
  BY <1>1 DEF NewMemoryStorage, NoSnap
<1>5. Whole(world, rn, m, << >>, << >>, << >>, << >>, 0, << >>, D, H)
  <2>1. rn = newRaft(m)
    BY <1>1 DEF Init
  <2> QED BY <2>1, <1>2, <1>3, <1>4, StartWhole
<1>6. StateInv(<< >>, D, H)
  BY <1>1, <1>5 DEF StateInv, Init
<1> QED BY <1>6

\* The inductive invariant: there are whole logs, in memory and on disk, whose
\* parts the server holds.
LogsAreWhole == \E G, D, H : StateInv(G, D, H)

\* The invariant is inductive.
LEMMA NextInv ==
    ASSUME LogsAreWhole, [Next]_vars
    PROVE  LogsAreWhole'
<1>1. PICK G, D, H : StateInv(G, D, H)
  BY DEF LogsAreWhole
<1> SUFFICES \E G2, D2, H2 : StateInv(G2, D2, H2)'
  BY DEF LogsAreWhole
<1>2. ASSUME RaftStep PROVE \E G2, D2, H2 : StateInv(G2, D2, H2)'
  <2>1. CASE \E t \in DOMAIN world.log : BecomeTerm(t)
    <3>1. StateInv(G, D, H)'
      BY <1>1, <2>1, BecomeTermInv
    <3> QED BY <3>1
  <2>2. CASE BecomeLeader
    <3>1. PICK e : e = Leader[Len(G) + 1]
      OBVIOUS
    <3>2. StateInv(Append(G, e), D, H)'
      BY <1>1, <2>2, <3>1, BecomeLeaderInv
    <3> QED BY <3>2
  <2>3. CASE Propose
    <3>1. PICK e : e = Leader[Len(G) + 1]
      OBVIOUS
    <3>2. StateInv(Append(G, e), D, H)'
      BY <1>1, <2>3, <3>1, ProposeInv
    <3> QED BY <3>2
  <2>4. CASE rn.Term > 0 /\ \E i \in 1..Len(Leader) : LeaderCommit(i) \/ HandleSnapshot(i)
    <3>1. PICK i \in 1..Len(Leader) : LeaderCommit(i) \/ HandleSnapshot(i)
      BY <2>4
    <3>2. CASE LeaderCommit(i)
      <4>1. StateInv(G, D, H)'
        BY <1>1, <2>4, <3>2, LeaderCommitInv
      <4> QED BY <4>1
    <3>3. CASE HandleSnapshot(i)
      <4>1. PICK P : P = SubSeq(Leader, 1, i)
        OBVIOUS
      <4>2. StateInv(G, D, H)' \/ StateInv(P, D, H)'
        BY <1>1, <2>4, <3>3, <4>1, HandleSnapshotInv
      <4> QED BY <4>2
    <3> QED BY <3>1, <3>2, <3>3
  <2>5. CASE rn.Term > 0 /\ \E p, q, c \in 0..Len(Leader) : HandleAppendEntries(p, q, c)
    <3>1. PICK p, q, c \in 0..Len(Leader) : HandleAppendEntries(p, q, c)
      BY <2>5
    <3>2. PICK P : P = SubSeq(Leader, 1, q)
      OBVIOUS
    <3>3. StateInv(G, D, H)' \/ StateInv(P, D, H)'
      BY <1>1, <2>5, <3>1, <3>2, HandleAppendEntriesInv
    <3> QED BY <3>3
  <2> QED BY <1>2, <2>1, <2>2, <2>3, <2>4, <2>5 DEF RaftStep
<1>3. CASE Ready
  BY <1>1, <1>3, ReadyInv
<1>4. CASE Advance
  <2>1. StateInv(G, D, H)'
    BY <1>1, <1>4, AdvanceInv
  <2> QED BY <2>1
<1>5. CASE ProcessAppend
  BY <1>1, <1>5, ProcessAppendInv
<1>6. CASE ProcessApply
  <2>1. StateInv(G, D, H)'
    BY <1>1, <1>6, ProcessApplyInv
  <2> QED BY <2>1
<1>7. CASE StepAppendResp
  <2>1. StateInv(G, D, H)'
    BY <1>1, <1>7, StepAppendRespInv
  <2> QED BY <2>1
<1>8. CASE StepApplyResp
  <2>1. StateInv(G, D, H)'
    BY <1>1, <1>8, StepApplyRespInv
  <2> QED BY <2>1
<1>9. CASE \E i \in 1..storageLast(ms) : CreateSnapshot(i) \/ Compact(i)
  <2>1. StateInv(G, D, H)'
    BY <1>1, <1>9, CreateSnapshotInv, CompactInv
  <2> QED BY <2>1
<1>10. CASE Restart
  BY <1>1, <1>10, RestartInv
<1>11. CASE UNCHANGED vars
  <2>1. StateInv(G, D, H)'
    BY <1>1, <1>11 DEF StateInv, vars
  <2> QED BY <2>1
<1> QED BY <1>2, <1>3, <1>4, <1>5, <1>6, <1>7, <1>8, <1>9, <1>10, <1>11 DEF Next

\* In every behaviour the unstable log, Storage, the queued writes and the
\* responses on their way are the parts of one log in memory and of whole logs on
\* disk, whatever is overwritten, acknowledged late, compacted or lost in a crash.
THEOREM LogsStayWhole == Spec => []LogsAreWhole
<1>1. Init => LogsAreWhole
  BY InitInv DEF LogsAreWhole
<1>2. LogsAreWhole /\ [Next]_vars => LogsAreWhole'
  BY NextInv
<1> QED BY <1>1, <1>2, PTL DEF Spec

\* The invariant implies NoPanic.
LEMMA WholeNoPanic ==
    ASSUME LogsAreWhole
    PROVE  NoPanic
<1>1. PICK G, D, H : StateInv(G, D, H)
  BY DEF LogsAreWhole
<1>2. /\ Core(world, rn, ms, appendQ, sm, G, D, H) /\ Cursors(world, rn) /\ rn \in Nodes
      /\ G \in Seq(Entry) /\ Len(G) \in Nat /\ appendQ \in Seq(Writes)
      /\ Whole(world, rn, ms, appendQ, applyQ, appendResps, applyResps, sm, G, D, H)
      /\ rn.offset <= rn.offsetInProgress /\ rn.offsetInProgress <= Len(G) + 1
      /\ Sound(world, G) /\ CommitOK(world, G, rn.Term, rn.committed) /\ rn.Term \in Nat
  BY <1>1, StateFacts
<1>3. lastIndex(rn, ms) = Len(G) /\ unstableLast(rn) = Len(G)
  BY <1>2, LastIs
<1>4. rn.applied <= rn.applying /\ rn.applying <= rn.committed /\ rn.committed <= lastIndex(rn, ms)
  BY <1>2, <1>3 DEF Cursors, CommitOK
<1>5. ASSUME appendQ # << >>, Head(appendQ).ents # << >>, Head(appendQ).snapshot = NoSnap
      PROVE  Head(appendQ).from <= storageLast(ms) + 1
  <2>1. Head(appendQ) = appendQ[1] /\ 1 \in 1..Len(appendQ) /\ 0 \in 0..Len(appendQ)
    <3>1. Len(appendQ) # 0
      BY <1>2, <1>5, EmptySeq
    <3> QED BY <3>1, <1>2, <1>5
  <2>2. PICK x : x = appendQ[1]
    OBVIOUS
  <2>3. Disks(world, ms, appendQ, D, H)
    BY <1>2 DEF Core
  <2>4. Saves(D[0], x, D[1])
    <3>1. 1 - 1 = 0
      OBVIOUS
    <3> QED BY <3>1, <2>1, <2>2, <2>3 DEF Disks
  <2>5. PICK f \in Nat : f = x.from
    BY <2>1, <2>2, <1>2, WriteTypes
  <2>6. f - 1 <= Len(D[0])
    BY <2>1, <2>2, <2>4, <2>5, <1>5 DEF Saves, Same
  <2>7. Len(D[0]) = storageLast(ms)
    BY <2>3 DEF Disks, Store, storageLast
  <2>8. Len(D[0]) \in Nat
    <3>1. D[0] \in Seq(Entry)
      BY <2>1, <2>3 DEF Disks
    <3> QED BY <3>1
  <2>9. f <= storageLast(ms) + 1
    BY <2>6, <2>7, <2>8
  <2> QED BY <2>1, <2>2, <2>5, <2>9
<1>6. ASSUME hasNextCommittedEnts(rn)
      PROVE  /\ rn.applyingEntsSize < MaxCommittedSizePerReady
             /\ rn.applying + 1 >= firstIndex(rn, ms)
             /\ \A i \in (rn.applying + 1)..maxAppliableIndex(rn) : entryAt(rn, ms, i) # Missing
  <2>1. ~rn.applyingEntsPaused /\ rn.snapshot = NoSnap
    BY <1>6 DEF hasNextCommittedEnts
  <2>2. rn.applyingEntsSize < MaxCommittedSizePerReady
    BY <2>1, <1>2 DEF Cursors
  <2>3. PICK p \in Nat : p = rn.applying
    BY <1>2, NodeTypes
  <2>4. PICK c \in Nat : c = rn.committed
    BY <1>2, NodeTypes
  <2>5. PICK f \in Nat : f = firstIndex(rn, ms)
    BY <1>2, FirstIs
  <2>6. f - 1 <= p
    <3>1. f - 1 = ms.index /\ ms.index <= rn.applied
      BY <2>1, <2>5, <1>2, FirstIs
    <3>2. rn.applied \in Nat /\ rn.applied <= p
      BY <2>3, <1>2, <1>4, NodeTypes
    <3> QED BY <3>1, <3>2, <2>5
  <2>7. p + 1 >= f /\ c <= Len(G)
    BY <2>4, <2>6, <1>3, <1>4
  <2>8. ASSUME NEW i \in (p + 1)..maxAppliableIndex(rn) PROVE entryAt(rn, ms, i) # Missing
    <3>1. maxAppliableIndex(rn) <= c /\ maxAppliableIndex(rn) \in Int
      <4>1. PICK o \in Nat : o = rn.offset
        BY <1>2, NodeTypes
      <4>2. maxAppliableIndex(rn) = IF world.async THEN MinOf(c, o - 1) ELSE c
        BY <4>1, <2>4 DEF maxAppliableIndex
      <4> QED BY <4>2 DEF MinOf
    <3>2. i \in f..Len(G) /\ i \in 1..Len(G)
      BY <3>1, <2>7, <1>2
    <3>3. entryAt(rn, ms, i) = G[i]
      BY <3>2, <2>5, <1>2, EntryIs
    <3>4. G[i].term \in DOMAIN world.log /\ world \in Worlds
      BY <3>2, <1>2 DEF Sound, SoundAt, Core
    <3>5. G[i].term # 0
      BY <3>4, WorldTypes
    <3> QED BY <3>3, <3>5 DEF Missing
  <2> QED BY <2>2, <2>3, <2>5, <2>7, <2>8
<1>7. ASSUME NEW k \in DOMAIN Unacknowledged
      PROVE  Unacknowledged[k].from + Len(Unacknowledged[k].ents) - 1 <= rn.committed
  <2>1. /\ BatchInv(world, rn, ms, applyQ, applyResps, sm, D[0])
        /\ applyQ \in Seq(Batches) /\ applyResps \in Seq(Batches)
    BY <1>2 DEF Whole
  <2>2. BatchOK(world, rn, Unacknowledged[k]) /\ Unacknowledged[k] \in Batches
    <3>1. CASE world.async
      <4>1. Unacknowledged = applyResps \o applyQ
        BY <3>1 DEF Unacknowledged
      <4>2. PICK n \in Nat : n = Len(applyResps)
        BY <2>1
      <4>3. PICK l \in Nat : l = Len(applyQ)
        BY <2>1
      <4>4. /\ applyResps \o applyQ \in Seq(Batches) /\ Len(applyResps \o applyQ) = n + l
            /\ \A i \in 1..n : (applyResps \o applyQ)[i] = applyResps[i]
            /\ \A i \in 1..l : (applyResps \o applyQ)[n + i] = applyQ[i]
        BY <2>1, <4>2, <4>3, JoinIs
      <4>5. k \in 1..(n + l)
        BY <4>1, <4>4, <1>7
      <4>6. CASE k \in 1..n
        <5>1. Unacknowledged[k] = applyResps[k]
          BY <4>1, <4>4, <4>6
        <5> QED BY <5>1, <4>2, <4>6, <2>1, BatchTypes DEF BatchInv
      <4>7. CASE k \notin 1..n
        <5>1. PICK i \in 1..l : n + i = k
          <6>1. k - n \in 1..l /\ n + (k - n) = k
            BY <4>5, <4>7
          <6> QED BY <6>1
        <5>2. Unacknowledged[k] = applyQ[i]
          BY <4>1, <4>4, <5>1
        <5> QED BY <5>2, <4>3, <2>1, BatchTypes DEF BatchInv
      <4> QED BY <4>6, <4>7
    <3>2. CASE ~world.async
      <4>1. PICK s \in Seq(AppendResps \cup Batches) : s = rn.stepsOnAdvance
        BY <1>2 DEF Nodes
      <4>2. PICK n \in Nat : n = Len(s)
        OBVIOUS
      <4>3. Unacknowledged = IF n > 0 /\ s[n].type = "MsgStorageApplyResp" THEN <<s[n]>> ELSE << >>
        BY <3>2, <4>1, <4>2 DEF Unacknowledged
      <4>4. n > 0 /\ s[n].type = "MsgStorageApplyResp" /\ Unacknowledged = <<s[n]>>
        <5>1. DOMAIN << >> = {}
          OBVIOUS
        <5> QED BY <4>3, <5>1, <1>7
      <4>5. k = 1 /\ Unacknowledged[k] = s[n]
        BY <4>4, <1>7
      <4>6. ~IsAppendResp(s[n]) /\ n \in 1..n
        BY <4>4 DEF IsAppendResp
      <4>7. s[n] \in AppendResps \cup Batches
        BY <4>2, <4>6
      <4>8. s[n] \in Batches
        BY <4>6, <4>7 DEF AppendResps, IsAppendResp
      <4>9. BatchOK(world, rn, s[n])
        BY <4>1, <4>2, <4>6, <2>1 DEF BatchInv
      <4> QED BY <4>5, <4>8, <4>9
    <3> QED BY <3>1, <3>2
  <2>3. PICK b \in Batches : b = Unacknowledged[k]
    BY <2>2
  <2>4. PICK t \in Int : t = b.from + Len(b.ents) - 1
    BY DEF Batches
  <2>5. t <= rn.applying
    BY <2>2, <2>3, <2>4 DEF BatchOK, BatchEnd
  <2>6. t <= rn.committed
    BY <2>5, <1>2, <1>4, NodeTypes
  <2> QED BY <2>3, <2>4, <2>6
<1> QED BY <1>2, <1>3, <1>4, <1>5, <1>6, <1>7 DEF NoPanic

\* None of the panics of log.go, log_unstable.go and storage.go that NoPanic
\* stands for can be reached: for all worlds, sizes and queue lengths.
THEOREM NeverPanics == Spec => []NoPanic
<1>1. LogsAreWhole => NoPanic
  BY WholeNoPanic
<1> QED BY <1>1, LogsStayWhole, PTL

\* The invariant implies AppliedIsCommitted.
LEMMA WholeApplied ==
    ASSUME LogsAreWhole
    PROVE  AppliedIsCommitted
<1>1. PICK G, D, H : StateInv(G, D, H)
  BY DEF LogsAreWhole
<1>2. /\ Core(world, rn, ms, appendQ, sm, G, D, H) /\ ms \in Storages /\ sm \in Nat
      /\ Whole(world, rn, ms, appendQ, applyQ, appendResps, applyResps, sm, G, D, H)
      /\ appendQ \in Seq(Writes)
  BY <1>1, StateFacts
<1>3. /\ BatchInv(world, rn, ms, applyQ, applyResps, sm, D[0]) /\ applyQ \in Seq(Batches)
  BY <1>2 DEF Whole
<1>4. Store(ms, D[0]) /\ D[0] \in Seq(Entry)
  <2>1. 0 \in 0..Len(appendQ)
    BY <1>2
  <2> QED BY <2>1, <1>2 DEF Core, Disks
<1>5. ASSUME NEW i \in Nat, i > 0, NEW e, OnDisk(ms, D[0], i, e)
      PROVE  i <= ms.index \/ entryAt(newRaft(ms), ms, i) = e
  <2>1. CASE i <= ms.index
    BY <2>1
  <2>2. CASE ~(i <= ms.index)
    <3>1. PICK b \in Nat : b = ms.index
      BY <1>2, StorageTypes
    <3>2. PICK l \in Nat : l = Len(ms.ents)
      BY <1>2, StorageTypes
    <3>3. i <= b + l /\ D[0][i] = e /\ Len(D[0]) = b + l
      BY <2>2, <3>1, <3>2, <1>4, <1>5 DEF OnDisk, Store
    <3>4. newRaft(ms).offset = b + l + 1
      BY <3>1, <3>2 DEF newRaft, storageLast
    <3>5. ~(i >= b + l + 1) /\ i \in (b + 1)..(b + l) /\ i > b
      BY <2>2, <3>1, <3>3
    <3>6. entryAt(newRaft(ms), ms, i) = ms.ents[i - b]
      <4>1. PICK x : x = newRaft(ms)
        OBVIOUS
      <4>2. ~(i >= x.offset)
        BY <4>1, <3>4, <3>5
      <4>3. i \in (ms.index + 1)..storageLast(ms)
        BY <3>1, <3>2, <3>5 DEF storageLast
      <4>4. entryAt(x, ms, i) = ms.ents[i - ms.index]
        BY <4>2, <4>3 DEF entryAt
      <4> QED BY <4>1, <4>4, <3>1
    <3>7. PICK j \in 1..l : j = i - b
      BY <3>5
    <3>8. ms.ents[j] = D[0][b + j] /\ b + j = i
      <4>1. b + j = i
        BY <3>7
      <4>2. j \in 1..Len(ms.ents)
        BY <3>2
      <4>3. ms.ents[j] = D[0][ms.index + j]
        BY <4>2, <1>4 DEF Store
      <4> QED BY <4>1, <4>3, <3>1
    <3> QED BY <3>3, <3>6, <3>7, <3>8
  <2> QED BY <2>1, <2>2
<1>7. ASSUME NEW k \in 1..Len(applyQ), NEW b,
             b = IF k = 1 THEN sm ELSE applyQ[k - 1].from + Len(applyQ[k - 1].ents) - 1
      PROVE  applyQ[k].from <= MaxOf(sm, b) + 1
  BY <1>3, <1>7 DEF BatchInv, BatchEnd
<1>8. DOMAIN applyQ = 1..Len(applyQ) /\ \A k \in 1..Len(applyQ) : DOMAIN applyQ[k].ents = 1..Len(applyQ[k].ents)
  BY <1>3, BatchTypes
<1> SUFFICES ASSUME NEW k \in DOMAIN applyQ,
                    NEW before, before = IF k = 1 THEN sm ELSE applyQ[k - 1].from + Len(applyQ[k - 1].ents) - 1
             PROVE  /\ applyQ[k].from <= MaxOf(sm, before) + 1
                    /\ \A j \in DOMAIN applyQ[k].ents :
                        LET i == applyQ[k].from + j - 1
                        IN  /\ \E t \in DOMAIN world.log :
                                i <= world.commit[t] /\ world.log[t][i] = applyQ[k].ents[j]
                            /\ world.async =>
                                i <= ms.index \/ entryAt(newRaft(ms), ms, i) = applyQ[k].ents[j]
  BY Zenon DEF AppliedIsCommitted
<1>9. k \in 1..Len(applyQ) /\ DOMAIN applyQ[k].ents = 1..Len(applyQ[k].ents)
  BY <1>8
<1>10. applyQ[k].from <= MaxOf(sm, before) + 1
  BY <1>7, <1>9
<1>11. ASSUME NEW j \in DOMAIN applyQ[k].ents
       PROVE  /\ \E t \in DOMAIN world.log :
                    applyQ[k].from + j - 1 <= world.commit[t]
                      /\ world.log[t][applyQ[k].from + j - 1] = applyQ[k].ents[j]
              /\ world.async =>
                    applyQ[k].from + j - 1 <= ms.index
                      \/ entryAt(newRaft(ms), ms, applyQ[k].from + j - 1) = applyQ[k].ents[j]
  <2>i. PICK i : i = applyQ[k].from + j - 1
    OBVIOUS
  <2>j. j \in 1..Len(applyQ[k].ents)
    BY <1>9
  <2>1. BatchOK(world, rn, applyQ[k])
    BY <1>3, <1>9 DEF BatchInv
  <2>2. PICK f \in Nat : f = applyQ[k].from
    BY <1>3, <1>9, <2>j, BatchTypes
  <2>3. f > 0 /\ Committed(world, i, applyQ[k].ents[j])
    BY <2>1, <2>2, <2>i, <2>j DEF BatchOK
  <2>4. j \in Nat /\ j >= 1
    BY <1>3, <1>9, <2>j, BatchTypes
  <2>5. i \in Nat /\ i > 0
    BY <2>2, <2>3, <2>4, <2>i
  <2>6. world.async => OnDisk(ms, D[0], i, applyQ[k].ents[j])
    BY <1>3, <1>9, <2>i, <2>j DEF BatchInv
  <2>7. \E t \in DOMAIN world.log : i <= world.commit[t] /\ world.log[t][i] = applyQ[k].ents[j]
    BY <2>3 DEF Committed
  <2>8. world.async => i <= ms.index \/ entryAt(newRaft(ms), ms, i) = applyQ[k].ents[j]
    BY <2>5, <2>6, <1>5
  <2> QED BY <2>i, <2>7, <2>8, Zenon
<1> QED BY <1>10, <1>11

\* What the apply thread is given is committed by the cluster at these indexes, on
\* disk when writes are asynchronous, and follows what was applied without a gap.
THEOREM OnlyCommittedIsApplied == Spec => []AppliedIsCommitted
<1>1. LogsAreWhole => AppliedIsCommitted
  BY WholeApplied
<1> QED BY <1>1, LogsStayWhole, PTL

\* The invariant implies RestartInRange, when the application snapshots carefully.
LEMMA WholeRestarts ==
    ASSUME LogsAreWhole, CarefulSnapshots
    PROVE  RestartInRange
<1>1. PICK G, D, H : StateInv(G, D, H)
  BY DEF LogsAreWhole
<1>2. Core(world, rn, ms, appendQ, sm, G, D, H) /\ ms \in Storages
  BY <1>1, StateFacts
<1>3. SUFFICES ASSUME NEW m \in CrashDisks PROVE CanRestart(m)
  BY DEF RestartInRange
<1>4. PICK d : Crashed(world, ms, m, d)
  BY <1>1, CrashDiskIs
<1>5. m \in Storages /\ m.hs = ms.hs /\ m.index = ms.index /\ m.snapshot = ms.snapshot
  BY <1>4 DEF Crashed
<1>6. PICK i \in Nat : i = m.index
  BY <1>5, StorageTypes
<1>7. PICK s \in Nat : s = m.snapshot.index
  BY <1>5, StorageTypes
<1>8. PICK c \in Nat : c = m.hs.commit
  BY <1>5, StorageTypes
<1>9. i <= s /\ s <= c
  BY <1>2, <1>5, <1>6, <1>7, <1>8 DEF Core, Queue
<1>10. c <= storageLast(m)
  BY <1>4, <1>5, <1>8 DEF Crashed, CommitOK, Store, storageLast
<1>11. MaxOf(i, s) <= c
  BY <1>9 DEF MaxOf
<1> QED BY <1>6, <1>7, <1>8, <1>10, <1>11 DEF CanRestart

\* Whenever the process dies, between two saves or in the middle of one, what is on
\* disk satisfies the assertions of loadState and appliedTo, provided the application
\* saves a Ready as Torn says (entries before the HardState, a snapshot together with
\* both) and snapshots only up to the saved commit index (CarefulSnapshots).
THEOREM RestartFindsItsRange ==
    ASSUME CarefulSnapshots
    PROVE  Spec => []RestartInRange
<1>1. LogsAreWhole => RestartInRange
  BY WholeRestarts
<1> QED BY <1>1, LogsStayWhole, PTL

-----------------------------------------------------------------------------
(* One log, as DurableLog has it.                                          *)

\* The whole log s, compacted up to i, with term T and commit index c.
LogOf(T, c, i, s) ==
    [Term |-> T, committed |-> c, index |-> i, term |-> IF i = 0 THEN 0 ELSE s[i].term,
     ents |-> [k \in 1..(Len(s) - i) |-> s[i + k]]]

\* What raft sees is its whole log, from its first index on.
LEMMA ViewIs ==
    ASSUME NEW w, NEW r, NEW m, NEW q, NEW a, NEW G, NEW D, NEW H, Core(w, r, m, q, a, G, D, H)
    PROVE  View(r, m) = LogOf(r.Term, r.committed, firstIndex(r, m) - 1, G)
<1>1. PICK f \in Nat, n \in Nat : f = firstIndex(r, m) /\ n = Len(G) /\ f - 1 \in Nat /\ f - 1 <= n
  <2>1. /\ firstIndex(r, m) \in Nat /\ firstIndex(r, m) - 1 \in Nat /\ Len(G) \in Nat /\ r.committed \in Nat
        /\ firstIndex(r, m) - 1 <= r.committed /\ r.committed <= Len(G)
    BY FirstIs
  <2> QED BY <2>1
<1>2. lastIndex(r, m) = n
  BY <1>1, LastIs
<1>3. term(r, m, f - 1) = IF f - 1 = 0 THEN 0 ELSE G[f - 1].term
  <2>1. CASE f - 1 = 0
    <3>0. r \in Nodes /\ m \in Storages
      BY DEF Core
    <3>1. r.snapshot = NoSnap
      <4>1. SUFFICES ASSUME r.snapshot # NoSnap PROVE FALSE
        OBVIOUS
      <4>2. r.applying < r.snapshot.index
        BY <4>1 DEF Core, Pending
      <4>3. f - 1 = r.snapshot.index
        BY <1>1, <4>1, FirstIs
      <4>4. r.applying \in Nat
        BY <3>0, NodeTypes
      <4> QED BY <4>2, <4>3, <4>4, <2>1
    <3>2. m.index = 0
      <4>1. f - 1 = m.index
        BY <1>1, <3>1, FirstIs
      <4> QED BY <4>1, <2>1
    <3>3. m.term = 0
      BY <3>2 DEF Core, Disks, Store
    <3>4. 0 \notin r.offset..unstableLast(r)
      <4>1. r.offset > 0
        BY DEF Core, Memory, TailOf
      <4>2. r.offset \in Nat
        BY <3>0, NodeTypes
      <4> QED BY <4>1, <4>2
    <3>5. StorageTerm(m, 0) = 0
      BY <3>2, <3>3 DEF StorageTerm
    <3> QED BY <2>1, <3>1, <3>4, <3>5 DEF term
  <2>2. CASE f - 1 # 0
    <3>1. PICK i \in Nat : i = f - 1 /\ i > 0 /\ i <= Len(G) /\ firstIndex(r, m) - 1 <= i
      BY <1>1, <2>2
    <3>2. term(r, m, i) = G[i].term
      BY <3>1, TermIs
    <3> QED BY <3>1, <3>2, <2>2
  <2> QED BY <2>1, <2>2
<1>4. slice(r, m, f, n + 1) = [k \in 1..(n - (f - 1)) |-> G[f - 1 + k]]
  <2>1. ASSUME NEW k \in 1..(n - (f - 1)) PROVE entryAt(r, m, f + k - 1) = G[f - 1 + k]
    <3>1. PICK i \in Nat : i = f + k - 1 /\ i = f - 1 + k /\ f <= i /\ i <= n
      BY <1>1
    <3>2. i \in firstIndex(r, m)..Len(G)
      BY <3>1, <1>1
    <3>3. entryAt(r, m, i) = G[i]
      BY <3>2, EntryIs
    <3> QED BY <3>1, <3>3
  <2>2. n + 1 - f = n - (f - 1)
    BY <1>1
  <2> QED BY <2>1, <2>2 DEF slice
<1> QED BY <1>1, <1>2, <1>3, <1>4 DEF View, LogOf

\* What is on disk is the whole log there, from what is compacted on.
LEMMA StoredIs ==
    ASSUME NEW m \in Storages, NEW d \in Seq(Entry), Store(m, d)
    PROVE  Stored(m) = LogOf(m.hs.Term, m.hs.commit, m.index, d)
<1>1. PICK i \in Nat, n \in Nat : i = m.index /\ n = Len(m.ents) /\ Len(d) = i + n
  BY StorageTypes DEF Store
<1>2. m.term = IF i = 0 THEN 0 ELSE d[i].term
  BY <1>1 DEF Store
<1>3. m.ents = [k \in 1..n |-> d[i + k]]
  <2>1. m.ents \in Seq(Entry)
    BY StorageTypes
  <2>2. m.ents = [k \in 1..n |-> m.ents[k]]
    BY <1>1, <2>1
  <2>3. \A k \in 1..n : m.ents[k] = d[i + k]
    BY <1>1 DEF Store
  <2> QED BY <2>2, <2>3
<1>4. Len(d) - i = n
  BY <1>1
<1> QED BY <1>1, <1>2, <1>3, <1>4 DEF Stored, LogOf

\* How a step of raft may change the node, as far as DurableLog sees it.
Moves(r, r2) ==
    /\ r2.Term >= r.Term /\ r2.committed >= r.committed
    /\ r2.snapshot = r.snapshot \/ (r2.snapshot # NoSnap /\ r2.snapshot.index > r.committed)

\* What truncateAndAppend leaves alone, wherever it cuts.
LEMMA TruncateFrame ==
    ASSUME NEW r \in Nodes, NEW from, NEW ents, NEW x, x = truncateAndAppend(r, from, ents)
    PROVE  /\ x.Term = r.Term /\ x.committed = r.committed /\ x.snapshot = r.snapshot
           /\ "committed" \in DOMAIN x
BY DEF truncateAndAppend, Nodes

\* commitTo never moves the commit index back.
LEMMA CommitToFrame ==
    ASSUME NEW x, "committed" \in DOMAIN x, x.committed \in Nat, NEW c \in Nat, NEW y, y = commitTo(x, c)
    PROVE  y.Term = x.Term /\ y.committed >= x.committed /\ y.snapshot = x.snapshot
<1>1. y.committed = MaxOf(x.committed, c) /\ y.Term = x.Term /\ y.snapshot = x.snapshot
  BY DEF commitTo
<1> QED BY <1>1 DEF MaxOf

\* A step of raft never lowers its term or its commit index, and changes the
\* pending snapshot only for one above the commit index.
LEMMA RaftStepMoves ==
    ASSUME NEW G, NEW D, NEW H, StateInv(G, D, H), RaftStep
    PROVE  Moves(rn, rn') /\ Quiet
<1>0. rn \in Nodes /\ rn.Term \in Nat /\ rn.committed \in Nat /\ world \in Worlds
  BY StateFacts
<1>1. CASE \E t \in DOMAIN world.log : BecomeTerm(t)
  <2>1. PICK t \in DOMAIN world.log : BecomeTerm(t)
    BY <1>1
  <2>2. rn'.Term = t /\ rn'.committed = rn.committed /\ rn'.snapshot = rn.snapshot
    BY <2>1, <1>0 DEF BecomeTerm, Nodes
  <2>3. t \in Nat /\ t > rn.Term
    BY <2>1, <1>0, WorldTypes DEF BecomeTerm
  <2> QED BY <1>0, <2>1, <2>2, <2>3 DEF Moves, BecomeTerm
<1>2. ASSUME NEW r1 \in Nodes, r1.Term = rn.Term, r1.committed = rn.committed, r1.snapshot = rn.snapshot,
             NEW e, rn' = appendEntry(r1, ms, e)
      PROVE  Moves(rn, rn')
  <2>1. PICK r2 : r2 = increaseUncommittedSize(r1, e.size)
    OBVIOUS
  <2>2. rn' = truncateAndAppend(r2, lastIndex(r1, ms) + 1, <<e>>)
    BY <1>2, <2>1 DEF appendEntry
  <2>3. r2.Term = r1.Term /\ r2.committed = r1.committed /\ r2.snapshot = r1.snapshot
    BY <2>1 DEF increaseUncommittedSize, Nodes
  <2>4. rn'.Term = r2.Term /\ rn'.committed = r2.committed /\ rn'.snapshot = r2.snapshot
    BY <2>1, <2>2 DEF truncateAndAppend, increaseUncommittedSize, Nodes
  <2> QED BY <1>0, <1>2, <2>3, <2>4 DEF Moves
<1>3. CASE BecomeLeader
  <2>1. PICK r1 : r1 = [rn EXCEPT !.state = "StateLeader"]
    OBVIOUS
  <2>2. r1 \in Nodes /\ r1.Term = rn.Term /\ r1.committed = rn.committed /\ r1.snapshot = rn.snapshot
    BY <1>0, <2>1 DEF Nodes
  <2>3. PICK e : rn' = appendEntry(r1, ms, e) /\ Quiet
    BY <1>3, <2>1 DEF BecomeLeader
  <2> QED BY <1>2, <2>2, <2>3
<1>4. CASE Propose
  <2>3. PICK e : rn' = appendEntry(rn, ms, e) /\ Quiet
    BY <1>4 DEF Propose
  <2> QED BY <1>0, <1>2, <2>3
<1>5. CASE rn.Term > 0 /\ \E i \in 1..Len(Leader) : LeaderCommit(i) \/ HandleSnapshot(i)
  <2>1. PICK i \in 1..Len(Leader) : LeaderCommit(i) \/ HandleSnapshot(i)
    BY <1>5
  <2>0. i \in Nat
    <3>1. Len(Leader) \in Nat
      BY <1>0, <1>5, WorldTypes, StateFacts DEF Leader
    <3> QED BY <3>1
  <2>2. "committed" \in DOMAIN rn
    BY <1>0 DEF Nodes
  <2>3. CASE LeaderCommit(i)
    <3>1. rn'.Term = rn.Term /\ rn'.committed >= rn.committed /\ rn'.snapshot = rn.snapshot
      BY <1>0, <2>0, <2>2, <2>3, CommitToFrame DEF LeaderCommit
    <3> QED BY <1>0, <2>3, <3>1 DEF Moves, LeaderCommit
  <2>4. CASE HandleSnapshot(i)
    <3>0. Quiet /\ i > rn.committed
      <4>1. rn.Term \in DOMAIN world.log
        BY <1>5, StateFacts
      <4>2. world.commit[rn.Term] \in Nat
        BY <4>1, <1>0, WorldTypes
      <4>3. Quiet /\ i \in (rn.committed + 1)..world.commit[rn.Term]
        BY <2>4 DEF HandleSnapshot
      <4> QED BY <4>2, <4>3, <1>0
    <3>1. CASE rn' = commitTo(rn, i)
      <4>1. rn'.Term = rn.Term /\ rn'.committed >= rn.committed /\ rn'.snapshot = rn.snapshot
        BY <1>0, <2>0, <2>2, <3>1, CommitToFrame
      <4> QED BY <1>0, <3>0, <4>1 DEF Moves
    <3>2. ASSUME NEW s, s = [index |-> i, term |-> Leader[i].term],
                 rn' = unstableRestore([rn EXCEPT !.committed = i], s)
          PROVE  Moves(rn, rn')
      <4>1. rn'.Term = rn.Term /\ rn'.committed = i /\ rn'.snapshot = s
        BY <1>0, <3>2 DEF unstableRestore, Nodes
      <4>2. s.index = i /\ s # NoSnap
        <5>1. s.index = i /\ NoSnap.index = 0
          BY <3>2 DEF NoSnap
        <5> QED BY <5>1
      <4> QED BY <1>0, <2>0, <3>0, <4>1, <4>2 DEF Moves
    <3> QED BY <2>4, <3>0, <3>1, <3>2 DEF HandleSnapshot
  <2> QED BY <2>1, <2>3, <2>4
<1>6. CASE rn.Term > 0 /\ \E p, q, c \in 0..Len(Leader) : HandleAppendEntries(p, q, c)
  <2>1. PICK p, q, c \in 0..Len(Leader) : HandleAppendEntries(p, q, c)
    BY <1>6
  <2>0. c \in Nat
    <3>1. Len(Leader) \in Nat
      BY <1>0, <1>6, WorldTypes, StateFacts DEF Leader
    <3> QED BY <3>1
  <2>2. PICK x : /\ rn' = commitTo(x, c) /\ Quiet
                 /\ x = IF conflict(p, q) = 0 THEN rn
                        ELSE truncateAndAppend(rn, conflict(p, q), SubSeq(Leader, conflict(p, q), q))
    BY <2>1 DEF HandleAppendEntries
  <2>3. "committed" \in DOMAIN x /\ x.Term = rn.Term /\ x.committed = rn.committed /\ x.snapshot = rn.snapshot
    <3>1. CASE conflict(p, q) = 0
      BY <3>1, <2>2, <1>0 DEF Nodes
    <3>2. CASE conflict(p, q) # 0
      BY <3>2, <2>2, <1>0, TruncateFrame
    <3> QED BY <3>1, <3>2
  <2>4. rn'.Term = x.Term /\ rn'.committed >= x.committed /\ rn'.snapshot = x.snapshot
    BY <1>0, <2>0, <2>2, <2>3, CommitToFrame
  <2> QED BY <1>0, <2>2, <2>3, <2>4 DEF Moves
<1> QED BY <1>1, <1>3, <1>4, <1>5, <1>6 DEF RaftStep

\* What DurableLog lets raft do to the log.
IsWrite(l, l2) ==
    /\ l2.Term >= l.Term
    /\ l2.committed >= l.committed
    /\ l2.committed <= l2.index + Len(l2.ents)
    /\ \/ /\ l2.index = l.index /\ l2.term = l.term
          /\ \A i \in 1..(l.committed - l.index) : l2.ents[i] = l.ents[i]
       \/ l2.index > l.committed

\* l is the log s of length n, compacted up to i.
Fields(l, T, c, i, s, n) ==
    /\ l.Term = T /\ l.committed = c /\ l.index = i
    /\ l.term = (IF i = 0 THEN 0 ELSE s[i].term)
    /\ Len(l.ents) = n - i /\ \A k \in 1..(n - i) : l.ents[k] = s[i + k]

\* The fields of a log.
LEMMA LogFields ==
    ASSUME NEW T, NEW c, NEW i \in Nat, NEW s \in Seq(Entry), i <= Len(s), NEW l, l = LogOf(T, c, i, s)
    PROVE  Fields(l, T, c, i, s, Len(s))
<1>1. PICK n \in Nat : n = Len(s) - i
  OBVIOUS
<1>2. l.ents = [k \in 1..n |-> s[i + k]]
  BY <1>1 DEF LogOf
<1>3. Len(l.ents) = n
  BY <1>1, <1>2
<1> QED BY <1>1, <1>2, <1>3 DEF LogOf, Fields

\* A step of raft writes to the one log: what is committed stays.
LEMMA MovesWrite ==
    ASSUME NEW w, NEW r, NEW m, NEW q, NEW a, NEW G, NEW D, NEW H, Core(w, r, m, q, a, G, D, H),
           NEW r2, NEW q2, NEW a2, NEW G2, NEW D2, NEW H2, Core(w, r2, m, q2, a2, G2, D2, H2), Moves(r, r2)
    PROVE  IsWrite(View(r, m), View(r2, m))
<1>0. /\ w \in Worlds /\ r \in Nodes /\ r2 \in Nodes /\ G \in Seq(Entry) /\ G2 \in Seq(Entry) /\ m \in Storages
      /\ CommitOK(w, G, r.Term, r.committed) /\ CommitOK(w, G2, r2.Term, r2.committed)
  BY DEF Core, Memory
<1>1. PICK i \in Nat, c \in Nat, n \in Nat :
        i = firstIndex(r, m) - 1 /\ c = r.committed /\ n = Len(G) /\ i <= c /\ c <= n
  BY FirstIs
<1>2. PICK i2 \in Nat, c2 \in Nat, n2 \in Nat :
        i2 = firstIndex(r2, m) - 1 /\ c2 = r2.committed /\ n2 = Len(G2) /\ i2 <= c2 /\ c2 <= n2
  BY FirstIs
<1>3. c <= c2 /\ r2.Term >= r.Term
  BY <1>1, <1>2 DEF Moves
<1>4. Same(c, G, G2)
  BY <1>0, <1>1, <1>2, <1>3, CommittedSame
<1>5. PICK l : l = LogOf(r.Term, c, i, G) /\ l = View(r, m)
  BY <1>1, ViewIs
<1>6. PICK l2 : l2 = LogOf(r2.Term, c2, i2, G2) /\ l2 = View(r2, m)
  BY <1>2, ViewIs
<1>7. /\ l.Term = r.Term /\ l.committed = c /\ l.index = i
      /\ l.term = (IF i = 0 THEN 0 ELSE G[i].term)
      /\ Len(l.ents) = n - i /\ \A k \in 1..(n - i) : l.ents[k] = G[i + k]
  <2>1. Fields(l, r.Term, c, i, G, n)
    <3>1. i <= Len(G)
      BY <1>1
    <3> QED BY <1>0, <1>1, <1>5, <3>1, LogFields
  <2> QED BY <2>1 DEF Fields
<1>8. /\ l2.Term = r2.Term /\ l2.committed = c2 /\ l2.index = i2
      /\ l2.term = (IF i2 = 0 THEN 0 ELSE G2[i2].term)
      /\ Len(l2.ents) = n2 - i2 /\ \A k \in 1..(n2 - i2) : l2.ents[k] = G2[i2 + k]
  <2>1. Fields(l2, r2.Term, c2, i2, G2, n2)
    <3>1. i2 <= Len(G2)
      BY <1>2
    <3> QED BY <1>0, <1>2, <1>6, <3>1, LogFields
  <2> QED BY <2>1 DEF Fields
<1>9. l2.committed <= l2.index + Len(l2.ents)
  BY <1>2, <1>8
<1>10. CASE r2.snapshot = r.snapshot
  <2>1. i2 = i
    BY <1>10, <1>1, <1>2 DEF firstIndex
  <2>2. l2.term = l.term
    <3>0. i = 0 \/ i \in 1..c
      <4>1. i <= c
        BY <1>1
      <4> QED BY <4>1
    <3>1. i = 0 \/ G[i] = G2[i]
      BY <3>0, <1>4 DEF Same
    <3> QED BY <3>1, <2>1, <1>7, <1>8
  <2>3. ASSUME NEW k \in 1..(c - i) PROVE l2.ents[k] = l.ents[k]
    <3>1. k \in 1..(n - i) /\ k \in 1..(n2 - i) /\ i + k \in 1..c
      BY <1>1, <1>2, <1>3, SMTT(20)
    <3>2. G[i + k] = G2[i + k]
      BY <3>1, <1>4 DEF Same
    <3> QED BY <3>1, <3>2, <2>1, <1>7, <1>8
  <2> QED BY <1>3, <1>5, <1>6, <1>7, <1>8, <1>9, <2>1, <2>2, <2>3 DEF IsWrite
<1>11. CASE r2.snapshot # NoSnap /\ r2.snapshot.index > r.committed
  <2>1. i2 = r2.snapshot.index
    BY <1>11, <1>2, FirstIs
  <2>2. i2 > c
    BY <2>1, <1>1, <1>11
  <2> QED BY <1>3, <1>5, <1>6, <1>7, <1>8, <1>9, <2>2 DEF IsWrite
<1> QED BY <1>10, <1>11 DEF Moves

\* A step of raft that changes the log in memory, and nothing on disk or in the
\* queue, is a step of DurableLog.
LEMMA WriteStep ==
    ASSUME NEW G, NEW D, NEW H, StateInv(G, D, H), RaftStep
    PROVE  Durable!Next
<1>1. LogsAreWhole /\ [Next]_vars
  BY DEF LogsAreWhole, Next
<1>2. PICK G2, D2, H2 : StateInv(G2, D2, H2)'
  BY <1>1, NextInv DEF LogsAreWhole
<1>3. Moves(rn, rn') /\ Quiet
  BY RaftStepMoves
<1>4. Core(world, rn, ms, appendQ, sm, G, D, H)
  BY StateFacts
<1>5. Core(world', rn', ms', appendQ', sm', G2, D2, H2)
  BY <1>2 DEF StateInv, Whole
<1>6. IsWrite(View(rn, ms), View(rn', ms))
  BY <1>3, <1>4, <1>5, MovesWrite DEF Quiet
<1>7. View(rn, ms)' = View(rn', ms) /\ Stored(ms)' = Stored(ms) /\ Queued' = Queued
  BY <1>3 DEF Quiet, Queued
<1>8. Durable!Write
  BY <1>6, <1>7 DEF Durable!Write, Durable!Last, IsWrite
<1> QED BY <1>8 DEF Durable!Next

\* The log that raft sees depends on the whole log and on where it begins.
LEMMA SameView ==
    ASSUME NEW w, NEW r, NEW m, NEW q, NEW a, NEW G, NEW D, NEW H, Core(w, r, m, q, a, G, D, H),
           NEW w2, NEW r2, NEW m2, NEW q2, NEW a2, NEW D2, NEW H2, Core(w2, r2, m2, q2, a2, G, D2, H2),
           r2.Term = r.Term, r2.committed = r.committed, firstIndex(r2, m2) = firstIndex(r, m)
    PROVE  View(r2, m2) = View(r, m)
BY ViewIs

\* Nor does a pending snapshot that Storage begins with make a difference.
LEMMA SameLogView ==
    ASSUME NEW w, NEW r, NEW m, NEW q, NEW a, NEW G, NEW D, NEW H, Core(w, r, m, q, a, G, D, H),
           NEW r2, NEW q2, NEW a2, NEW D2, NEW H2, Core(w, r2, m, q2, a2, G, D2, H2), SameLog(r, r2, m)
    PROVE  View(r2, m) = View(r, m)
<1>1. r2.Term = r.Term /\ r2.committed = r.committed
  BY DEF SameLog
<1>2. firstIndex(r2, m) = firstIndex(r, m)
  <2>1. CASE r2.snapshot = r.snapshot
    BY <2>1 DEF firstIndex
  <2>2. CASE r2.snapshot = NoSnap /\ m.index = r.snapshot.index
    BY <2>2 DEF firstIndex
  <2> QED BY <2>1, <2>2 DEF SameLog
<1> QED BY <1>1, <1>2, SameView

\* Acknowledgments, and the apply thread, do not change any log: "stable" is
\* nothing that raft sees.
LEMMA AckStep ==
    ASSUME NEW G, NEW D, NEW H, StateInv(G, D, H),
           StepAppendResp \/ StepApplyResp \/ Advance \/ ProcessApply
    PROVE  UNCHANGED Durable!vars
<1>1. StateInv(G, D, H)' /\ SameLog(rn, rn', ms) /\ UNCHANGED <<world, ms, appendQ>>
  <2>1. CASE StepAppendResp
    BY <2>1, StepAppendRespInv DEF StepAppendResp
  <2>2. CASE StepApplyResp
    BY <2>2, StepApplyRespInv DEF StepApplyResp
  <2>3. CASE Advance
    BY <2>3, AdvanceInv DEF Advance, Quiet
  <2>4. CASE ProcessApply
    <3>1. UNCHANGED <<world, rn, ms, appendQ>>
      BY <2>4 DEF ProcessApply
    <3>2. SameLog(rn, rn', ms)
      BY <3>1 DEF SameLog
    <3> QED BY <2>4, <3>1, <3>2, ProcessApplyInv
  <2> QED BY <2>1, <2>2, <2>3, <2>4
<1>2. Core(world, rn, ms, appendQ, sm, G, D, H)
  BY StateFacts
<1>3. Core(world, rn', ms, appendQ, sm', G, D, H)
  BY <1>1 DEF StateInv, Whole
<1>4. View(rn', ms) = View(rn, ms)
  BY <1>1, <1>2, <1>3, SameLogView
<1>5. View(rn, ms)' = View(rn, ms) /\ Stored(ms)' = Stored(ms) /\ Queued' = Queued
  BY <1>1, <1>4 DEF Queued
<1> QED BY <1>5 DEF Durable!vars

-----------------------------------------------------------------------------
(* Storage after each of the queued writes.                                *)

\* F is Storage now and after each write of q.
IsAfter(F, m, q) ==
    F = [k \in 0..Len(q) |-> IF k = 0 THEN m ELSE Written(F[k - 1], q[k])]

\* There is one: by induction over the queue.
LEMMA AfterExists ==
    ASSUME NEW m, NEW q, NEW n \in Nat, n = Len(q)
    PROVE  \E F : IsAfter(F, m, q)
<1> DEFINE Up(F, j) == F = [k \in 0..j |-> IF k = 0 THEN m ELSE Written(F[k - 1], q[k])]
           S == {j \in Nat : \E F : Up(F, j)}
<1>1. 0 \in S
  <2>1. PICK F : F = [k \in 0..0 |-> m]
    OBVIOUS
  <2>2. \A k \in 0..0 : k = 0
    OBVIOUS
  <2>3. Up(F, 0)
    BY <2>1, <2>2
  <2> QED BY <2>3
<1>2. ASSUME NEW j \in Nat, j \in S PROVE j + 1 \in S
  <2>1. PICK F : Up(F, j)
    BY <1>2
  <2>2. PICK E : E = [k \in 0..(j + 1) |-> IF k = j + 1 THEN Written(F[j], q[j + 1]) ELSE F[k]]
    OBVIOUS
  <2>3. \A k \in 0..j : F[k] = IF k = 0 THEN m ELSE Written(F[k - 1], q[k])
    BY <2>1
  <2>4. \A k \in 0..j : E[k] = F[k]
    BY <2>2
  <2>5. E[j + 1] = Written(F[j], q[j + 1])
    BY <2>2
  <2>6. ASSUME NEW k \in 0..(j + 1) PROVE E[k] = IF k = 0 THEN m ELSE Written(E[k - 1], q[k])
    <3>1. CASE k = j + 1
      <4>1. k # 0 /\ k - 1 = j /\ j \in 0..j
        BY <3>1
      <4> QED BY <3>1, <4>1, <2>4, <2>5
    <3>2. CASE k # j + 1
      <4>1. k \in 0..j
        BY <3>2
      <4>2. k # 0 => k - 1 \in 0..j
        BY <4>1
      <4> QED BY <4>1, <4>2, <2>3, <2>4
    <3> QED BY <3>1, <3>2
  <2>7. E = [k \in 0..(j + 1) |-> E[k]]
    BY <2>2
  <2>8. Up(E, j + 1)
    BY <2>6, <2>7
  <2> QED BY <2>8
<1> HIDE DEF S
<1>3. \A j \in Nat : j \in S
  BY <1>1, <1>2, NatSetInduction
<1>4. n \in S
  BY <1>3
<1> QED BY <1>4 DEF S, IsAfter

\* After(m, q) is what Queued means by after.
After(m, q) == CHOOSE F : IsAfter(F, m, q)

\* Queued holds the logs that these are.
LEMMA QueuedIs ==
    Queued = [k \in DOMAIN appendQ |-> Stored(After(ms, appendQ)[k])]
BY DEF Queued, After, IsAfter

\* Element by element; n is the length of the queue.
Chain(F, m, q, n) == F[0] = m /\ \A k \in 1..n : F[k] = Written(F[k - 1], q[k])

\* After is such a chain.
LEMMA AfterIsOne ==
    ASSUME NEW m, NEW q, NEW n \in Nat, n = Len(q), NEW F, F = After(m, q)
    PROVE  Chain(F, m, q, n)
<1>1. IsAfter(F, m, q)
  BY AfterExists DEF After
<1>2. F = [k \in 0..n |-> IF k = 0 THEN m ELSE Written(F[k - 1], q[k])]
  BY <1>1 DEF IsAfter
<1>3. F[0] = m
  BY <1>2
<1>4. ASSUME NEW k \in 1..n PROVE F[k] = Written(F[k - 1], q[k])
  <2>1. k \in 0..n /\ k # 0
    OBVIOUS
  <2> QED BY <2>1, <1>2
<1> QED BY <1>3, <1>4 DEF Chain

\* Storage x holds log d and HardState h.
Holds(x, d, h) == x \in Storages /\ Store(x, d) /\ x.hs = h

\* Where the log on disk begins after the k-th write, and by what snapshot.
Begins(x, m, q, k) ==
    \/ x.index = m.index /\ x.snapshot = m.snapshot
    \/ \E j \in 1..k : x.index = q[j].snapshot.index /\ x.snapshot = q[j].snapshot

\* Each write turns the Storage before it into the one after it.
Afters(F, m, q, D, H) ==
    /\ F[0] = m
    /\ \A k \in 0..Len(q) : Holds(F[k], D[k], H[k])
    /\ \A k \in 1..Len(q) : Wrote(F[k - 1], q[k], F[k])

\* The writes' own conditions hold one after the other: by induction.
LEMMA AftersAre ==
    ASSUME NEW w, NEW m \in Storages, NEW q \in Seq(Writes), NEW a \in Nat, NEW D, NEW H,
           Disks(w, m, q, D, H), Queue(m, q, a), NEW F, F = After(m, q)
    PROVE  Afters(F, m, q, D, H)
<1>1. PICK n \in Nat : n = Len(q)
  OBVIOUS
<1>2. F[0] = m /\ \A k \in 1..n : F[k] = Written(F[k - 1], q[k])
  <2>1. Chain(F, m, q, n)
    BY <1>1, AfterIsOne
  <2> QED BY <2>1 DEF Chain
<1>3. /\ \A k \in 0..n : D[k] \in Seq(Entry)
      /\ Store(m, D[0]) /\ H[0] = m.hs
      /\ \A k \in 1..n : Saves(D[k - 1], q[k], D[k]) /\ H[k] = NextHS(H[k - 1], q[k])
  BY <1>1 DEF Disks
<1> DEFINE Good(k) == Holds(F[k], D[k], H[k]) /\ Begins(F[k], m, q, k)
           S == {k \in Nat : k <= n => /\ Good(k)
                                       /\ k > 0 => Wrote(F[k - 1], q[k], F[k])}
<1>4. 0 \in S
  BY <1>2, <1>3 DEF Holds, Begins
<1>5. ASSUME NEW k \in Nat, k \in S PROVE k + 1 \in S
  <2>1. SUFFICES ASSUME k + 1 <= n PROVE Good(k + 1) /\ Wrote(F[k], q[k + 1], F[k + 1])
    OBVIOUS
  <2>2. Holds(F[k], D[k], H[k]) /\ Begins(F[k], m, q, k)
    BY <1>5, <2>1
  <2>3. k + 1 \in 1..n /\ k \in 0..n /\ k + 1 \in 0..n /\ (k + 1) - 1 = k
    BY <2>1
  <2>4. PICK x \in Writes : x = q[k + 1]
    BY <2>3, <1>1
  <2>5. Saves(D[k], x, D[k + 1]) /\ H[k + 1] = NextHS(H[k], x) /\ F[k + 1] = Written(F[k], x)
    BY <2>3, <2>4, <1>2, <1>3
  <2>6. F[k] \in Storages /\ Store(F[k], D[k]) /\ F[k].hs = H[k]
    BY <2>2 DEF Holds
  <2>7. /\ F[k].index < x.from
        /\ x.snapshot # NoSnap => F[k].snapshot.index < x.snapshot.index
    <3>1. CASE F[k].index = m.index /\ F[k].snapshot = m.snapshot
      <4>1. m.index < x.from
        BY <2>3, <2>4, <1>1 DEF Queue
      <4>2. x.snapshot # NoSnap => a < x.snapshot.index
        BY <2>3, <2>4, <1>1 DEF Queue
      <4>3. m.snapshot.index <= a
        BY DEF Queue
      <4>4. m.snapshot.index \in Nat /\ x.snapshot.index \in Nat
        BY <2>3, <2>4, <1>1, StorageTypes, WriteTypes
      <4>5. x.snapshot # NoSnap => m.snapshot.index < x.snapshot.index
        BY <4>2, <4>3, <4>4
      <4> QED BY <3>1, <4>1, <4>5
    <3>2. ASSUME NEW j \in 1..k, F[k].index = q[j].snapshot.index, F[k].snapshot = q[j].snapshot
          PROVE  /\ F[k].index < x.from
                 /\ x.snapshot # NoSnap => F[k].snapshot.index < x.snapshot.index
      <4>1. j \in 1..n /\ j < k + 1
        BY <2>3
      <4>2. /\ q[j].snapshot.index < q[k + 1].from
            /\ q[k + 1].snapshot # NoSnap => q[j].snapshot.index < q[k + 1].snapshot.index
        BY <4>1, <2>3, <1>1 DEF Queue
      <4> QED BY <3>2, <4>2, <2>4
    <3> QED BY <3>1, <3>2, <2>2 DEF Begins
  <2>8. Wrote(F[k], x, F[k + 1]) /\ Store(F[k + 1], D[k + 1])
    <3>1. D[k] \in Seq(Entry) /\ D[k + 1] \in Seq(Entry)
      BY <2>3, <1>3
    <3> QED BY <3>1, <2>5, <2>6, <2>7, WrittenIs
  <2>9. Holds(F[k + 1], D[k + 1], H[k + 1])
    BY <2>5, <2>6, <2>8 DEF Holds, Wrote
  <2>10. Begins(F[k + 1], m, q, k + 1)
    <3>1. CASE x.snapshot = NoSnap
      <4>1. F[k + 1].index = F[k].index /\ F[k + 1].snapshot = F[k].snapshot
        BY <2>8, <3>1 DEF Wrote
      <4>2. \A j \in 1..k : j \in 1..(k + 1)
        OBVIOUS
      <4> QED BY <4>1, <4>2, <2>2 DEF Begins
    <3>2. CASE x.snapshot # NoSnap
      <4>1. F[k + 1].index = x.snapshot.index /\ F[k + 1].snapshot = x.snapshot
        BY <2>8, <3>2 DEF Wrote
      <4>2. k + 1 \in 1..(k + 1)
        OBVIOUS
      <4> QED BY <4>1, <4>2, <2>4 DEF Begins
    <3> QED BY <3>1, <3>2
  <2> QED BY <2>4, <2>8, <2>9, <2>10
<1> HIDE DEF S
<1>6. \A k \in Nat : k \in S
  BY <1>4, <1>5, NatSetInduction
<1>7. ASSUME NEW k \in 0..n PROVE Holds(F[k], D[k], H[k])
  <2>1. k \in S /\ k <= n
    BY <1>6
  <2> QED BY <2>1 DEF S
<1>8. ASSUME NEW k \in 1..n PROVE Wrote(F[k - 1], q[k], F[k])
  <2>1. k \in S /\ k <= n /\ k > 0
    BY <1>6
  <2> QED BY <2>1 DEF S
<1> QED BY <1>1, <1>2, <1>7, <1>8 DEF Afters

\* The same for a state of the whole server.
LEMMA CoreAfters ==
    ASSUME NEW w, NEW r, NEW m, NEW q, NEW a, NEW G, NEW D, NEW H, Core(w, r, m, q, a, G, D, H),
           NEW F, F = After(m, q)
    PROVE  Afters(F, m, q, D, H)
BY AftersAre DEF Core

\* When no snapshot is left to be handed out, the last of these logs begins
\* where raft's log begins.
LEMMA LastBegins ==
    ASSUME NEW w, NEW r, NEW m, NEW q, NEW a, NEW G, NEW D, NEW H, Core(w, r, m, q, a, G, D, H),
           NEW F, F = After(m, q), ~hasNextSnapshot(r)
    PROVE  F[Len(q)].index = firstIndex(r, m) - 1
<1>0. Afters(F, m, q, D, H)
  BY CoreAfters
<1>1. PICK n \in Nat : n = Len(q)
  BY DEF Core
<1>2. F[0] = m /\ \A k \in 1..n : Wrote(F[k - 1], q[k], F[k])
  BY <1>0, <1>1 DEF Afters
<1>3. PICK i \in Nat : i = firstIndex(r, m) - 1
  BY FirstIs
<1>4. i = IF r.snapshot # NoSnap THEN r.snapshot.index ELSE m.index
  BY <1>3, FirstIs
<1> DEFINE S == {k \in Nat : k <= n /\ Rel(r, q, k) => F[k].index = i}
<1>5. 0 \in S
  <2>1. CASE r.snapshot = NoSnap
    BY <2>1, <1>2, <1>4
  <2>2. CASE r.snapshot # NoSnap
    <3>1. Rel(r, q, 0) => m.index = r.snapshot.index
      BY <2>2 DEF Core, Link
    <3> QED BY <2>2, <3>1, <1>2, <1>4
  <2> QED BY <2>1, <2>2
<1>6. ASSUME NEW k \in Nat, k \in S PROVE k + 1 \in S
  <2>1. SUFFICES ASSUME k + 1 <= n, Rel(r, q, k + 1) PROVE F[k + 1].index = i
    OBVIOUS
  <2>2. k + 1 \in 1..n /\ (k + 1) - 1 = k /\ k <= n
    BY <2>1
  <2>3. Wrote(F[k], q[k + 1], F[k + 1])
    BY <2>2, <1>2
  <2>4. CASE q[k + 1].snapshot = NoSnap
    <3>1. Rel(r, q, k)
      <4>1. \A j \in (k + 1)..Len(q) : j = k + 1 \/ j \in ((k + 1) + 1)..Len(q)
        BY <1>1
      <4> QED BY <4>1, <2>1, <2>4 DEF Rel
    <3>2. F[k].index = i
      BY <3>1, <2>2, <1>6
    <3> QED BY <3>2, <2>3, <2>4 DEF Wrote
  <2>5. CASE q[k + 1].snapshot # NoSnap
    <3>1. q[k + 1].snapshot = r.snapshot
      BY <2>1, <2>2, <2>5, <1>1 DEF Core, Link
    <3>2. F[k + 1].index = q[k + 1].snapshot.index
      BY <2>3, <2>5 DEF Wrote
    <3> QED BY <3>1, <3>2, <2>5, <1>4
  <2> QED BY <2>4, <2>5
<1> HIDE DEF S
<1>7. \A k \in Nat : k \in S
  BY <1>5, <1>6, NatSetInduction
<1>8. n \in S /\ n <= n
  BY <1>7
<1>9. Rel(r, q, n)
  <2>1. (n + 1)..Len(q) = {}
    BY <1>1
  <2> QED BY <2>1 DEF Rel
<1> QED BY <1>1, <1>3, <1>8, <1>9 DEF S

\* The storages on the way depend only on the writes before them.
LEMMA AfterSame ==
    ASSUME NEW m, NEW q, NEW q2, NEW n \in Nat, NEW n2 \in Nat, n = Len(q), n2 = Len(q2), n <= n2,
           \A k \in 1..n : q2[k] = q[k], NEW F, F = After(m, q), NEW F2, F2 = After(m, q2)
    PROVE  \A k \in 0..n : F2[k] = F[k]
<1>1. F[0] = m /\ \A k \in 1..n : F[k] = Written(F[k - 1], q[k])
  <2>1. Chain(F, m, q, n)
    BY AfterIsOne
  <2> QED BY <2>1 DEF Chain
<1>2. F2[0] = m /\ \A k \in 1..n2 : F2[k] = Written(F2[k - 1], q2[k])
  <2>1. Chain(F2, m, q2, n2)
    BY AfterIsOne
  <2> QED BY <2>1 DEF Chain
<1> DEFINE S == {k \in Nat : k <= n => F2[k] = F[k]}
<1>3. 0 \in S
  BY <1>1, <1>2
<1>4. ASSUME NEW k \in Nat, k \in S PROVE k + 1 \in S
  <2>1. SUFFICES ASSUME k + 1 <= n PROVE F2[k + 1] = F[k + 1]
    OBVIOUS
  <2>2. k + 1 \in 1..n /\ k + 1 \in 1..n2 /\ (k + 1) - 1 = k /\ k <= n
    BY <2>1
  <2>3. F2[k + 1] = Written(F2[k], q2[k + 1]) /\ F[k + 1] = Written(F[k], q[k + 1])
    BY <2>2, <1>1, <1>2
  <2> QED BY <2>2, <2>3, <1>4
<1> HIDE DEF S
<1>5. \A k \in Nat : k \in S
  BY <1>3, <1>4, NatSetInduction
<1> QED BY <1>5 DEF S

\* q2 is q without its first element, of length n.
DropsFirst(q, q2, n) == n + 1 = Len(q) /\ n = Len(q2) /\ \A k \in 1..n : q2[k] = q[k + 1]

\* Once the first write is saved, the others follow as they would have.
LEMMA AfterShift ==
    ASSUME NEW m, NEW q, NEW q2, NEW n \in Nat, DropsFirst(q, q2, n), NEW F, F = After(m, q),
           NEW m2, m2 = Written(m, q[1]), NEW F2, F2 = After(m2, q2)
    PROVE  \A k \in 0..n : F2[k] = F[k + 1]
<1>0. n + 1 \in Nat /\ 1 \in 1..(n + 1) /\ 1 - 1 = 0
  OBVIOUS
<1>6. n + 1 = Len(q) /\ n = Len(q2) /\ \A k \in 1..n : q2[k] = q[k + 1]
  BY DEF DropsFirst
<1>1. F[0] = m /\ \A k \in 1..(n + 1) : F[k] = Written(F[k - 1], q[k])
  <2>1. Chain(F, m, q, n + 1)
    BY <1>0, <1>6, AfterIsOne
  <2> QED BY <2>1 DEF Chain
<1>2. F2[0] = m2 /\ \A k \in 1..n : F2[k] = Written(F2[k - 1], q2[k])
  <2>1. Chain(F2, m2, q2, n)
    BY <1>6, AfterIsOne
  <2> QED BY <2>1 DEF Chain
<1> DEFINE S == {k \in Nat : k <= n => F2[k] = F[k + 1]}
<1>3. 0 \in S
  <2>1. F[1] = Written(F[0], q[1])
    BY <1>0, <1>1
  <2> QED BY <2>1, <1>1, <1>2
<1>4. ASSUME NEW k \in Nat, k \in S PROVE k + 1 \in S
  <2>1. SUFFICES ASSUME k + 1 <= n PROVE F2[k + 1] = F[(k + 1) + 1]
    OBVIOUS
  <2>2. k + 1 \in 1..n /\ (k + 1) + 1 \in 1..(n + 1) /\ (k + 1) - 1 = k /\ ((k + 1) + 1) - 1 = k + 1 /\ k <= n
    BY <2>1
  <2>3. F2[k + 1] = Written(F2[k], q2[k + 1]) /\ F[(k + 1) + 1] = Written(F[k + 1], q[(k + 1) + 1])
    BY <2>2, <1>1, <1>2
  <2>4. q2[k + 1] = q[(k + 1) + 1]
    BY <2>2, <1>6
  <2> QED BY <2>2, <2>3, <2>4, <1>4
<1> HIDE DEF S
<1>5. \A k \in Nat : k \in S
  BY <1>3, <1>4, NatSetInduction
<1> QED BY <1>5 DEF S

\* A sequence with one more element.
LEMMA AppendFun ==
    ASSUME NEW n \in Nat, NEW v, NEW e, NEW s, s = [k \in 1..n |-> v[k]]
    PROVE  Append(s, e) = [k \in 1..(n + 1) |-> IF k = n + 1 THEN e ELSE v[k]]
<1> DEFINE S == {v[k] : k \in 1..n} \cup {e}
<1>1. s \in Seq(S) /\ Len(s) = n
  OBVIOUS
<1>2. e \in S
  OBVIOUS
<1> HIDE DEF S
<1>3. Append(s, e) \in Seq(S) /\ Len(Append(s, e)) = n + 1
  BY <1>1, <1>2
<1>4. Append(s, e)[n + 1] = e /\ \A k \in 1..n : Append(s, e)[k] = s[k]
  BY <1>1, <1>2
<1>5. Append(s, e) = [k \in 1..(n + 1) |-> Append(s, e)[k]]
  BY <1>3
<1>6. ASSUME NEW k \in 1..(n + 1) PROVE Append(s, e)[k] = IF k = n + 1 THEN e ELSE v[k]
  BY <1>4
<1> QED BY <1>5, <1>6

\* A sequence without its first element.
LEMMA TailFun ==
    ASSUME NEW n \in Nat, NEW v, NEW s, s = [k \in 1..(n + 1) |-> v[k]]
    PROVE  s # << >> /\ Head(s) = v[1] /\ Tail(s) = [k \in 1..n |-> v[k + 1]]
<1> DEFINE S == {v[k] : k \in 1..(n + 1)}
<1>1. s \in Seq(S) /\ Len(s) = n + 1 /\ s # << >>
  OBVIOUS
<1> HIDE DEF S
<1>2. 1 \in 1..(n + 1) /\ n + 1 \in Nat /\ (n + 1) - 1 = n
  OBVIOUS
<1>3. Head(s) = v[1]
  BY <1>1, <1>2
<1>4. Tail(s) \in Seq(S) /\ Len(Tail(s)) = n /\ \A k \in 1..n : Tail(s)[k] = s[k + 1]
  BY <1>1, <1>2, TailIs
<1>5. Tail(s) = [k \in 1..n |-> Tail(s)[k]]
  BY <1>4
<1>6. ASSUME NEW k \in 1..n PROVE Tail(s)[k] = v[k + 1]
  <2>1. k + 1 \in 1..(n + 1)
    OBVIOUS
  <2> QED BY <2>1, <1>4
<1> QED BY <1>1, <1>3, <1>5, <1>6

\* After a Ready the last log on its way to disk is the one in memory.
LEMMA LastIsView ==
    ASSUME NEW w, NEW r, NEW m, NEW q, NEW a, NEW G, NEW D, NEW H, Core(w, r, m, q, a, G, D, H),
           ~hasNextSnapshot(r), r.offsetInProgress = Len(G) + 1, r.prevHardSt = hardState(r),
           NEW F, F = After(m, q)
    PROVE  Stored(F[Len(q)]) = View(r, m)
<1>1. D[Len(q)] = G /\ H[Len(q)] = hardState(r) /\ G \in Seq(Entry)
  BY DEF Core, Link, Memory
<1>2. Holds(F[Len(q)], D[Len(q)], H[Len(q)])
  <2>1. Len(q) \in 0..Len(q)
    BY DEF Core
  <2>2. Afters(F, m, q, D, H)
    BY CoreAfters
  <2> QED BY <2>1, <2>2 DEF Afters
<1>3. PICK x : x = F[Len(q)]
  OBVIOUS
<1>4. x \in Storages /\ Store(x, G) /\ x.hs = hardState(r)
  BY <1>1, <1>2, <1>3 DEF Holds
<1>5. x.index = firstIndex(r, m) - 1
  BY <1>3, LastBegins
<1>6. x.hs.Term = r.Term /\ x.hs.commit = r.committed
  BY <1>4 DEF hardState
<1>7. Stored(x) = LogOf(x.hs.Term, x.hs.commit, x.index, G)
  BY <1>1, <1>4, StoredIs
<1> QED BY <1>3, <1>5, <1>6, <1>7, ViewIs

\* Ready hands out the log in memory, or nothing.
LEMMA ReadyStep ==
    ASSUME NEW G, NEW D, NEW H, StateInv(G, D, H), Ready
    PROVE  [Durable!Next]_(Durable!vars)
<1>1. PICK D2, H2 : StateInv(G, D2, H2)'
  BY ReadyInv
<1>2. /\ Core(world, rn, ms, appendQ, sm, G, D, H) /\ rn \in Nodes /\ appendQ \in Seq(Writes)
  BY StateFacts
<1>3. UNCHANGED <<world, ms, sm>>
  BY DEF Ready
<1>4. Core(world, rn', ms, appendQ', sm, G, D2, H2)
  BY <1>1, <1>3 DEF StateInv, Whole
<1>5. PICK e : e = nextCommittedEnts(rn, ms)
  OBVIOUS
<1>6. HandsOut(world, rn, G, e)
  BY <1>2, <1>5, NextCommittedIs
<1>7. rn' = Accepted(rn, ms, e)
  BY <1>5 DEF Ready
<1>8. Accepts(world, rn, G, e, rn')
  BY <1>2, <1>6, <1>7, AcceptedIs
<1>9. /\ rn'.Term = rn.Term /\ rn'.committed = rn.committed /\ rn'.snapshot = rn.snapshot
      /\ rn'.snapshotInProgress = (rn.snapshot # NoSnap)
      /\ rn'.offsetInProgress = Len(G) + 1 /\ rn'.prevHardSt = hardState(rn)
  BY <1>8 DEF Accepts
<1>10. View(rn', ms) = View(rn, ms)
  <2>1. firstIndex(rn', ms) = firstIndex(rn, ms)
    BY <1>9 DEF firstIndex
  <2> QED BY <2>1, <1>2, <1>4, <1>9, SameView
<1>11. ~hasNextSnapshot(rn') /\ rn'.prevHardSt = hardState(rn')
  BY <1>9 DEF hasNextSnapshot, hardState
<1>12. PICK x : x = NewAppendMsg(rn, ms)
  OBVIOUS
<1>13. Stored(ms)' = Stored(ms) /\ View(rn, ms)' = View(rn, ms)
  BY <1>3, <1>10
<1>14. CASE ~needStorageAppend(x)
  <2>1. appendQ' = appendQ
    BY <1>12, <1>14 DEF Ready
  <2>2. Queued' = Queued
    BY <2>1, <1>3 DEF Queued
  <2> QED BY <2>2, <1>13 DEF Durable!vars
<1>15. CASE needStorageAppend(x)
  <2>1. appendQ' = Append(appendQ, x)
    BY <1>12, <1>15 DEF Ready
  <2>2. x \in Writes
    BY <1>2, <1>12, SentIs DEF Sent
  <2>3. PICK n \in Nat : n = Len(appendQ)
    BY <1>2
  <2>4. Len(appendQ') = n + 1 /\ n + 1 \in Nat /\ \A k \in 1..n : appendQ'[k] = appendQ[k]
    BY <2>1, <2>2, <2>3, <1>2
  <2>5. PICK F : F = After(ms, appendQ)
    OBVIOUS
  <2>6. PICK F2 : F2 = After(ms, appendQ')
    OBVIOUS
  <2>7. \A k \in 0..n : F2[k] = F[k]
    BY <2>3, <2>4, <2>5, <2>6, AfterSame
  <2>8. Stored(F2[n + 1]) = View(rn', ms)
    BY <2>4, <2>6, <1>4, <1>9, <1>11, LastIsView
  <2> DEFINE v == [k \in 1..n |-> Stored(F[k])]
  <2>9. DOMAIN appendQ = 1..n /\ DOMAIN appendQ' = 1..(n + 1)
    <3>1. appendQ' \in Seq(Writes)
      BY <2>1, <2>2, <1>2
    <3>2. DOMAIN appendQ' = 1..Len(appendQ') /\ DOMAIN appendQ = 1..Len(appendQ)
      BY <3>1, <1>2
    <3> QED BY <3>2, <2>3, <2>4
  <2>10. Queued = v
    BY <2>5, <2>9, QueuedIs
  <2>11. Queued' = [k \in 1..(n + 1) |-> Stored(F2[k])]
    <3>1. Queued' = [k \in DOMAIN appendQ' |-> Stored(After(ms', appendQ')[k])]
      BY DEF Queued, After, IsAfter
    <3> QED BY <3>1, <2>6, <2>9, <1>3
  <2>12. \A k \in 1..(n + 1) : Stored(F2[k]) = IF k = n + 1 THEN View(rn, ms) ELSE v[k]
    BY <2>7, <2>8, <1>10
  <2>13. v = [k \in 1..n |-> v[k]]
    OBVIOUS
  <2> HIDE DEF v
  <2>14. Queued' = Append(Queued, View(rn, ms))
    <3>1. Append(v, View(rn, ms)) = [k \in 1..(n + 1) |-> IF k = n + 1 THEN View(rn, ms) ELSE v[k]]
      BY <2>13, AppendFun
    <3> QED BY <3>1, <2>10, <2>11, <2>12
  <2>15. Durable!HandOut
    BY <2>14, <1>13 DEF Durable!HandOut
  <2> QED BY <2>15 DEF Durable!Next
<1> QED BY <1>14, <1>15

\* The append thread puts the first of the queued logs on disk; the log in
\* memory does not change, whatever part of it is read from Storage.
LEMMA ProcessAppendStep ==
    ASSUME NEW G, NEW D, NEW H, StateInv(G, D, H), ProcessAppend
    PROVE  Durable!Next
<1>1. PICK D2, H2 : StateInv(G, D2, H2)'
  BY ProcessAppendInv
<1>2. Core(world, rn, ms, appendQ, sm, G, D, H) /\ appendQ \in Seq(Writes)
  BY StateFacts
<1>3. Core(world, rn, ms', appendQ', sm', G, D2, H2)
  BY <1>1 DEF StateInv, Whole, ProcessAppend
<1>4. appendQ # << >> /\ appendQ' = Tail(appendQ) /\ rn' = rn
  BY DEF ProcessAppend
<1>5. PICK N \in Nat : N = Len(appendQ)
  BY <1>2
<1>6. /\ Tail(appendQ) \in Seq(Writes) /\ Len(Tail(appendQ)) = N - 1 /\ N - 1 \in Nat /\ N >= 1
      /\ \A k \in 1..(N - 1) : Tail(appendQ)[k] = appendQ[k + 1]
      /\ Head(appendQ) = appendQ[1]
  BY <1>2, <1>4, <1>5, TailIs
<1>7. PICK n \in Nat : n = N - 1 /\ N = n + 1
  BY <1>6
<1>8. ms' = Written(ms, appendQ[1])
  BY <1>6 DEF ProcessAppend
<1>9. PICK F : F = After(ms, appendQ)
  OBVIOUS
<1>10. PICK F2 : F2 = After(ms', appendQ')
  OBVIOUS
<1>11. n + 1 = Len(appendQ) /\ n = Len(appendQ') /\ \A k \in 1..n : appendQ'[k] = appendQ[k + 1]
  BY <1>4, <1>5, <1>6, <1>7
<1>12. \A k \in 0..n : F2[k] = F[k + 1]
  <2>1. DropsFirst(appendQ, appendQ', n)
    BY <1>11 DEF DropsFirst
  <2> QED BY <2>1, <1>8, <1>9, <1>10, AfterShift
<1>13. F2[0] = ms'
  <2>1. Chain(F2, ms', appendQ', n)
    BY <1>10, <1>11, AfterIsOne
  <2> QED BY <2>1 DEF Chain
<1>14. F[1] = ms'
  <2>1. 0 \in 0..n /\ 0 + 1 = 1
    OBVIOUS
  <2> QED BY <2>1, <1>12, <1>13
<1>15. Wrote(ms, appendQ[1], ms')
  <2>1. 1 \in 1..Len(appendQ) /\ 1 - 1 = 0
    BY <1>11
  <2>2. Afters(F, ms, appendQ, D, H)
    BY <1>2, <1>9, CoreAfters
  <2>3. F[0] = ms /\ Wrote(F[1 - 1], appendQ[1], F[1])
    BY <2>1, <2>2 DEF Afters
  <2> QED BY <2>1, <2>3, <1>14
<1>16. View(rn', ms') = View(rn, ms)
  <2>1. firstIndex(rn, ms') = firstIndex(rn, ms)
    <3>1. CASE rn.snapshot # NoSnap
      BY <3>1 DEF firstIndex
    <3>2. CASE rn.snapshot = NoSnap
      <4>1. 1 \in 1..Len(appendQ)
        BY <1>11
      <4>2. appendQ[1].snapshot = NoSnap
        BY <3>2, <4>1, <1>2 DEF Core, Link
      <4>3. ms'.index = ms.index
        BY <4>2, <1>15 DEF Wrote
      <4> QED BY <3>2, <4>3 DEF firstIndex
    <3> QED BY <3>1, <3>2
  <2>2. View(rn, ms') = View(rn, ms)
    BY <2>1, <1>2, <1>3, SameView
  <2> QED BY <2>2, <1>4
<1> DEFINE v == [k \in 1..(n + 1) |-> Stored(F[k])]
<1>17. Queued = v
  <2>1. DOMAIN appendQ = 1..(n + 1)
    BY <1>2, <1>11
  <2> QED BY <2>1, <1>9, QueuedIs
<1>18. Queued' = [k \in 1..n |-> v[k + 1]]
  <2>1. Queued' = [k \in DOMAIN appendQ' |-> Stored(After(ms', appendQ')[k])]
    BY DEF Queued, After, IsAfter
  <2>2. appendQ' \in Seq(Writes)
    BY <1>4, <1>6
  <2>3. DOMAIN appendQ' = 1..n
    BY <2>2, <1>11
  <2>4. ASSUME NEW k \in 1..n PROVE Stored(F2[k]) = v[k + 1]
    <3>1. k \in 0..n /\ k + 1 \in 1..(n + 1)
      OBVIOUS
    <3> QED BY <3>1, <1>12
  <2> QED BY <2>1, <2>3, <2>4, <1>10
<1>19. v = [k \in 1..(n + 1) |-> v[k]] /\ v[1] = Stored(ms')
  <2>1. 1 \in 1..(n + 1)
    OBVIOUS
  <2> QED BY <2>1, <1>14
<1> HIDE DEF v
<1>20. v # << >> /\ Head(v) = v[1] /\ Tail(v) = [k \in 1..n |-> v[k + 1]]
  BY <1>19, TailFun
<1>21. /\ Queued # << >> /\ Stored(ms)' = Head(Queued) /\ Queued' = Tail(Queued)
       /\ View(rn, ms)' = View(rn, ms)
  BY <1>16, <1>17, <1>18, <1>19, <1>20
<1>22. Durable!Flush
  BY <1>21 DEF Durable!Flush
<1> QED BY <1>22 DEF Durable!Next

\* What the application compacts is compacted in all of the queued logs, unless
\* a snapshot above it takes their place.
LEMMA AfterCut ==
    ASSUME NEW m, NEW m2, NEW q \in Seq(Writes), NEW D, NEW H, NEW F, NEW F2, NEW i \in Nat,
           Afters(F, m, q, D, H), Afters(F2, m2, q, D, H), m2.index = MaxOf(m.index, i),
           \A k \in 1..Len(q) : q[k].snapshot # NoSnap => i <= q[k].snapshot.index
    PROVE  \A k \in 0..Len(q) : F2[k].index = MaxOf(F[k].index, i)
<1>1. PICK n \in Nat : n = Len(q)
  OBVIOUS
<1> DEFINE S == {k \in Nat : k <= n => F2[k].index = MaxOf(F[k].index, i)}
<1>2. 0 \in S
  BY DEF Afters
<1>3. ASSUME NEW k \in Nat, k \in S PROVE k + 1 \in S
  <2>1. SUFFICES ASSUME k + 1 <= n PROVE F2[k + 1].index = MaxOf(F[k + 1].index, i)
    OBVIOUS
  <2>2. k + 1 \in 1..n /\ (k + 1) - 1 = k /\ k <= n
    BY <2>1
  <2>3. Wrote(F[k], q[k + 1], F[k + 1]) /\ Wrote(F2[k], q[k + 1], F2[k + 1])
    BY <2>2, <1>1 DEF Afters
  <2>4. CASE q[k + 1].snapshot = NoSnap
    <3>1. F2[k + 1].index = F2[k].index /\ F[k + 1].index = F[k].index
      BY <2>3, <2>4 DEF Wrote
    <3>2. F2[k].index = MaxOf(F[k].index, i)
      BY <2>2, <1>3
    <3> QED BY <3>1, <3>2
  <2>5. CASE q[k + 1].snapshot # NoSnap
    <3>1. F2[k + 1].index = q[k + 1].snapshot.index /\ F[k + 1].index = q[k + 1].snapshot.index
      BY <2>3, <2>5 DEF Wrote
    <3>2. i <= q[k + 1].snapshot.index /\ q[k + 1].snapshot.index \in Nat
      BY <2>2, <2>5, <1>1, WriteTypes
    <3> QED BY <3>1, <3>2 DEF MaxOf
  <2> QED BY <2>4, <2>5
<1> HIDE DEF S
<1>4. \A k \in Nat : k \in S
  BY <1>2, <1>3, NatSetInduction
<1>5. ASSUME NEW k \in 0..n PROVE F2[k].index = MaxOf(F[k].index, i)
  <2>1. k \in S /\ k <= n
    BY <1>4
  <2> QED BY <2>1 DEF S
<1> QED BY <1>1, <1>5

\* A snapshot taken by the application changes no log.
LEMMA CreateSnapshotStep ==
    ASSUME NEW G, NEW D, NEW H, StateInv(G, D, H), NEW i \in 1..storageLast(ms), CreateSnapshot(i)
    PROVE  UNCHANGED Durable!vars
<1>1. StateInv(G, D, H)'
  BY CreateSnapshotInv
<1>2. Core(world, rn, ms, appendQ, sm, G, D, H) /\ appendQ \in Seq(Writes) /\ ms \in Storages
  BY StateFacts
<1>3. UNCHANGED <<world, rn, appendQ, sm>>
  BY DEF CreateSnapshot
<1>4. Core(world, rn, ms', appendQ, sm, G, D, H)
  BY <1>1, <1>3 DEF StateInv, Whole
<1>5. ms'.index = ms.index /\ ms'.hs = ms.hs /\ ms'.term = ms.term /\ ms'.ents = ms.ents
  BY <1>2 DEF CreateSnapshot, Storages
<1>6. Stored(ms') = Stored(ms)
  BY <1>5 DEF Stored
<1>7. View(rn, ms') = View(rn, ms)
  <2>1. firstIndex(rn, ms') = firstIndex(rn, ms)
    BY <1>5 DEF firstIndex
  <2> QED BY <2>1, <1>2, <1>4, SameView
<1>8. PICK F : F = After(ms, appendQ)
  OBVIOUS
<1>9. PICK F2 : F2 = After(ms', appendQ)
  OBVIOUS
<1>10. Afters(F, ms, appendQ, D, H) /\ Afters(F2, ms', appendQ, D, H)
  BY <1>2, <1>4, <1>8, <1>9, CoreAfters
<1>11. \A k \in 0..Len(appendQ) : F2[k].index = MaxOf(F[k].index, 0)
  <2>1. \A k \in 1..Len(appendQ) : 0 <= appendQ[k].snapshot.index
    BY <1>2, WriteTypes
  <2>2. ms'.index = MaxOf(ms.index, 0)
    BY <1>2, <1>5, StorageTypes DEF MaxOf
  <2> QED BY <2>1, <2>2, <1>2, <1>10, AfterCut
<1>12. ASSUME NEW k \in 1..Len(appendQ) PROVE Stored(F2[k]) = Stored(F[k])
  <2>1. k \in 0..Len(appendQ)
    BY <1>2
  <2>2. Holds(F[k], D[k], H[k]) /\ Holds(F2[k], D[k], H[k])
    BY <2>1, <1>10 DEF Afters
  <2>3. D[k] \in Seq(Entry)
    BY <2>1, <1>2 DEF Core, Disks
  <2>4. F[k].index \in Nat
    BY <2>2, StorageTypes DEF Holds
  <2>5. F2[k].index = F[k].index
    BY <2>1, <2>4, <1>11 DEF MaxOf
  <2> QED BY <2>2, <2>3, <2>5, StoredIs DEF Holds
<1>13. Queued' = Queued
  <2>1. Queued' = [k \in DOMAIN appendQ' |-> Stored(After(ms', appendQ')[k])]
    BY DEF Queued, After, IsAfter
  <2>2. DOMAIN appendQ = 1..Len(appendQ)
    BY <1>2
  <2> QED BY <2>1, <2>2, <1>3, <1>8, <1>9, <1>12, QueuedIs
<1> QED BY <1>3, <1>6, <1>7, <1>13 DEF Durable!vars

\* Cutting a log is compacting it further.
LEMMA CutIs ==
    ASSUME NEW T, NEW c, NEW j \in Nat, NEW s \in Seq(Entry), NEW i \in Nat, j <= Len(s), i <= Len(s)
    PROVE  Durable!Cut(LogOf(T, c, j, s), i) = LogOf(T, c, MaxOf(j, i), s)
<1>1. PICK l : l = LogOf(T, c, j, s)
  OBVIOUS
<1>2. PICK n \in Nat : n = Len(s)
  OBVIOUS
<1>3. Fields(l, T, c, j, s, n)
  BY <1>1, <1>2, LogFields
<1>4. CASE i <= j
  <2>1. l.index = j
    BY <1>3 DEF Fields
  <2>2. Durable!Cut(l, i) = l
    BY <1>4, <2>1 DEF Durable!Cut
  <2>3. MaxOf(j, i) = j
    BY <1>4 DEF MaxOf
  <2> QED BY <1>1, <2>2, <2>3
<1>5. CASE ~(i <= j)
  <2>1. l.index = j /\ Len(l.ents) = n - j /\ \A k \in 1..(n - j) : l.ents[k] = s[j + k]
    BY <1>3 DEF Fields
  <2>2. l.ents = [k \in 1..(n - j) |-> s[j + k]] /\ l.ents \in Seq(Entry)
    <3>1. l.ents = [k \in 1..(n - j) |-> s[j + k]]
      BY <1>1, <1>2 DEF LogOf
    <3>2. j <= n /\ n - j \in Nat
      BY <1>2
    <3>3. PICK p \in Nat : p = n - j
      BY <3>2
    <3>4. ASSUME NEW k \in 1..p PROVE s[j + k] \in Entry
      <4>1. j + k \in 1..n
        BY <3>3, <3>2
      <4> QED BY <4>1, <1>2
    <3>5. [k \in 1..p |-> s[j + k]] \in Seq(Entry)
      BY <3>4
    <3> QED BY <3>1, <3>3, <3>5
  <2>3. MaxOf(j, i) = i
    BY <1>5 DEF MaxOf
  <2>4. i - j \in 1..(n - j) /\ j + (i - j) = i /\ i # 0
    BY <1>2, <1>5
  <2>5. l.ents[i - j].term = s[i].term
    BY <2>1, <2>4
  <2>6. SubSeq(l.ents, i - j + 1, Len(l.ents)) = [k \in 1..(n - i) |-> s[i + k]]
    <3>0. i - j + 1 \in Nat /\ n - j \in Nat
      BY <1>2, <1>5
    <3>1. PICK a \in Nat, b \in Nat : a = i - j + 1 /\ b = n - j
      BY <3>0
    <3>2. a > 0 /\ a <= b + 1 /\ b <= Len(l.ents) /\ b + 1 - a = n - i
      BY <3>1, <2>1, <2>4, <1>2
    <3>3. PICK t : t = SubSeq(l.ents, a, b)
      OBVIOUS
    <3>4. /\ t \in Seq(Entry) /\ Len(t) = b + 1 - a
          /\ \A k \in 1..(b + 1 - a) : t[k] = l.ents[a - 1 + k]
      BY <2>2, <3>2, <3>3, SubSeqIs, ZenonT(30)
    <3>5. t = [k \in 1..(n - i) |-> t[k]]
      BY <3>2, <3>4
    <3>6. ASSUME NEW k \in 1..(n - i) PROVE t[k] = s[i + k]
      <4>1. t[k] = l.ents[a - 1 + k]
        BY <3>2, <3>4
      <4>2. a - 1 + k \in 1..(n - j) /\ j + (a - 1 + k) = i + k
        BY <3>1, <1>2, <1>5
      <4>3. l.ents[a - 1 + k] = s[j + (a - 1 + k)]
        BY <4>2, <2>1
      <4> QED BY <4>1, <4>2, <4>3
    <3>7. t = [k \in 1..(n - i) |-> s[i + k]]
      BY <3>5, <3>6
    <3> QED BY <3>1, <3>3, <3>7, <2>1
  <2>7. Durable!Cut(l, i) = [l EXCEPT !.index = i, !.term = s[i].term,
                                     !.ents = [k \in 1..(n - i) |-> s[i + k]]]
    <3>1. ~(i <= l.index)
      BY <2>1, <1>5
    <3> QED BY <3>1, <2>1, <2>5, <2>6 DEF Durable!Cut
  <2>8. LogOf(T, c, i, s) = [l EXCEPT !.index = i, !.term = s[i].term,
                                     !.ents = [k \in 1..(n - i) |-> s[i + k]]]
    <3>1. PICK e : e = [k \in 1..(n - i) |-> s[i + k]]
      OBVIOUS
    <3>2. PICK t : t = s[i].term
      OBVIOUS
    <3>3. LogOf(T, c, i, s) = [Term |-> T, committed |-> c, index |-> i, term |-> t, ents |-> e]
      BY <1>2, <2>4, <3>1, <3>2 DEF LogOf
    <3>4. PICK t0 : t0 = IF j = 0 THEN 0 ELSE s[j].term
      OBVIOUS
    <3>4a. PICK e0 : e0 = l.ents
      OBVIOUS
    <3>4b. l = [Term |-> T, committed |-> c, index |-> j, term |-> t0, ents |-> e0]
      <4>1. PICK e1 : e1 = [k \in 1..(Len(s) - j) |-> s[j + k]]
        OBVIOUS
      <4>2. l = [Term |-> T, committed |-> c, index |-> j, term |-> t0, ents |-> e1]
        BY <1>1, <3>4, <4>1, Zenon DEF LogOf
      <4>3. e1 = e0
        BY <3>4a, <4>2
      <4> QED BY <4>2, <4>3
    <3>5. [l EXCEPT !.index = i, !.term = t, !.ents = e]
            = [Term |-> T, committed |-> c, index |-> i, term |-> t, ents |-> e]
      <4>1. PICK y : y = [l EXCEPT !.index = i, !.term = t, !.ents = e]
        OBVIOUS
      <4>2. PICK z : z = [Term |-> T, committed |-> c, index |-> i, term |-> t, ents |-> e]
        OBVIOUS
      <4>3. DOMAIN l = {"Term", "committed", "index", "term", "ents"} /\ DOMAIN z = {"Term", "committed", "index", "term", "ents"}
        BY <3>4b, <4>2
      <4>4. y = [f \in DOMAIN l |-> y[f]] /\ z = [f \in DOMAIN l |-> z[f]]
        BY <3>4b, <4>1, <4>2, <4>3
      <4>5. y.Term = T /\ y.committed = c /\ y.index = i /\ y.term = t /\ y.ents = e
        BY <3>4b, <4>1
      <4>6. z.Term = T /\ z.committed = c /\ z.index = i /\ z.term = t /\ z.ents = e
        BY <4>2
      <4>7. \A f \in DOMAIN l : y[f] = z[f]
        BY <4>3, <4>5, <4>6
      <4>8. y = z
        BY <4>4, <4>7
      <4> QED BY <4>1, <4>2, <4>8
    <3> QED BY <3>1, <3>2, <3>3, <3>5
  <2> QED BY <1>1, <2>3, <2>7, <2>8
<1> QED BY <1>4, <1>5

\* The same for what Storage holds.
LEMMA StoredCut ==
    ASSUME NEW x, NEW y, NEW d \in Seq(Entry), NEW h, NEW i \in Nat, Holds(x, d, h), Holds(y, d, h),
           y.index = MaxOf(x.index, i)
    PROVE  Stored(y) = Durable!Cut(Stored(x), i)
<1>0. x \in Storages /\ y \in Storages /\ Store(x, d) /\ Store(y, d) /\ x.hs = h /\ y.hs = h
  BY DEF Holds
<1>1. Stored(x) = LogOf(x.hs.Term, x.hs.commit, x.index, d) /\ Stored(y) = LogOf(y.hs.Term, y.hs.commit, y.index, d)
  BY <1>0, StoredIs
<1>2. PICK j \in Nat : j = x.index /\ j <= Len(d)
  BY <1>0, StorageTypes DEF Store
<1>3. PICK k \in Nat : k = y.index /\ k <= Len(d)
  BY <1>0, StorageTypes DEF Store
<1>4. i <= Len(d) /\ k = MaxOf(j, i)
  BY <1>2, <1>3 DEF MaxOf
<1>5. Durable!Cut(LogOf(x.hs.Term, x.hs.commit, j, d), i) = LogOf(x.hs.Term, x.hs.commit, k, d)
  BY <1>2, <1>4, CutIs
<1> QED BY <1>0, <1>1, <1>2, <1>3, <1>5

\* A compaction cuts the log in memory, the one on disk and those on their way.
LEMMA CompactStep ==
    ASSUME NEW G, NEW D, NEW H, StateInv(G, D, H), NEW i \in 1..storageLast(ms), Compact(i)
    PROVE  Durable!Next
<1>1. StateInv(G, D, H)'
  BY CompactInv
<1>2. /\ Core(world, rn, ms, appendQ, sm, G, D, H) /\ appendQ \in Seq(Writes) /\ ms \in Storages /\ rn \in Nodes
      /\ G \in Seq(Entry) /\ sm \in Nat
  BY StateFacts
<1>3. UNCHANGED <<world, rn, appendQ, sm>>
  BY DEF Compact
<1>4. Core(world, rn, ms', appendQ, sm, G, D, H)
  BY <1>1, <1>3 DEF StateInv, Whole
<1>5. ms'.index = i /\ ms'.hs = ms.hs
  BY <1>2 DEF Compact, Storages
<1>6. i > ms.index /\ i <= ms.snapshot.index /\ i <= rn.applied
  BY DEF Compact
<1>7. i \in Nat /\ ms.index \in Nat /\ ms.snapshot.index \in Nat /\ rn.applied \in Nat /\ storageLast(ms) \in Nat
  <2>1. ms.index \in Nat /\ Len(ms.ents) \in Nat /\ ms.snapshot.index \in Nat
    BY <1>2, StorageTypes
  <2>2. storageLast(ms) \in Nat
    BY <2>1 DEF storageLast
  <2>3. rn.applied \in Nat
    BY <1>2, NodeTypes
  <2> QED BY <2>1, <2>2, <2>3
<1>8. ms'.index = MaxOf(ms.index, i)
  BY <1>5, <1>6, <1>7 DEF MaxOf
<1>9. PICK F : F = After(ms, appendQ)
  OBVIOUS
<1>10. PICK F2 : F2 = After(ms', appendQ)
  OBVIOUS
<1>11. Afters(F, ms, appendQ, D, H) /\ Afters(F2, ms', appendQ, D, H)
  BY <1>2, <1>4, <1>9, <1>10, CoreAfters
<1>12. \A k \in 0..Len(appendQ) : F2[k].index = MaxOf(F[k].index, i)
  <2>1. ASSUME NEW k \in 1..Len(appendQ), appendQ[k].snapshot # NoSnap PROVE i <= appendQ[k].snapshot.index
    <3>1. ms.snapshot.index <= sm /\ sm < appendQ[k].snapshot.index
      BY <2>1, <1>2 DEF Core, Queue
    <3>2. appendQ[k].snapshot.index \in Nat
      BY <1>2, WriteTypes
    <3> QED BY <3>1, <3>2, <1>2, <1>6, <1>7
  <2> QED BY <2>1, <1>2, <1>7, <1>8, <1>11, AfterCut
<1>13. ASSUME NEW k \in 0..Len(appendQ) PROVE Stored(F2[k]) = Durable!Cut(Stored(F[k]), i)
  <2>1. Holds(F[k], D[k], H[k]) /\ Holds(F2[k], D[k], H[k])
    BY <1>11 DEF Afters
  <2>2. D[k] \in Seq(Entry)
    BY <1>2 DEF Core, Disks
  <2> QED BY <2>1, <2>2, <1>7, <1>12, StoredCut
<1>14. Stored(ms') = Durable!Cut(Stored(ms), i)
  <2>1. 0 \in 0..Len(appendQ)
    BY <1>2
  <2>2. F[0] = ms /\ F2[0] = ms'
    BY <1>11 DEF Afters
  <2> QED BY <2>1, <2>2, <1>13
<1>15. View(rn, ms') = Durable!Cut(View(rn, ms), i)
  <2>1. PICK f \in Nat, c \in Nat : f = firstIndex(rn, ms) - 1 /\ c = rn.committed /\ f <= c /\ c <= Len(G)
    BY <1>2, FirstIs
  <2>2. PICK f2 \in Nat : f2 = firstIndex(rn, ms') - 1
    BY <1>4, FirstIs
  <2>3. i <= c
    <3>1. rn.applied <= rn.applying /\ rn.applying <= rn.committed
      BY <1>2 DEF Core, Cursors
    <3>2. rn.applying \in Nat
      BY <1>2, NodeTypes
    <3> QED BY <3>1, <3>2, <2>1, <1>6, <1>7
  <2>4. f2 = MaxOf(f, i)
    <3>1. CASE rn.snapshot = NoSnap
      <4>1. f = ms.index /\ f2 = ms'.index
        BY <3>1, <2>1, <2>2, <1>2, <1>4, FirstIs
      <4> QED BY <4>1, <1>8
    <3>2. CASE rn.snapshot # NoSnap
      <4>1. f = rn.snapshot.index /\ f2 = rn.snapshot.index
        BY <3>2, <2>1, <2>2, <1>2, <1>4, FirstIs
      <4>2. rn.applied <= rn.applying /\ rn.applying < rn.snapshot.index
        BY <3>2, <1>2 DEF Core, Cursors, Pending
      <4>3. rn.applying \in Nat
        BY <1>2, NodeTypes
      <4>4. i <= f
        BY <4>1, <4>2, <4>3, <1>6, <1>7, <2>1
      <4> QED BY <4>1, <4>4 DEF MaxOf
    <3> QED BY <3>1, <3>2
  <2>5. f <= Len(G) /\ i <= Len(G)
    <3>1. Len(G) \in Nat
      BY <1>2
    <3> QED BY <3>1, <2>1, <2>3, <1>7
  <2>6. Durable!Cut(LogOf(rn.Term, c, f, G), i) = LogOf(rn.Term, c, f2, G)
    BY <2>4, <2>5, <1>2, <1>7, CutIs
  <2>7. View(rn, ms) = LogOf(rn.Term, c, f, G) /\ View(rn, ms') = LogOf(rn.Term, c, f2, G)
    BY <2>1, <2>2, <1>2, <1>4, ViewIs
  <2> QED BY <2>6, <2>7
<1>16. Queued' = [k \in DOMAIN Queued |-> Durable!Cut(Queued[k], i)]
  <2>1. Queued' = [k \in DOMAIN appendQ' |-> Stored(After(ms', appendQ')[k])]
    BY DEF Queued, After, IsAfter
  <2>2. DOMAIN appendQ = 1..Len(appendQ)
    BY <1>2
  <2>3. Queued = [k \in 1..Len(appendQ) |-> Stored(F[k])]
    BY <2>2, <1>9, QueuedIs
  <2>4. Queued' = [k \in 1..Len(appendQ) |-> Stored(F2[k])]
    BY <2>1, <2>2, <1>3, <1>10
  <2>5. \A k \in 1..Len(appendQ) : k \in 0..Len(appendQ)
    BY <1>2
  <2> QED BY <2>3, <2>4, <2>5, <1>13
<1>17. i \in 1..Durable!Last(Stored(ms))
  BY DEF Durable!Last, Stored, storageLast
<1>18. View(rn, ms)' = Durable!Cut(View(rn, ms), i) /\ Stored(ms)' = Durable!Cut(Stored(ms), i)
  BY <1>3, <1>14, <1>15
<1>19. Durable!Compact
  BY <1>16, <1>17, <1>18 DEF Durable!Compact
<1> QED BY <1>19 DEF Durable!Next

\* A node that has just started sees what is on disk.
LEMMA StartedView ==
    ASSUME NEW w, NEW r, NEW m, NEW q, NEW a, NEW G, NEW D, NEW H, Core(w, r, m, q, a, G, D, H), r = newRaft(m)
    PROVE  View(r, m) = Stored(m)
<1>1. /\ r.Term = m.hs.Term /\ r.committed = m.hs.commit /\ r.snapshot = NoSnap /\ r.entries = << >>
  BY DEF newRaft
<1>2. D[0] = G
  BY <1>1, DrainedDisk
<1>3. firstIndex(r, m) - 1 = m.index
  BY <1>1, FirstIs
<1>4. m \in Storages /\ Store(m, G) /\ G \in Seq(Entry)
  BY <1>2 DEF Core, Disks, Memory
<1> QED BY <1>1, <1>3, <1>4, ViewIs, StoredIs

\* A crash loses the log in memory and the queue; the entries of the write under way
\* may be on disk.
LEMMA RestartStep ==
    ASSUME NEW G, NEW D, NEW H, StateInv(G, D, H), Restart
    PROVE  Durable!Next
<1>0. Core(world, rn, ms, appendQ, sm, G, D, H) /\ ms \in Storages /\ appendQ \in Seq(Writes)
  BY StateFacts
<1>1. PICK G2, D2, H2 : StateInv(G2, D2, H2)'
  BY RestartInv
<1>2. PICK m \in CrashDisks : rn' = newRaft(m) /\ ms' = m /\ appendQ' = << >>
  BY DEF Restart
<1>3. Core(world', rn', ms', appendQ', sm', G2, D2, H2)
  BY <1>1 DEF StateInv, Whole
<1>4. View(rn', ms') = Stored(ms')
  BY <1>2, <1>3, StartedView
<1>5. Queued' = << >>
  <2>1. Queued' = [k \in DOMAIN appendQ' |-> Stored(After(ms', appendQ')[k])]
    BY DEF Queued, After, IsAfter
  <2> QED BY <2>1, <1>2
<1>6. CASE m = ms
  <2>1. Stored(ms)' = Stored(ms)
    BY <1>2, <1>6
  <2>2. Durable!Crash
    BY <1>4, <1>5, <2>1 DEF Durable!Crash
  <2> QED BY <2>2 DEF Durable!Next
<1>7. CASE m # ms
  <2>1. 1 \in DOMAIN appendQ /\ appendQ[1].snapshot = NoSnap /\ Crashed(world, ms, m, D[1])
    BY <1>7, CrashDiskIs
  <2>2. PICK F : F = After(ms, appendQ)
    OBVIOUS
  <2>3. Afters(F, ms, appendQ, D, H)
    BY <1>0, <2>2, CoreAfters
  <2>4. 1 \in 1..Len(appendQ) /\ 1 \in 0..Len(appendQ) /\ 1 - 1 = 0
    BY <1>0, <2>1
  <2>5. Holds(F[1], D[1], H[1]) /\ Wrote(ms, appendQ[1], F[1])
    BY <2>3, <2>4 DEF Afters
  <2>6. D[1] \in Seq(Entry) /\ F[1] \in Storages /\ Store(F[1], D[1]) /\ F[1].index = ms.index
    BY <2>1, <2>5 DEF Crashed, Holds, Wrote
  <2>7. Stored(F[1]) = LogOf(F[1].hs.Term, F[1].hs.commit, ms.index, D[1])
    BY <2>6, StoredIs
  <2>8. Stored(m) = LogOf(ms.hs.Term, ms.hs.commit, ms.index, D[1])
    BY <2>1, StoredIs DEF Crashed
  <2>9. Queued = [k \in DOMAIN appendQ |-> Stored(F[k])]
    BY <2>2, QueuedIs
  <2>10. Queued # << >> /\ Head(Queued) = Stored(F[1])
    <3>1. DOMAIN appendQ = 1..Len(appendQ) /\ Len(appendQ) \in Nat
      BY <1>0
    <3>2. Queued = [k \in 1..Len(appendQ) |-> Stored(F[k])]
      BY <2>9, <3>1
    <3>3. Queued[1] = Stored(F[1])
      BY <3>2, <2>4
    <3>4. 1 \in DOMAIN Queued
      BY <3>2, <2>4
    <3> QED BY <3>3, <3>4 DEF Head
  <2>11. Stored(m) = [Stored(ms) EXCEPT !.ents = Head(Queued).ents]
    <3>1. Head(Queued).ents = Stored(m).ents
      BY <2>7, <2>8, <2>10 DEF LogOf
    <3>2. m.hs = ms.hs /\ m.index = ms.index /\ m.term = ms.term
      BY <2>1 DEF Crashed
    <3>3. PICK e : e = Head(Queued).ents /\ e = m.ents
      BY <3>1 DEF Stored
    <3>4. Stored(m) = [Stored(ms) EXCEPT !.ents = e]
      BY <3>2, <3>3 DEF Stored
    <3> QED BY <3>3, <3>4
  <2>12. Head(Queued).index = Stored(ms).index
    BY <2>7, <2>10 DEF LogOf, Stored
  <2>13. Stored(ms)' = Stored(m)
    BY <1>2
  <2>14. Durable!Crash
    BY <1>4, <1>5, <2>10, <2>11, <2>12, <2>13 DEF Durable!Crash, Durable!Torn
  <2> QED BY <2>14 DEF Durable!Next
<1> QED BY <1>6, <1>7

\* A new node has an empty log in both places.
LEMMA StartsEmpty ==
    ASSUME Init
    PROVE  Durable!Init
<1>1. PICK G, D, H : StateInv(G, D, H)
  BY InitInv
<1>2. rn = newRaft(ms) /\ ms = NewMemoryStorage /\ appendQ = << >>
  BY DEF Init
<1>3. View(rn, ms) = Stored(ms)
  BY <1>1, <1>2, StateFacts, StartedView
<1>4. Stored(ms) = Durable!EmptyLog
  BY <1>2 DEF Stored, NewMemoryStorage, EmptyHardState, Durable!EmptyLog
<1>5. Queued = << >>
  BY <1>2, QueuedIs
<1> QED BY <1>3, <1>4, <1>5 DEF Durable!Init

\* Every step is a step of DurableLog, or none.
LEMMA EveryStep ==
    ASSUME LogsAreWhole, [Next]_vars
    PROVE  [Durable!Next]_(Durable!vars)
<1>1. PICK G, D, H : StateInv(G, D, H)
  BY DEF LogsAreWhole
<1>2. CASE RaftStep
  BY <1>1, <1>2, WriteStep
<1>3. CASE Ready
  BY <1>1, <1>3, ReadyStep
<1>4. CASE Advance \/ ProcessApply \/ StepAppendResp \/ StepApplyResp
  BY <1>1, <1>4, AckStep
<1>5. CASE ProcessAppend
  BY <1>1, <1>5, ProcessAppendStep
<1>6. CASE \E i \in 1..storageLast(ms) : CreateSnapshot(i) \/ Compact(i)
  <2>1. PICK i \in 1..storageLast(ms) : CreateSnapshot(i) \/ Compact(i)
    BY <1>6
  <2>2. CASE CreateSnapshot(i)
    BY <1>1, <2>2, CreateSnapshotStep
  <2>3. CASE Compact(i)
    BY <1>1, <2>3, CompactStep
  <2> QED BY <2>1, <2>2, <2>3
<1>7. CASE Restart
  BY <1>1, <1>7, RestartStep
<1>8. CASE UNCHANGED vars
  <2>1. UNCHANGED <<rn, ms, appendQ>>
    BY <1>8 DEF vars
  <2>2. View(rn, ms)' = View(rn, ms) /\ Stored(ms)' = Stored(ms) /\ Queued' = Queued
    BY <2>1 DEF Queued
  <2> QED BY <2>2 DEF Durable!vars
<1> QED BY <1>2, <1>3, <1>4, <1>5, <1>6, <1>7, <1>8 DEF Next

\* raftLog, its unstable log, Storage and the queue of writes behave as the one log
\* of DurableLog: raft writes to it, hands it out in order, the disk catches up
\* with it write by write, and a crash falls back to what was written.
THEOREM LogRefinesDurableLog == Spec => ImplementsDurableLog
<1>1. Init => Durable!Init
  BY StartsEmpty
<1>2. LogsAreWhole /\ [Next]_vars => [Durable!Next]_(Durable!vars)
  BY EveryStep
<1> QED BY <1>1, <1>2, LogsStayWhole, PTL DEF Spec, ImplementsDurableLog, Durable!Spec

-----------------------------------------------------------------------------
(* The accounts of what was handed out to be applied.                      *)

\* Two sequences with the same elements are the same.
LEMMA SameSeq ==
    ASSUME NEW S, NEW a \in Seq(S), NEW b \in Seq(S), Len(a) = Len(b), \A i \in 1..Len(a) : a[i] = b[i]
    PROVE  a = b
OBVIOUS

\* One more batch at the end of the second queue.
LEMMA JoinAppend ==
    ASSUME NEW S, NEW a \in Seq(S), NEW b \in Seq(S), NEW e \in S
    PROVE  a \o Append(b, e) = Append(a \o b, e)
<1>1. PICK n \in Nat : n = Len(a)
  OBVIOUS
<1>2. PICK k \in Nat : k = Len(b)
  OBVIOUS
<1>3. PICK c : c = Append(b, e)
  OBVIOUS
<1>4. c \in Seq(S) /\ Len(c) = k + 1 /\ c[k + 1] = e /\ \A i \in 1..k : c[i] = b[i]
  BY <1>2, <1>3
<1>5. PICK d : d = a \o b
  OBVIOUS
<1>6. d \in Seq(S) /\ Len(d) = n + k /\ (\A i \in 1..n : d[i] = a[i]) /\ \A i \in 1..k : d[n + i] = b[i]
  BY <1>1, <1>2, <1>5, JoinIs
<1>7. PICK x : x = a \o c
  OBVIOUS
<1>8. x \in Seq(S) /\ Len(x) = n + (k + 1) /\ (\A i \in 1..n : x[i] = a[i]) /\ \A i \in 1..(k + 1) : x[n + i] = c[i]
  <2>1. PICK k1 \in Nat : k1 = k + 1
    OBVIOUS
  <2>2. k1 = Len(c) /\ c \in Seq(S)
    BY <1>4, <2>1
  <2>3. x \in Seq(S) /\ Len(x) = n + k1 /\ (\A i \in 1..n : x[i] = a[i]) /\ \A i \in 1..k1 : x[n + i] = c[i]
    BY <1>1, <1>7, <2>2, JoinIs
  <2> QED BY <2>1, <2>3
<1>9. PICK y : y = Append(d, e)
  OBVIOUS
<1>10. y \in Seq(S) /\ Len(y) = (n + k) + 1 /\ y[(n + k) + 1] = e /\ \A i \in 1..(n + k) : y[i] = d[i]
  BY <1>6, <1>9
<1>11. ASSUME NEW i \in 1..(n + k + 1) PROVE x[i] = y[i]
  <2>1. CASE i <= n
    <3>1. i \in 1..n /\ i \in 1..(n + k)
      BY <2>1
    <3> QED BY <3>1, <1>6, <1>8, <1>10
  <2>2. CASE ~(i <= n) /\ i <= n + k
    <3>1. PICK j \in 1..k : i = n + j
      <4>1. i - n \in 1..k /\ i = n + (i - n)
        BY <2>2
      <4> QED BY <4>1
    <3>2. j \in 1..(k + 1) /\ n + j \in 1..(n + k)
      BY <3>1
    <3>3. x[n + j] = c[j] /\ c[j] = b[j] /\ d[n + j] = b[j] /\ y[n + j] = d[n + j]
      BY <3>1, <3>2, <1>4, <1>6, <1>8, <1>10
    <3> QED BY <3>1, <3>3
  <2>3. CASE i = n + k + 1
    <3>1. k + 1 \in 1..(k + 1) /\ i = n + (k + 1) /\ i = (n + k) + 1
      BY <2>3
    <3> QED BY <3>1, <1>4, <1>8, <1>10
  <2> QED BY <2>1, <2>2, <2>3
<1>12. Len(x) = n + k + 1 /\ Len(y) = n + k + 1
  BY <1>8, <1>10
<1>13. x = y
  BY <1>8, <1>10, <1>11, <1>12, SameSeq
<1> QED BY <1>3, <1>5, <1>7, <1>9, <1>13

\* The first batch of the first queue.
LEMMA JoinTail ==
    ASSUME NEW S, NEW a \in Seq(S), NEW b \in Seq(S), a # << >>
    PROVE  Tail(a) \o b = Tail(a \o b) /\ a \o b # << >> /\ Head(a \o b) = Head(a)
<1>1. PICK n \in Nat : n = Len(a)
  OBVIOUS
<1>2. PICK k \in Nat : k = Len(b)
  OBVIOUS
<1>3. PICK c : c = Tail(a)
  OBVIOUS
<1>4. /\ c \in Seq(S) /\ Len(c) = n - 1 /\ n - 1 \in Nat /\ n >= 1
      /\ \A i \in 1..(n - 1) : c[i] = a[i + 1] /\ i + 1 \in 1..n
      /\ Head(a) = a[1]
  BY <1>1, <1>3, TailIs
<1>5. PICK d : d = a \o b
  OBVIOUS
<1>6. d \in Seq(S) /\ Len(d) = n + k /\ (\A i \in 1..n : d[i] = a[i]) /\ \A i \in 1..k : d[n + i] = b[i]
  BY <1>1, <1>2, <1>5, JoinIs
<1>7. PICK p \in Nat : p = n - 1
  BY <1>4
<1>8. PICK x : x = c \o b
  OBVIOUS
<1>9. x \in Seq(S) /\ Len(x) = p + k /\ (\A i \in 1..p : x[i] = c[i]) /\ \A i \in 1..k : x[p + i] = b[i]
  <2>1. p = Len(c) /\ c \in Seq(S)
    BY <1>4, <1>7
  <2>2. c \o b \in Seq(S) /\ Len(c \o b) = p + k
    BY <1>2, <2>1, JoinIs
  <2>3. \A i \in 1..p : (c \o b)[i] = c[i]
    BY <1>2, <2>1, JoinIs
  <2>4. \A i \in 1..k : (c \o b)[p + i] = b[i]
    BY <1>2, <2>1, JoinIs
  <2> QED BY <1>8, <2>2, <2>3, <2>4
<1>10. d # << >> /\ n + k \in Nat /\ n + k - 1 = p + k
  BY <1>4, <1>6, <1>7
<1>11. PICK y : y = Tail(d)
  OBVIOUS
<1>12. y \in Seq(S) /\ Len(y) = n + k - 1 /\ (\A i \in 1..(n + k - 1) : y[i] = d[i + 1]) /\ Head(d) = d[1]
  BY <1>6, <1>10, <1>11, TailIs
<1>13. ASSUME NEW i \in 1..(p + k) PROVE x[i] = y[i]
  <2>1. y[i] = d[i + 1]
    BY <1>10, <1>12
  <2>2. CASE i <= p
    <3>1. i \in 1..p /\ i + 1 \in 1..n
      BY <2>2, <1>7
    <3> QED BY <2>1, <3>1, <1>4, <1>6, <1>7, <1>9
  <2>3. CASE ~(i <= p)
    <3>1. PICK j \in 1..k : i = p + j
      <4>1. i - p \in 1..k /\ i = p + (i - p)
        BY <2>3
      <4> QED BY <4>1
    <3>2. i + 1 = n + j
      BY <3>1, <1>7
    <3> QED BY <2>1, <3>1, <3>2, <1>6, <1>9
  <2> QED BY <2>2, <2>3
<1>14. x = y
  BY <1>9, <1>10, <1>12, <1>13, SameSeq
<1>15. 1 \in 1..n
  BY <1>4
<1> QED BY <1>3, <1>4, <1>5, <1>6, <1>8, <1>10, <1>11, <1>12, <1>14, <1>15

\* A batch that moves from the second queue to the first.
LEMMA JoinMove ==
    ASSUME NEW S, NEW a \in Seq(S), NEW b \in Seq(S), b # << >>
    PROVE  Append(a, Head(b)) \o Tail(b) = a \o b
<1>1. PICK n \in Nat : n = Len(a)
  OBVIOUS
<1>2. PICK k \in Nat : k = Len(b)
  OBVIOUS
<1>3. PICK c : c = Tail(b)
  OBVIOUS
<1>4. /\ c \in Seq(S) /\ Len(c) = k - 1 /\ k - 1 \in Nat /\ k >= 1
      /\ \A i \in 1..(k - 1) : c[i] = b[i + 1] /\ i + 1 \in 1..k
      /\ Head(b) = b[1] /\ b[1] \in S
  BY <1>2, <1>3, TailIs
<1>5. PICK d : d = Append(a, Head(b))
  OBVIOUS
<1>6. d \in Seq(S) /\ Len(d) = n + 1 /\ (\A i \in 1..n : d[i] = a[i]) /\ d[n + 1] = b[1]
  BY <1>1, <1>4, <1>5
<1>7. PICK p \in Nat : p = k - 1
  BY <1>4
<1>8. PICK x : x = d \o c
  OBVIOUS
<1>9. /\ x \in Seq(S) /\ Len(x) = (n + 1) + p
      /\ (\A i \in 1..(n + 1) : x[i] = d[i]) /\ \A i \in 1..p : x[(n + 1) + i] = c[i]
  <2>1. PICK n1 \in Nat : n1 = n + 1
    OBVIOUS
  <2>2. n1 = Len(d) /\ p = Len(c) /\ d \in Seq(S) /\ c \in Seq(S)
    BY <1>4, <1>6, <1>7, <2>1
  <2>3. /\ x \in Seq(S) /\ Len(x) = n1 + p
        /\ (\A i \in 1..n1 : x[i] = d[i]) /\ \A i \in 1..p : x[n1 + i] = c[i]
    BY <1>8, <2>2, JoinIs
  <2> QED BY <2>1, <2>3
<1>10. PICK y : y = a \o b
  OBVIOUS
<1>11. y \in Seq(S) /\ Len(y) = n + k /\ (\A i \in 1..n : y[i] = a[i]) /\ \A i \in 1..k : y[n + i] = b[i]
  BY <1>1, <1>2, <1>10, JoinIs, SMTT(20)
<1>12. (n + 1) + p = n + k
  BY <1>7
<1>13. ASSUME NEW i \in 1..(n + k) PROVE x[i] = y[i]
  <2>1. CASE i <= n
    <3>1. i \in 1..n /\ i \in 1..(n + 1)
      BY <2>1
    <3> QED BY <3>1, <1>6, <1>9, <1>11
  <2>2. CASE i = n + 1
    <3>1. 1 \in 1..k /\ n + 1 \in 1..(n + 1)
      BY <1>4
    <3>2. x[n + 1] = d[n + 1] /\ y[n + 1] = b[1]
      BY <3>1, <1>9, <1>11
    <3>3. d[n + 1] = b[1]
      BY <1>6
    <3>4. x[n + 1] = y[n + 1]
      BY <3>2, <3>3, Zenon
    <3> QED BY <2>2, <3>4, Zenon
  <2>3. CASE i > n + 1
    <3>1. PICK j \in 1..p : i = (n + 1) + j
      <4>1. i - (n + 1) \in 1..p /\ i = (n + 1) + (i - (n + 1))
        BY <2>3, <1>7
      <4> QED BY <4>1
    <3>2. i = n + (j + 1) /\ j + 1 \in 1..k /\ j \in 1..(k - 1)
      BY <3>1, <1>7
    <3>3. x[(n + 1) + j] = c[j]
      BY <3>1, <1>9
    <3>4. c[j] = b[j + 1]
      BY <3>2, <1>4
    <3>5. y[n + (j + 1)] = b[j + 1]
      BY <3>2, <1>11
    <3>6. x[i] = c[j] /\ y[i] = b[j + 1]
      BY <3>1, <3>2, <3>3, <3>5, Zenon
    <3> QED BY <3>4, <3>6
  <2> QED BY <2>1, <2>2, <2>3
<1>14. x = y
  BY <1>9, <1>11, <1>12, <1>13, SameSeq
<1> QED BY <1>3, <1>5, <1>8, <1>10, <1>14

\* What raft has handed out, or begun to restore, and what follows on it: the
\* batches u, each from at most the index after all that comes before it. c is
\* how far the log is applied or a snapshot pending, p is raftLog.applying.
Follows(c, p, u) ==
    /\ u # << >> => u[1].from <= c + 1
    /\ \A k \in 1..Len(u) : k > 1 => u[k].from <= MaxOf(c, BatchEnd(u[k - 1])) + 1
    /\ p <= IF u = << >> THEN c ELSE MaxOf(c, BatchEnd(u[Len(u)]))

\* applying may only move up to what is covered.
LEMMA FollowsSame ==
    ASSUME NEW c \in Nat, NEW p \in Nat, NEW u \in Seq(Batches), Follows(c, p, u),
           NEW c2 \in Nat, c <= c2, NEW p2 \in Nat, p2 <= MaxOf(p, c2)
    PROVE  Follows(c2, p2, u)
<1>1. u # << >> => u[1].from <= c2 + 1
  <2>1. SUFFICES ASSUME u # << >> PROVE u[1].from <= c2 + 1
    OBVIOUS
  <2>2. 1 \in 1..Len(u)
    BY <2>1
  <2>3. PICK f \in Nat : f = u[1].from
    BY <2>2, BatchTypes
  <2>4. f <= c + 1
    BY <2>1, <2>3 DEF Follows
  <2> QED BY <2>3, <2>4
<1>2. ASSUME NEW k \in 1..Len(u), k > 1 PROVE u[k].from <= MaxOf(c2, BatchEnd(u[k - 1])) + 1
  <2>1. k - 1 \in 1..Len(u)
    BY <1>2
  <2>2. PICK f \in Nat : f = u[k].from
    BY BatchTypes
  <2>3. PICK e \in Int : e = BatchEnd(u[k - 1])
    BY <2>1, BatchTypes
  <2>4. f <= MaxOf(c, e) + 1
    BY <1>2, <2>2, <2>3 DEF Follows
  <2>5. f <= MaxOf(c2, e) + 1
    BY <2>4 DEF MaxOf
  <2> QED BY <2>2, <2>3, <2>5
<1>3. p2 <= IF u = << >> THEN c2 ELSE MaxOf(c2, BatchEnd(u[Len(u)]))
  <2>1. CASE u = << >>
    <3>1. p <= c
      BY <2>1 DEF Follows
    <3> QED BY <2>1, <3>1 DEF MaxOf
  <2>2. CASE u # << >>
    <3>1. Len(u) \in 1..Len(u)
      BY <2>2
    <3>2. PICK e \in Int : e = BatchEnd(u[Len(u)])
      BY <3>1, BatchTypes
    <3>3. p <= MaxOf(c, e)
      BY <2>2, <3>2 DEF Follows
    <3>4. p2 <= MaxOf(c2, e)
      BY <3>3 DEF MaxOf
    <3> QED BY <2>2, <3>2, <3>4
  <2> QED BY <2>1, <2>2
<1> QED BY <1>1, <1>2, <1>3 DEF Follows

\* A Ready hands out the next batch.
LEMMA FollowsGrow ==
    ASSUME NEW c \in Nat, NEW p \in Nat, NEW u \in Seq(Batches), Follows(c, p, u),
           NEW b \in Batches, b.from = p + 1, NEW p2 \in Nat, BatchEnd(b) = p2, NEW v, v = Append(u, b)
    PROVE  Follows(c, p2, v) /\ v \in Seq(Batches)
<1>0. PICK n \in Nat : n = Len(u)
  OBVIOUS
<1>1. v \in Seq(Batches) /\ Len(v) = n + 1 /\ v[n + 1] = b /\ v # << >> /\ \A k \in 1..n : v[k] = u[k]
  BY <1>0
<1>2. v[1].from <= c + 1
  <2>1. CASE u = << >>
    <3>1. n = 0 /\ p <= c
      BY <1>0, <2>1 DEF Follows
    <3>2. v[1] = b
      BY <1>1, <3>1
    <3> QED BY <3>1, <3>2
  <2>2. CASE u # << >>
    <3>1. 1 \in 1..n
      BY <1>0, <2>2
    <3>2. v[1] = u[1]
      BY <3>1, <1>1
    <3> QED BY <3>2, <2>2 DEF Follows
  <2> QED BY <2>1, <2>2
<1>3. ASSUME NEW k \in 1..(n + 1), k > 1 PROVE v[k].from <= MaxOf(c, BatchEnd(v[k - 1])) + 1
  <2>0. k - 1 \in 1..n
    BY <1>3
  <2>1. v[k - 1] = u[k - 1]
    BY <2>0, <1>1
  <2>2. CASE k \in 1..n
    <3>1. v[k] = u[k]
      BY <2>2, <1>1
    <3>2. u[k].from <= MaxOf(c, BatchEnd(u[k - 1])) + 1
      BY <1>0, <1>3, <2>2 DEF Follows
    <3> QED BY <2>1, <3>1, <3>2
  <2>3. CASE k \notin 1..n
    <3>1. k = n + 1 /\ k - 1 = n /\ u # << >>
      BY <2>0, <2>3, <1>0
    <3>2. v[k] = b /\ v[k - 1] = u[n]
      BY <3>1, <2>1, <1>1
    <3>3. p <= MaxOf(c, BatchEnd(u[n]))
      BY <1>0, <3>1 DEF Follows
    <3>4. n \in 1..Len(u)
      BY <3>1, <2>0, <1>0
    <3>5. PICK e \in Int : e = BatchEnd(u[n])
      BY <3>4, BatchTypes
    <3>6. p <= MaxOf(c, e)
      BY <3>3, <3>5
    <3>7. b.from <= MaxOf(c, e) + 1
      BY <3>6 DEF MaxOf
    <3> QED BY <3>2, <3>5, <3>7
  <2> QED BY <2>2, <2>3
<1>4. p2 <= MaxOf(c, BatchEnd(v[Len(v)]))
  <2>1. BatchEnd(v[Len(v)]) = p2
    BY <1>1
  <2>2. p2 <= MaxOf(c, p2)
    BY DEF MaxOf
  <2> QED BY <2>1, <2>2
<1> QED BY <1>1, <1>2, <1>3, <1>4 DEF Follows

\* The first batch is acknowledged.
LEMMA FollowsDrop ==
    ASSUME NEW c \in Nat, NEW p \in Nat, NEW u \in Seq(Batches), Follows(c, p, u), u # << >>,
           NEW c2 \in Nat, c2 = MaxOf(BatchEnd(Head(u)), c), NEW v, v = Tail(u)
    PROVE  Follows(c2, p, v) /\ v \in Seq(Batches)
<1>0. PICK n \in Nat : n = Len(u)
  OBVIOUS
<1>1. /\ v \in Seq(Batches) /\ Len(v) = n - 1 /\ n - 1 \in Nat /\ n >= 1
      /\ \A k \in 1..(n - 1) : v[k] = u[k + 1] /\ k + 1 \in 1..n
      /\ Head(u) = u[1] /\ v = << >> <=> n = 1
  BY <1>0, TailIs
<1>2. PICK e \in Int : e = BatchEnd(u[1])
  <2>1. 1 \in 1..Len(u)
    BY <1>0, <1>1
  <2> QED BY <2>1, BatchTypes
<1>3. c2 = MaxOf(e, c)
  BY <1>1, <1>2
<1>4. ASSUME v # << >> PROVE v[1].from <= c2 + 1
  <2>1. 1 \in 1..(n - 1) /\ 1 + 1 = 2 /\ 2 \in 1..n /\ 2 > 1 /\ 2 - 1 = 1
    BY <1>1, <1>4
  <2>2. v[1] = u[2]
    BY <1>1, <2>1
  <2>3. u[2].from <= MaxOf(c, BatchEnd(u[2 - 1])) + 1
    BY <1>0, <2>1 DEF Follows
  <2>4. PICK f \in Nat : f = u[2].from
    BY <1>0, <2>1, BatchTypes
  <2>5. f <= MaxOf(c, e) + 1
    BY <2>1, <2>3, <2>4, <1>2
  <2>6. f <= c2 + 1
    BY <1>3, <2>5 DEF MaxOf
  <2> QED BY <2>2, <2>4, <2>6
<1>5. ASSUME NEW k \in 1..(n - 1), k > 1 PROVE v[k].from <= MaxOf(c2, BatchEnd(v[k - 1])) + 1
  <2>1. k - 1 \in 1..(n - 1) /\ k + 1 \in 1..n /\ k + 1 > 1 /\ (k + 1) - 1 = k /\ (k - 1) + 1 = k /\ k \in 1..n
    BY <1>5, <1>0
  <2>2. v[k] = u[k + 1] /\ v[k - 1] = u[k]
    <3>1. v[k] = u[k + 1]
      BY <1>1
    <3>2. v[k - 1] = u[(k - 1) + 1]
      BY <1>1, <2>1
    <3> QED BY <3>1, <3>2, <2>1
  <2>3. PICK f \in Nat : f = u[k + 1].from
    BY <1>0, <2>1, BatchTypes
  <2>4. PICK g \in Int : g = BatchEnd(u[k])
    BY <1>0, <2>1, BatchTypes
  <2>5. f <= MaxOf(c, g) + 1
    <3>1. u[k + 1].from <= MaxOf(c, BatchEnd(u[(k + 1) - 1])) + 1
      BY <1>0, <2>1 DEF Follows
    <3> QED BY <3>1, <2>1, <2>3, <2>4
  <2>6. f <= MaxOf(c2, g) + 1
    BY <1>3, <2>5 DEF MaxOf
  <2> QED BY <2>2, <2>3, <2>4, <2>6
<1>6. p <= IF v = << >> THEN c2 ELSE MaxOf(c2, BatchEnd(v[Len(v)]))
  <2>1. n \in 1..Len(u)
    BY <1>0, <1>1
  <2>2. PICK g \in Int : g = BatchEnd(u[n])
    BY <2>1, BatchTypes
  <2>3. p <= MaxOf(c, g)
    BY <1>0, <2>2 DEF Follows
  <2>4. CASE v = << >>
    <3>1. n = 1
      BY <1>1, <2>4
    <3>2. g = e
      BY <3>1, <2>2, <1>2
    <3>3. p <= c2
      BY <2>3, <3>2, <1>3 DEF MaxOf
    <3> QED BY <2>4, <3>3
  <2>5. CASE v # << >>
    <3>1. n - 1 \in 1..(n - 1) /\ (n - 1) + 1 = n
      BY <1>1, <2>5
    <3>2. v[Len(v)] = u[n]
      <4>1. v[n - 1] = u[(n - 1) + 1]
        BY <1>1, <3>1
      <4> QED BY <4>1, <3>1, <1>1
    <3>3. p <= MaxOf(c2, g)
      BY <2>3, <1>3 DEF MaxOf
    <3> QED BY <2>5, <2>2, <3>2, <3>3
  <2> QED BY <2>4, <2>5
<1> QED BY <1>1, <1>4, <1>5, <1>6 DEF Follows

\* v is the n values of a, then the k values of b.
Joined(v, a, b, n, k) ==
    /\ \A i \in 1..n : a[i] \in Nat /\ v[i] = a[i]
    /\ \A i \in 1..k : b[i] \in Nat /\ v[n + i] = b[i]

\* The total over a first part and a rest.
LEMMA TotalSplit ==
    ASSUME NEW n \in Nat, NEW k \in Nat, NEW v, NEW a, NEW b, Joined(v, a, b, n, k)
    PROVE  Total(v, n + k) = Total(a, n) + Total(b, k) /\ Total(a, n) \in Nat /\ Total(b, k) \in Nat
<1>a. \A i \in 1..n : a[i] \in Nat /\ v[i] = a[i]
  BY DEF Joined
<1>b. \A i \in 1..k : b[i] \in Nat /\ v[n + i] = b[i]
  BY DEF Joined
<1> DEFINE S == {j \in Nat : j <= k => Total(v, n + j) = Total(a, n) + Total(b, j) /\ Total(b, j) \in Nat}
<1>0. Total(a, n) = Total(v, n) /\ Total(a, n) \in Nat
  BY <1>a, TotalSame
<1>1. 0 \in S
  <2>1. Adds([i \in 0..0 |-> 0], b, 0)
    BY DEF Adds
  <2>2. Total(b, 0) = 0
    BY <2>1, TotalIs
  <2>3. n + 0 = n
    OBVIOUS
  <2> QED BY <1>0, <2>2, <2>3
<1>2. ASSUME NEW j \in Nat, j \in S PROVE j + 1 \in S
  <2>1. SUFFICES ASSUME j + 1 <= k PROVE Total(v, n + (j + 1)) = Total(a, n) + Total(b, j + 1) /\ Total(b, j + 1) \in Nat
    OBVIOUS
  <2>2. Total(v, n + j) = Total(a, n) + Total(b, j) /\ Total(b, j) \in Nat
    BY <1>2, <2>1
  <2>3. \A i \in 1..(j + 1) : b[i] \in Nat
    BY <2>1, <1>b
  <2>4. \A i \in 1..((n + j) + 1) : v[i] \in Nat
    <3>1. SUFFICES ASSUME NEW i \in 1..((n + j) + 1) PROVE v[i] \in Nat
      OBVIOUS
    <3>2. CASE i \in 1..n
      BY <3>2, <1>a
    <3>3. CASE i \notin 1..n
      <4>1. i - n \in 1..k /\ n + (i - n) = i
        BY <2>1, <3>3
      <4> QED BY <4>1, <1>b
    <3> QED BY <3>2, <3>3
  <2>5. Total(b, j + 1) = Total(b, j) + b[j + 1]
    BY <2>3, TotalStep
  <2>6. Total(v, (n + j) + 1) = Total(v, n + j) + v[(n + j) + 1]
    <3>1. n + j \in Nat
      OBVIOUS
    <3> QED BY <3>1, <2>4, TotalStep
  <2>7. j + 1 \in 1..k /\ n + (j + 1) = (n + j) + 1
    BY <2>1
  <2>8. v[(n + j) + 1] = b[j + 1] /\ b[j + 1] \in Nat
    BY <2>7, <1>b
  <2>9. PICK x \in Nat : x = Total(b, j)
    BY <2>2
  <2>10. PICK y \in Nat : y = Total(a, n)
    BY <1>0
  <2>11. PICK z \in Nat : z = b[j + 1]
    BY <2>8
  <2>12. (y + x) + z = y + (x + z) /\ x + z \in Nat
    OBVIOUS
  <2> QED BY <2>2, <2>5, <2>6, <2>7, <2>8, <2>9, <2>10, <2>11, <2>12
<1> HIDE DEF S
<1>3. \A j \in Nat : j \in S
  BY <1>1, <1>2, NatSetInduction
<1>4. k \in S /\ k <= k
  BY <1>3
<1> QED BY <1>0, <1>4 DEF S

\* The size of the batches u.
BatchSizes(u) == [i \in 1..Len(u) |-> entsSize(u[i].ents)]
\* Their sum: what raftLog.applyingEntsSize should be.
SizeOf(u) == Total(BatchSizes(u), Len(u))

\* The sizes of the batches are numbers.
LEMMA BatchSizesAre ==
    ASSUME NEW u \in Seq(Batches), NEW n \in Nat, n = Len(u)
    PROVE  \A i \in 1..n : BatchSizes(u)[i] \in Nat /\ BatchSizes(u)[i] = entsSize(u[i].ents)
<1>1. SUFFICES ASSUME NEW i \in 1..n
               PROVE  BatchSizes(u)[i] \in Nat /\ BatchSizes(u)[i] = entsSize(u[i].ents)
  OBVIOUS
<1>2. BatchSizes(u)[i] = entsSize(u[i].ents)
  BY DEF BatchSizes
<1>3. u[i].ents \in Seq(Entry)
  BY BatchTypes
<1>4. PICK s : s = u[i].ents
  OBVIOUS
<1>5. entsSize(s) \in Nat
  BY <1>3, <1>4, PayloadsIs
<1> QED BY <1>2, <1>4, <1>5

\* No batch has no size.
LEMMA SizeOfNone ==
    ASSUME NEW u, u = << >>
    PROVE  SizeOf(u) = 0
<1>1. Len(u) = 0
  OBVIOUS
<1>2. PICK v : v = BatchSizes(u)
  OBVIOUS
<1>3. Adds([i \in 0..0 |-> 0], v, 0)
  BY DEF Adds
<1>4. Total(v, 0) = 0
  BY <1>3, TotalIs
<1> QED BY <1>1, <1>2, <1>4 DEF SizeOf

\* The size of the batches is a number.
LEMMA SizeOfNat ==
    ASSUME NEW u \in Seq(Batches)
    PROVE  SizeOf(u) \in Nat
<1>1. PICK n \in Nat : n = Len(u)
  OBVIOUS
<1>2. PICK v : v = BatchSizes(u)
  OBVIOUS
<1>3. \A i \in 1..n : v[i] \in Nat /\ v[i] = v[i]
  BY <1>1, <1>2, BatchSizesAre
<1>4. Total(v, n) \in Nat
  BY <1>3, TotalSame
<1> QED BY <1>1, <1>2, <1>4 DEF SizeOf

\* One more batch.
LEMMA SizeOfGrow ==
    ASSUME NEW u \in Seq(Batches), NEW b \in Batches, NEW v, v = Append(u, b)
    PROVE  SizeOf(v) = SizeOf(u) + entsSize(b.ents)
<1>1. PICK n \in Nat : n = Len(u)
  OBVIOUS
<1>2. v \in Seq(Batches) /\ Len(v) = n + 1 /\ v[n + 1] = b /\ \A k \in 1..n : v[k] = u[k]
  BY <1>1
<1>3. PICK n1 \in Nat : n1 = n + 1
  OBVIOUS
<1>4. PICK x : x = BatchSizes(u)
  OBVIOUS
<1>5. PICK y : y = BatchSizes(v)
  OBVIOUS
<1>6. \A i \in 1..n : x[i] \in Nat /\ x[i] = entsSize(u[i].ents)
  BY <1>1, <1>4, BatchSizesAre
<1>7. \A i \in 1..n1 : y[i] \in Nat /\ y[i] = entsSize(v[i].ents)
  <2>1. n1 = Len(v) /\ v \in Seq(Batches)
    BY <1>2, <1>3
  <2> QED BY <2>1, <1>5, BatchSizesAre
<1>8. ASSUME NEW i \in 1..n PROVE x[i] \in Nat /\ x[i] = y[i]
  <2>1. i \in 1..n1
    BY <1>3
  <2>2. v[i] = u[i]
    BY <1>2
  <2> QED BY <2>1, <2>2, <1>6, <1>7
<1>9. Total(x, n) = Total(y, n)
  BY <1>8, TotalSame
<1>10. Total(y, n + 1) = Total(y, n) + y[n + 1]
  BY <1>3, <1>7, TotalStep
<1>11. y[n + 1] = entsSize(b.ents)
  <2>1. n + 1 \in 1..n1 /\ v[n + 1] = b
    BY <1>2, <1>3
  <2> QED BY <2>1, <1>7
<1>12. SizeOf(u) = Total(x, n) /\ SizeOf(v) = Total(y, n + 1)
  BY <1>1, <1>2, <1>4, <1>5 DEF SizeOf
<1> QED BY <1>9, <1>10, <1>11, <1>12

\* The first batch and the others.
LEMMA SizeOfDrop ==
    ASSUME NEW u \in Seq(Batches), u # << >>, NEW v, v = Tail(u)
    PROVE  /\ SizeOf(u) = entsSize(Head(u).ents) + SizeOf(v)
           /\ entsSize(Head(u).ents) \in Nat /\ SizeOf(v) \in Nat
<1>0. PICK n \in Nat : n = Len(u)
  OBVIOUS
<1>1. /\ v \in Seq(Batches) /\ Len(v) = n - 1 /\ n - 1 \in Nat /\ n >= 1
      /\ \A k \in 1..(n - 1) : v[k] = u[k + 1] /\ k + 1 \in 1..n
      /\ Head(u) = u[1]
  BY <1>0, TailIs
<1>2. PICK p \in Nat : p = n - 1
  BY <1>1
<1>3. PICK x : x = BatchSizes(u)
  OBVIOUS
<1>4. PICK y : y = BatchSizes(v)
  OBVIOUS
<1>5. \A i \in 1..n : x[i] \in Nat /\ x[i] = entsSize(u[i].ents)
  BY <1>0, <1>3, BatchSizesAre
<1>6. \A i \in 1..p : y[i] \in Nat /\ y[i] = entsSize(v[i].ents)
  <2>1. p = Len(v) /\ v \in Seq(Batches)
    BY <1>1, <1>2
  <2> QED BY <2>1, <1>4, BatchSizesAre
<1>7. PICK z : z = [i \in 1..1 |-> x[1]]
  OBVIOUS
<1>8. 1 \in Nat /\ 1 \in 1..n /\ 1 \in 1..1
  BY <1>1
<1>9. \A i \in 1..1 : z[i] \in Nat /\ x[i] = z[i]
  <2>1. SUFFICES ASSUME NEW i \in 1..1 PROVE z[i] \in Nat /\ x[i] = z[i]
    OBVIOUS
  <2>2. i = 1
    OBVIOUS
  <2> QED BY <2>2, <1>5, <1>7, <1>8
<1>10. ASSUME NEW i \in 1..p PROVE y[i] \in Nat /\ x[1 + i] = y[i]
  <2>1. i \in 1..(n - 1) /\ i + 1 \in 1..n /\ 1 + i = i + 1
    BY <1>2
  <2>2. v[i] = u[i + 1]
    BY <2>1, <1>1
  <2> QED BY <2>1, <2>2, <1>5, <1>6
<1>11. Total(x, 1 + p) = Total(z, 1) + Total(y, p) /\ Total(z, 1) \in Nat /\ Total(y, p) \in Nat
  <2>1. Joined(x, z, y, 1, p)
    BY <1>9, <1>10 DEF Joined
  <2> QED BY <2>1, <1>8, TotalSplit
<1>12. Total(z, 1) = z[1]
  <2>1. 0 \in Nat /\ 0 + 1 = 1
    OBVIOUS
  <2>2. \A i \in 1..(0 + 1) : z[i] \in Nat
    BY <1>9, <2>1
  <2>3. Total(z, 0) = 0 /\ Total(z, 0 + 1) = Total(z, 0) + z[0 + 1]
    BY <2>1, <2>2, TotalStep
  <2>4. z[1] \in Nat
    BY <1>8, <1>9
  <2> QED BY <2>1, <2>3, <2>4
<1>13. z[1] = entsSize(Head(u).ents)
  BY <1>1, <1>5, <1>7, <1>8
<1>14. SizeOf(u) = Total(x, 1 + p) /\ SizeOf(v) = Total(y, p)
  <2>1. n = 1 + p /\ p = Len(v)
    BY <1>1, <1>2
  <2> QED BY <2>1, <1>0, <1>3, <1>4 DEF SizeOf
<1> QED BY <1>11, <1>12, <1>13, <1>14

-----------------------------------------------------------------------------
(* The payload of the entries after an index.                              *)

\* The sizes of the entries of s after index i.
SizesAfter(s, i) == [k \in 1..(Len(s) - i) |-> s[i + k].size]
\* Their sum: what raft.uncommittedSize may count.
PayloadAfter(s, i) == Total(SizesAfter(s, i), Len(s) - i)

\* The log s has n entries after index i.
Remain(s, i, n) == n + i = Len(s)
\* The sizes of these entries are numbers.
LEMMA SizesAfterAre ==
    ASSUME NEW s \in Seq(Entry), NEW i \in Nat, NEW n \in Nat, Remain(s, i, n), NEW x, x = SizesAfter(s, i)
    PROVE  \A k \in 1..n : x[k] \in Nat /\ x[k] = s[i + k].size
<1>1. SUFFICES ASSUME NEW k \in 1..n PROVE x[k] \in Nat /\ x[k] = s[i + k].size
  OBVIOUS
<1>2. n = Len(s) - i /\ i + k \in 1..Len(s)
  BY DEF Remain
<1>3. x[k] = s[i + k].size
  BY <1>2 DEF SizesAfter
<1>4. s[i + k] \in Entry
  BY <1>2
<1>5. s[i + k].size \in Nat
  BY <1>4 DEF Entry
<1> QED BY <1>3, <1>5

\* v has the n sizes of the entries of s after i up to j.
SizesFrom(v, s, i, j, n) ==
    i <= j /\ j <= Len(s) /\ n = j - i /\ \A k \in 1..n : v[k] = s[i + k].size

\* Some of the entries, and those after them.
LEMMA PayloadSplit ==
    ASSUME NEW s \in Seq(Entry), NEW i \in Nat, NEW j \in Nat, NEW n \in Nat, NEW v, SizesFrom(v, s, i, j, n)
    PROVE  /\ PayloadAfter(s, i) = Total(v, n) + PayloadAfter(s, j)
           /\ Total(v, n) \in Nat /\ PayloadAfter(s, j) \in Nat
<1>a. i <= j /\ j <= Len(s) /\ n = j - i
  BY DEF SizesFrom
<1>b. \A k \in 1..n : v[k] = s[i + k].size
  BY DEF SizesFrom
<1>0. PICK l \in Nat : l = Len(s)
  OBVIOUS
<1>1. l - i \in Nat /\ l - j \in Nat
  BY <1>0, <1>a
<1>2. PICK a \in Nat : a = l - i
  BY <1>1
<1>3. PICK b \in Nat : b = l - j
  BY <1>1
<1>4. a = n + b /\ a + i = Len(s) /\ b + j = Len(s) /\ i + n = j
  BY <1>0, <1>2, <1>3, <1>a
<1>5. PICK x : x = SizesAfter(s, i)
  OBVIOUS
<1>6. PICK y : y = SizesAfter(s, j)
  OBVIOUS
<1>7. \A k \in 1..a : x[k] \in Nat /\ x[k] = s[i + k].size
  <2>1. Remain(s, i, a)
    BY <1>4 DEF Remain
  <2> QED BY <2>1, <1>5, SizesAfterAre
<1>8. \A k \in 1..b : y[k] \in Nat /\ y[k] = s[j + k].size
  <2>1. Remain(s, j, b)
    BY <1>4 DEF Remain
  <2> QED BY <2>1, <1>6, SizesAfterAre
<1>9. ASSUME NEW k \in 1..n PROVE v[k] \in Nat /\ x[k] = v[k]
  <2>1. k \in 1..a
    BY <1>4
  <2> QED BY <2>1, <1>7, <1>b
<1>10. ASSUME NEW k \in 1..b PROVE y[k] \in Nat /\ x[n + k] = y[k]
  <2>1. n + k \in 1..a /\ i + (n + k) = j + k
    BY <1>4
  <2>2. x[n + k] = s[i + (n + k)].size
    BY <2>1, <1>7
  <2> QED BY <2>1, <2>2, <1>8
<1>11. Total(x, n + b) = Total(v, n) + Total(y, b) /\ Total(v, n) \in Nat /\ Total(y, b) \in Nat
  <2>1. Joined(x, v, y, n, b)
    BY <1>9, <1>10 DEF Joined
  <2> QED BY <2>1, TotalSplit
<1>12. PayloadAfter(s, i) = Total(x, n + b) /\ PayloadAfter(s, j) = Total(y, b)
  BY <1>0, <1>2, <1>3, <1>4, <1>5, <1>6 DEF PayloadAfter
<1> QED BY <1>11, <1>12

\* One more entry.
LEMMA PayloadGrow ==
    ASSUME NEW s \in Seq(Entry), NEW e \in Entry, NEW i \in Nat, i <= Len(s), NEW t, t = Append(s, e)
    PROVE  PayloadAfter(t, i) = PayloadAfter(s, i) + e.size /\ PayloadAfter(s, i) \in Nat
<1>0. PICK l \in Nat : l = Len(s)
  OBVIOUS
<1>1. l - i \in Nat
  BY <1>0
<1>2. PICK a \in Nat : a = l - i
  BY <1>1
<1>3. t \in Seq(Entry) /\ Len(t) = l + 1 /\ t[l + 1] = e /\ \A k \in 1..l : t[k] = s[k]
  BY <1>0
<1>4. PICK b \in Nat : b = a + 1
  OBVIOUS
<1>5. a + i = Len(s) /\ b + i = Len(t) /\ Len(t) - i = b /\ Len(s) - i = a
  BY <1>0, <1>2, <1>3, <1>4
<1>6. PICK x : x = SizesAfter(s, i)
  OBVIOUS
<1>7. PICK y : y = SizesAfter(t, i)
  OBVIOUS
<1>8. \A k \in 1..a : x[k] \in Nat /\ x[k] = s[i + k].size
  <2>1. Remain(s, i, a)
    BY <1>5 DEF Remain
  <2> QED BY <2>1, <1>6, SizesAfterAre
<1>9. \A k \in 1..b : y[k] \in Nat /\ y[k] = t[i + k].size
  <2>1. t \in Seq(Entry) /\ Remain(t, i, b)
    BY <1>3, <1>5 DEF Remain
  <2>2. ASSUME NEW s2 \in Seq(Entry), Remain(s2, i, b)
        PROVE  \A k \in 1..b : SizesAfter(s2, i)[k] \in Nat /\ SizesAfter(s2, i)[k] = s2[i + k].size
    BY <2>2, SizesAfterAre
  <2> QED BY <2>1, <2>2, <1>7
<1>10. ASSUME NEW k \in 1..a PROVE x[k] \in Nat /\ x[k] = y[k]
  <2>1. k \in 1..b /\ i + k \in 1..l
    BY <1>2, <1>4
  <2>2. t[i + k] = s[i + k]
    BY <2>1, <1>3
  <2> QED BY <2>1, <2>2, <1>8, <1>9
<1>11. Total(x, a) = Total(y, a) /\ Total(x, a) \in Nat
  BY <1>10, TotalSame
<1>12. Total(y, a + 1) = Total(y, a) + y[a + 1]
  BY <1>4, <1>9, TotalStep
<1>13. y[a + 1] = e.size
  <2>1. a + 1 \in 1..b /\ i + (a + 1) = l + 1
    BY <1>2, <1>4
  <2>2. y[a + 1] = t[i + (a + 1)].size
    BY <2>1, <1>9
  <2> QED BY <2>1, <2>2, <1>3
<1>14. PayloadAfter(s, i) = Total(x, a) /\ PayloadAfter(t, i) = Total(y, a + 1)
  BY <1>4, <1>5, <1>6, <1>7 DEF PayloadAfter
<1> QED BY <1>11, <1>12, <1>13, <1>14

\* Up to where the log is applied, or a pending snapshot has it.
Covered(r) == MaxOf(r.applied, r.snapshot.index)

\* The accounts of the node, for the batches u that were not acknowledged.
Ledger(r, u, G) ==
    /\ u \in Seq(Batches)
    /\ r.applyingEntsSize = SizeOf(u)
    /\ Follows(Covered(r), r.applying, u)
    /\ r.state # "StateLeader" => r.uncommittedSize = 0
    /\ r.uncommittedSize <= PayloadAfter(G, Covered(r))

\* What is covered is committed, and in the log.
LEMMA CoveredIs ==
    ASSUME NEW w, NEW r, NEW m, NEW q, NEW a, NEW G, NEW D, NEW H, Core(w, r, m, q, a, G, D, H)
    PROVE  /\ Covered(r) \in Nat /\ Covered(r) <= r.committed /\ Covered(r) <= Len(G)
           /\ r.applied <= Covered(r) /\ G \in Seq(Entry) /\ PayloadAfter(G, Covered(r)) \in Nat
<1>0. r \in Nodes /\ G \in Seq(Entry)
  BY DEF Core, Memory
<1>1. PICK p \in Nat : p = r.applied
  BY <1>0, NodeTypes
<1>2. PICK s \in Nat : s = r.snapshot.index
  BY <1>0, NodeTypes
<1>3. PICK c \in Nat : c = r.committed
  BY <1>0, NodeTypes
<1>4. PICK g \in Nat : g = r.applying
  BY <1>0, NodeTypes
<1>5. p <= g /\ g <= c
  BY <1>1, <1>3, <1>4 DEF Core, Cursors
<1>6. s <= c
  <2>1. CASE r.snapshot = NoSnap
    <3>1. s = 0
      BY <2>1, <1>2 DEF NoSnap
    <3> QED BY <3>1
  <2>2. CASE r.snapshot # NoSnap
    BY <2>2, <1>2, <1>3 DEF Core, Pending
  <2> QED BY <2>1, <2>2
<1>7. PICK l \in Nat : l = Len(G)
  BY <1>0
<1>8. c <= l
  BY <1>3, <1>7 DEF Core, Memory, CommitOK
<1>9. PICK x : x = MaxOf(p, s)
  OBVIOUS
<1>10. x \in Nat /\ x <= c /\ x <= l /\ p <= x
  BY <1>5, <1>6, <1>8, <1>9 DEF MaxOf
<1>11. Covered(r) = x
  BY <1>1, <1>2, <1>9 DEF Covered
<1>12. PayloadAfter(G, x) \in Nat
  <2>1. PICK v : v = [k \in 1..0 |-> 0]
    OBVIOUS
  <2>2. x <= x /\ 0 = x - x /\ 0 \in Nat /\ x <= Len(G)
    BY <1>7, <1>10
  <2>3. SizesFrom(v, G, x, x, 0)
    BY <2>2 DEF SizesFrom
  <2> QED BY <1>0, <1>10, <2>2, <2>3, PayloadSplit
<1> QED BY <1>0, <1>1, <1>3, <1>7, <1>10, <1>11, <1>12

\* A step that hands out no batch and acknowledges none.
Settled(r, r2) ==
    /\ r2.applyingEntsSize = r.applyingEntsSize
    /\ Covered(r) <= Covered(r2)
    /\ r2.applying <= MaxOf(r.applying, Covered(r2))
\* The accounts after such a step.
LEMMA LedgerKept ==
    ASSUME NEW w, NEW r, NEW m, NEW q, NEW a, NEW G, NEW D, NEW H, Core(w, r, m, q, a, G, D, H),
           NEW w2, NEW r2, NEW m2, NEW q2, NEW a2, NEW G2, NEW D2, NEW H2, Core(w2, r2, m2, q2, a2, G2, D2, H2),
           NEW u, Ledger(r, u, G), Settled(r, r2),
           r2.state # "StateLeader" => r2.uncommittedSize = 0,
           r2.uncommittedSize = 0 \/ r2.uncommittedSize <= PayloadAfter(G2, Covered(r2))
    PROVE  Ledger(r2, u, G2)
<1>0. r \in Nodes /\ r2 \in Nodes
  BY DEF Core
<1>1. PICK c \in Nat : c = Covered(r)
  BY CoveredIs
<1>2. PICK c2 \in Nat : c2 = Covered(r2)
  BY CoveredIs
<1>3. PICK p \in Nat : p = r.applying
  BY <1>0, NodeTypes
<1>4. PICK p2 \in Nat : p2 = r2.applying
  BY <1>0, NodeTypes
<1>5. c <= c2 /\ p2 <= MaxOf(p, c2)
  BY <1>1, <1>2, <1>3, <1>4 DEF Settled
<1>6. u \in Seq(Batches) /\ Follows(c, p, u)
  BY <1>1, <1>3 DEF Ledger
<1>7. Follows(c2, p2, u)
  BY <1>5, <1>6, FollowsSame
<1>8. r2.applyingEntsSize = SizeOf(u)
  BY DEF Settled, Ledger
<1>9. r2.uncommittedSize <= PayloadAfter(G2, Covered(r2))
  <2>1. PICK x \in Nat : x = PayloadAfter(G2, Covered(r2))
    BY CoveredIs
  <2>2. PICK y \in Nat : y = r2.uncommittedSize
    BY <1>0, NodeTypes
  <2>3. y = 0 \/ y <= x
    BY <2>1, <2>2
  <2>4. y <= x
    BY <2>3
  <2> QED BY <2>1, <2>2, <2>4
<1> QED BY <1>2, <1>4, <1>6, <1>7, <1>8, <1>9 DEF Ledger

\* What is committed at an index is what raft has there.
LEMMA CommittedIs ==
    ASSUME NEW w \in Worlds, NEW s \in Seq(Entry), NEW T, NEW c \in Nat, CommitOK(w, s, T, c),
           NEW i \in 1..c, NEW e, Committed(w, i, e)
    PROVE  s[i] = e
<1>1. PICK t \in DOMAIN w.log : t <= T /\ c <= w.commit[t] /\ Same(c, s, w.log[t])
  <2>1. c # 0
    OBVIOUS
  <2> QED BY <2>1 DEF CommitOK
<1>2. PICK v \in DOMAIN w.log : i <= w.commit[v] /\ w.log[v][i] = e
  BY DEF Committed
<1>3. /\ t \in Nat /\ t > 0 /\ w.log[t] \in Seq(Entry) /\ w.commit[t] \in Nat /\ w.commit[t] <= Len(w.log[t])
      /\ v \in Nat /\ v > 0 /\ w.log[v] \in Seq(Entry) /\ w.commit[v] \in Nat /\ w.commit[v] <= Len(w.log[v])
  BY WorldTypes
<1>4. s[i] = w.log[t][i]
  BY <1>1 DEF Same
<1>5. PICK a \in Nat : a = w.commit[t]
  BY <1>3
<1>6. PICK b \in Nat : b = w.commit[v]
  BY <1>3
<1>7. i <= a /\ i <= b /\ w.log[t] # << >> /\ w.log[v] # << >>
  <2>1. i <= a
    BY <1>1, <1>5
  <2>2. i <= b
    BY <1>2, <1>6
  <2>3. a <= Len(w.log[t]) /\ b <= Len(w.log[v])
    BY <1>3, <1>5, <1>6
  <2>4. Len(w.log[t]) # 0 /\ Len(w.log[v]) # 0
    BY <2>1, <2>2, <2>3, <1>3
  <2> QED BY <2>1, <2>2, <2>4
<1>8. CASE t = v
  BY <1>2, <1>4, <1>8
<1>9. CASE v < t
  <2>1. v \in 1..(t - 1)
    BY <1>3, <1>9
  <2>2. Agree(w.commit[v], w.log[v], w.log[t])
    BY <2>1, <1>7, WorldAssumption DEF ValidWorld
  <2>3. Same(b, w.log[v], w.log[t])
    BY <2>2, <1>3, <1>6, AgreeSame
  <2>4. i \in 1..b
    BY <1>7
  <2> QED BY <2>3, <2>4, <1>2, <1>4 DEF Same
<1>10. CASE t < v
  <2>1. t \in 1..(v - 1)
    BY <1>3, <1>10
  <2>2. Agree(w.commit[t], w.log[t], w.log[v])
    BY <2>1, <1>7, WorldAssumption DEF ValidWorld
  <2>3. Same(a, w.log[t], w.log[v])
    BY <2>2, <1>3, <1>5, AgreeSame
  <2>4. i \in 1..a
    BY <1>7
  <2> QED BY <2>3, <2>4, <1>2, <1>4 DEF Same
<1> QED BY <1>3, <1>8, <1>9, <1>10

\* Batch b holds the entries of G from its first index on, up to e.
BatchOf(b, G, e) ==
    /\ b.from > 0 /\ e = BatchEnd(b)
    /\ \A j \in 1..Len(b.ents) : b.ents[j] = G[b.from + j - 1]

\* A batch that begins at or before c + 1 has all that lies between c and its end.
LEMMA BatchPays ==
    ASSUME NEW G \in Seq(Entry), NEW b \in Batches, NEW e \in Nat, BatchOf(b, G, e), NEW c \in Nat,
           b.from <= c + 1, c <= e, e <= Len(G)
    PROVE  \E t \in Nat : t <= payloadsSize(b.ents) /\ PayloadAfter(G, c) = t + PayloadAfter(G, e)
<1>1. PICK f \in Nat : f = b.from
  BY DEF Batches
<1>2. PICK s \in Seq(Entry) : s = b.ents
  BY DEF Batches
<1>3. PICK n \in Nat : n = Len(s)
  OBVIOUS
<1>4. f > 0 /\ e = f + n - 1 /\ f <= c + 1
  BY <1>1, <1>2, <1>3 DEF BatchOf, BatchEnd
<1>5. c + 1 - f \in Nat /\ e - c \in Nat
  BY <1>4
<1>6. PICK k \in Nat : k = c + 1 - f
  BY <1>5
<1>7. PICK l \in Nat : l = e - c
  BY <1>5
<1>8. n = k + l
  BY <1>4, <1>6, <1>7
<1>9. \A j \in 1..n : s[j] = G[f + j - 1]
  BY <1>1, <1>2, <1>3 DEF BatchOf
<1>10. PICK v : v = Sizes(s)
  OBVIOUS
<1>11. \A j \in 1..n : v[j] \in Nat /\ v[j] = s[j].size
  BY <1>3, <1>10, SizesType
<1>12. PICK y : y = [i \in 1..l |-> v[k + i]]
  OBVIOUS
<1>13. Joined(v, v, y, k, l)
  <2>1. ASSUME NEW i \in 1..k PROVE v[i] \in Nat /\ v[i] = v[i]
    <3>1. i \in 1..n
      BY <1>8
    <3> QED BY <3>1, <1>11
  <2>2. ASSUME NEW i \in 1..l PROVE y[i] \in Nat /\ v[k + i] = y[i]
    <3>1. k + i \in 1..n
      BY <1>8
    <3>2. y[i] = v[k + i]
      BY <1>12
    <3> QED BY <3>1, <3>2, <1>11
  <2> QED BY <2>1, <2>2 DEF Joined
<1>14. Total(v, k + l) = Total(v, k) + Total(y, l) /\ Total(v, k) \in Nat /\ Total(y, l) \in Nat
  BY <1>13, TotalSplit
<1>15. payloadsSize(s) = Total(v, n)
  BY <1>3, <1>10, PayloadsIs
<1>16. ASSUME NEW i \in 1..l PROVE y[i] = G[c + i].size
  <2>1. k + i \in 1..n /\ f + (k + i) - 1 = c + i
    BY <1>6, <1>8
  <2>2. y[i] = v[k + i]
    BY <1>12
  <2>3. v[k + i] = s[k + i].size
    BY <2>1, <1>11
  <2>4. s[k + i] = G[f + (k + i) - 1]
    BY <2>1, <1>9
  <2> QED BY <2>1, <2>2, <2>3, <2>4
<1>17. PayloadAfter(G, c) = Total(y, l) + PayloadAfter(G, e)
  <2>1. l = e - c
    BY <1>7
  <2>2. \A i \in 1..l : y[i] = G[c + i].size
    BY <1>16
  <2>3. SizesFrom(y, G, c, e, l)
    BY <2>1, <2>2 DEF SizesFrom
  <2> QED BY <2>3, PayloadSplit
<1>18. PICK t \in Nat : t = Total(y, l)
  BY <1>14
<1>19. t <= payloadsSize(s)
  <2>1. PICK z \in Nat : z = Total(v, k)
    BY <1>14
  <2>2. payloadsSize(s) = z + t
    BY <1>8, <1>14, <1>15, <1>18, <2>1
  <2> QED BY <2>2
<1> QED BY <1>2, <1>17, <1>18, <1>19

\* The first batch that was not acknowledged is.
LEMMA GivenLedger ==
    ASSUME NEW w, NEW r, NEW m, NEW q, NEW a, NEW G, NEW D, NEW H, Core(w, r, m, q, a, G, D, H),
           NEW u, Ledger(r, u, G), u # << >>, NEW x, x = Head(u), BatchOK(w, r, x),
           NEW r2, r2 = ApplyResponded(r, x)
    PROVE  Ledger(r2, Tail(u), G) /\ Given(r, r2)
<1>0. r \in Nodes /\ w \in Worlds /\ G \in Seq(Entry) /\ CommitOK(w, G, r.Term, r.committed)
      /\ r.applied <= r.applying /\ r.applying <= r.committed
  BY DEF Core, Memory, Cursors
<1>1. u \in Seq(Batches)
  BY DEF Ledger
<1>2. x \in Batches /\ x = u[1] /\ x.from \in Nat /\ BatchEnd(x) \in Int /\ x.ents \in Seq(Entry)
      /\ Len(x.ents) \in Nat
  <2>1. 1 \in 1..Len(u) /\ Head(u) = u[1]
    BY <1>1
  <2> QED BY <2>1, <1>1, BatchTypes
<1>3. x.from > 0 /\ BatchEnd(x) <= r.applying
  BY DEF BatchOK
<1>4. /\ Given(r, r2)
      /\ r2.applyingEntsSize = IF r.applyingEntsSize > entsSize(x.ents)
                               THEN r.applyingEntsSize - entsSize(x.ents) ELSE 0
      /\ r2.uncommittedSize = IF payloadsSize(x.ents) > r.uncommittedSize
                              THEN 0 ELSE r.uncommittedSize - payloadsSize(x.ents)
      /\ r2.applied = MaxOf(BatchEnd(x), r.applied)
  BY <1>0, <1>2, <1>3, ApplyRespondedIs
<1>5. /\ r2 \in Nodes /\ r2.state = r.state /\ r2.snapshot = r.snapshot /\ r2.applying = r.applying
  BY <1>4 DEF Given
<1>6. PICK c \in Nat : c = Covered(r) /\ c <= Len(G)
  BY CoveredIs
<1>7. PICK p \in Nat : p = r.applying
  BY <1>0, NodeTypes
<1>8. PICK e \in Nat : e = BatchEnd(x)
  <2>1. BatchEnd(x) \in Nat
    BY <1>2, <1>3 DEF BatchEnd
  <2> QED BY <2>1
<1>9. PICK c2 \in Nat : c2 = MaxOf(e, c)
  BY DEF MaxOf
<1>10. Covered(r2) = c2
  <2>1. PICK j \in Nat : j = r.applied
    BY <1>0, NodeTypes
  <2>2. PICK s \in Nat : s = r.snapshot.index
    BY <1>0, NodeTypes
  <2>3. c = MaxOf(j, s)
    BY <1>6, <2>1, <2>2 DEF Covered
  <2>4. Covered(r2) = MaxOf(MaxOf(e, j), s)
    BY <1>4, <1>5, <1>8, <2>1, <2>2 DEF Covered
  <2>5. MaxOf(MaxOf(e, j), s) = MaxOf(e, MaxOf(j, s))
    BY DEF MaxOf
  <2> QED BY <1>9, <2>3, <2>4, <2>5
<1>11. Follows(c2, p, Tail(u)) /\ Tail(u) \in Seq(Batches)
  <2>1. Follows(c, p, u)
    BY <1>6, <1>7 DEF Ledger
  <2>2. c2 = MaxOf(BatchEnd(Head(u)), c)
    BY <1>8, <1>9
  <2> QED BY <2>1, <2>2, <1>1, FollowsDrop
<1>12. r2.applyingEntsSize = SizeOf(Tail(u))
  <2>1. /\ SizeOf(u) = entsSize(Head(u).ents) + SizeOf(Tail(u))
        /\ entsSize(Head(u).ents) \in Nat /\ SizeOf(Tail(u)) \in Nat
    BY <1>1, SizeOfDrop
  <2>2. PICK y \in Nat : y = entsSize(x.ents)
    BY <2>1
  <2>3. PICK z \in Nat : z = SizeOf(Tail(u))
    BY <2>1
  <2>4. r.applyingEntsSize = y + z
    BY <2>1, <2>2, <2>3 DEF Ledger
  <2>5. r2.applyingEntsSize = IF y + z > y THEN (y + z) - y ELSE 0
    BY <1>4, <2>2, <2>4
  <2>6. (IF y + z > y THEN (y + z) - y ELSE 0) = z
    OBVIOUS
  <2> QED BY <2>3, <2>5, <2>6
<1>13. r2.state # "StateLeader" => r2.uncommittedSize = 0
  <2>1. SUFFICES ASSUME r.state # "StateLeader" PROVE r2.uncommittedSize = 0
    BY <1>5
  <2>2. r.uncommittedSize = 0
    BY <2>1 DEF Ledger
  <2>3. PICK y \in Nat : y = payloadsSize(x.ents)
    BY <1>2, PayloadsIs
  <2>4. r2.uncommittedSize = IF y > 0 THEN 0 ELSE 0 - y
    BY <1>4, <2>2, <2>3
  <2> QED BY <2>4
<1>14. r2.uncommittedSize <= PayloadAfter(G, c2)
  <2>1. PICK U \in Nat : U = r.uncommittedSize
    BY <1>0, NodeTypes
  <2>2. PICK y \in Nat : y = payloadsSize(x.ents)
    BY <1>2, PayloadsIs
  <2>3. r2.uncommittedSize = IF y > U THEN 0 ELSE U - y
    BY <1>4, <2>1, <2>2
  <2>4. PICK P \in Nat : P = PayloadAfter(G, c)
    BY <1>6, CoveredIs
  <2>5. U <= P
    BY <1>6, <2>1, <2>4 DEF Ledger
  <2>6. CASE e <= c
    <3>1. c2 = c
      BY <1>9, <2>6 DEF MaxOf
    <3>2. (IF y > U THEN 0 ELSE U - y) <= P
      BY <2>5
    <3> QED BY <2>3, <2>4, <3>1, <3>2
  <2>7. CASE ~(e <= c)
    <3>1. c2 = e /\ c <= e
      BY <1>9, <2>7 DEF MaxOf
    <3>2. e <= r.committed /\ e <= Len(G)
      <4>1. PICK k \in Nat : k = r.committed
        BY <1>0, NodeTypes
      <4>2. e <= p /\ p <= k
        BY <1>0, <1>3, <1>7, <1>8, <4>1
      <4>3. k <= Len(G)
        BY <1>0, <4>1 DEF CommitOK
      <4>4. e <= k
        BY <4>2
      <4>5. e <= Len(G)
        <5>1. PICK g \in Nat : g = Len(G)
          BY <1>0
        <5> QED BY <5>1, <4>3, <4>4
      <4> QED BY <4>1, <4>4, <4>5
    <3>3. x.from <= c + 1
      BY <1>2, <1>6 DEF Ledger, Follows
    <3>4. BatchOf(x, G, e)
      <4>1. ASSUME NEW j \in 1..Len(x.ents) PROVE x.ents[j] = G[x.from + j - 1]
        <5>1. PICK f \in Nat : f = x.from
          BY <1>2
        <5>2. PICK n \in Nat : n = Len(x.ents)
          BY <1>2
        <5>3. PICK k \in Nat : k = r.committed
          BY <1>0, NodeTypes
        <5>4. f > 0 /\ e = f + n - 1 /\ e <= k /\ j \in 1..n
          BY <1>3, <1>8, <5>1, <5>2, <5>3, <3>2 DEF BatchEnd
        <5>5. f + j - 1 \in 1..k
          BY <5>4
        <5>6. Committed(w, f + j - 1, x.ents[j])
          BY <5>1 DEF BatchOK
        <5>7. CommitOK(w, G, r.Term, k)
          BY <1>0, <5>3
        <5>8. G[f + j - 1] = x.ents[j]
          BY <1>0, <5>5, <5>6, <5>7, CommittedIs
        <5> QED BY <5>1, <5>8
      <4> QED BY <4>1, <1>3, <1>8 DEF BatchOf
    <3>5. PICK t \in Nat : t <= payloadsSize(x.ents) /\ PayloadAfter(G, c) = t + PayloadAfter(G, e)
      BY <1>0, <1>2, <3>1, <3>2, <3>3, <3>4, BatchPays
    <3>6. PICK Q \in Nat : Q = PayloadAfter(G, e)
      <4>1. PICK v : v = [k \in 1..0 |-> 0]
        OBVIOUS
      <4>2. e <= e /\ 0 = e - e /\ 0 \in Nat
        OBVIOUS
      <4>3. SizesFrom(v, G, e, e, 0)
        BY <3>2, <4>2 DEF SizesFrom
      <4>4. PayloadAfter(G, e) \in Nat
        BY <1>0, <3>2, <4>2, <4>3, PayloadSplit
      <4> QED BY <4>4
    <3>7. t <= y /\ P = t + Q
      BY <2>2, <2>4, <3>5, <3>6
    <3>8. (IF y > U THEN 0 ELSE U - y) <= Q
      BY <2>5, <3>7
    <3> QED BY <2>3, <3>1, <3>6, <3>8
  <2> QED BY <2>6, <2>7
<1> QED BY <1>4, <1>5, <1>7, <1>10, <1>11, <1>12, <1>13, <1>14 DEF Ledger

\* The answer of the append thread leaves uncommittedSize alone.
LEMMA AppendRespondedFrame ==
    ASSUME NEW r \in Nodes, NEW x, NEW r2, r2 = AppendResponded(r, x)
    PROVE  r2.uncommittedSize = r.uncommittedSize
<1>1. PICK r1 : r1 = IF x.term < r.Term \/ x.index = 0 THEN r ELSE stableTo(r, x.index, x.logTerm)
  OBVIOUS
<1>2. r1.uncommittedSize = r.uncommittedSize
  BY <1>1 DEF stableTo, Nodes
<1>3. r2 = IF x.snapshot = NoSnap THEN r1 ELSE appliedSnap(r1, x.snapshot)
  BY <1>1 DEF AppendResponded
<1>4. PICK y : y = stableSnapTo(r1, x.snapshot.index)
  OBVIOUS
<1>5. y.uncommittedSize = r1.uncommittedSize
  BY <1>1, <1>4 DEF stableSnapTo, stableTo, Nodes
<1>6. appliedSnap(r1, x.snapshot).uncommittedSize = y.uncommittedSize
  BY <1>1, <1>4 DEF appliedSnap, appliedTo, stableSnapTo, stableTo, Nodes
<1> QED BY <1>2, <1>3, <1>5, <1>6

\* An answer of the append thread moves no account: the snapshot it names was
\* covered as a pending one, and is now as an applied one.
LEMMA AckedLedger ==
    ASSUME NEW w, NEW r, NEW m, NEW q, NEW a, NEW G, NEW D, NEW H, Core(w, r, m, q, a, G, D, H),
           NEW u, Ledger(r, u, G), NEW x, Responds(w, r, q, a, G, D, x),
           NEW r2, r2 = AppendResponded(r, x)
    PROVE  Ledger(r2, u, G) /\ Acked(r, r2, q, G, D, x)
<1>1. Acked(r, r2, q, G, D, x)
  BY AppendRespondedIs
<1>2. Core(w, r2, m, q, a, G, D, H)
  BY <1>1, AckedCore
<1>3. r \in Nodes /\ x \in AppendResps
  BY DEF Core, Responds
<1>4. r2.uncommittedSize = r.uncommittedSize
  BY <1>3, AppendRespondedFrame
<1>5. PICK j \in Nat : j = r.applied
  BY <1>3, NodeTypes
<1>6. PICK s \in Nat : s = r.snapshot.index
  BY <1>3, NodeTypes
<1>7. PICK i \in Nat : i = x.snapshot.index
  BY <1>3, RespTypes
<1>8. i <= j \/ i <= s
  BY <1>5, <1>6, <1>7 DEF Responds, Response
<1>9. Covered(r) = MaxOf(j, s)
  BY <1>5, <1>6 DEF Covered
<1>10. Covered(r2) = MaxOf(j, s)
  <2>1. r2.applied = MaxOf(j, i)
    BY <1>1, <1>5, <1>7 DEF Acked
  <2>2. CASE r.snapshot # NoSnap /\ s = i
    <3>1. r2.snapshot = NoSnap
      BY <1>1, <1>6, <1>7, <2>2 DEF Acked
    <3>2. r2.snapshot.index = 0
      BY <3>1 DEF NoSnap
    <3>3. Covered(r2) = MaxOf(MaxOf(j, i), 0)
      BY <2>1, <3>2 DEF Covered
    <3>4. MaxOf(MaxOf(j, i), 0) = MaxOf(j, s)
      BY <2>2 DEF MaxOf
    <3> QED BY <3>3, <3>4
  <2>3. CASE ~(r.snapshot # NoSnap /\ s = i)
    <3>1. r2.snapshot = r.snapshot
      BY <1>1, <1>6, <1>7, <2>3 DEF Acked
    <3>2. Covered(r2) = MaxOf(MaxOf(j, i), s)
      BY <2>1, <3>1, <1>6 DEF Covered
    <3>3. MaxOf(MaxOf(j, i), s) = MaxOf(j, s)
      BY <1>8 DEF MaxOf
    <3> QED BY <3>2, <3>3
  <2> QED BY <2>2, <2>3
<1>11. Settled(r, r2)
  <2>1. r2.applyingEntsSize = r.applyingEntsSize
    BY <1>1 DEF Acked
  <2>2. PICK c \in Nat : c = MaxOf(j, s)
    BY DEF MaxOf
  <2>3. PICK p \in Nat : p = r.applying
    BY <1>3, NodeTypes
  <2>4. r2.applying = MaxOf(p, i)
    BY <1>1, <1>7, <2>3 DEF Acked
  <2>5. MaxOf(p, i) <= MaxOf(p, c)
    BY <1>8, <2>2 DEF MaxOf
  <2>6. Covered(r) <= Covered(r2)
    BY <1>9, <1>10, <2>2
  <2> QED BY <1>10, <2>1, <2>2, <2>3, <2>4, <2>5, <2>6 DEF Settled
<1>12. r2.state = r.state
  BY <1>1 DEF Acked
<1>13. r2.uncommittedSize <= PayloadAfter(G, Covered(r2))
  BY <1>4, <1>9, <1>10 DEF Ledger
<1>14. r2.state # "StateLeader" => r2.uncommittedSize = 0
  BY <1>4, <1>12 DEF Ledger
<1>15. Ledger(r2, u, G)
  BY <1>2, <1>11, <1>13, <1>14, LedgerKept
<1> QED BY <1>1, <1>15

\* What a step that is no append, new term or snapshot leaves alone.
Untouched(r, x) ==
    /\ x.applied = r.applied /\ x.applying = r.applying /\ x.applyingEntsSize = r.applyingEntsSize
    /\ x.stepsOnAdvance = r.stepsOnAdvance /\ x.snapshot = r.snapshot
    /\ x.state = r.state /\ x.uncommittedSize = r.uncommittedSize

\* truncateAndAppend moves none of the accounted fields.
LEMMA TruncateUntouched ==
    ASSUME NEW r \in Nodes, NEW from, NEW ents, NEW x, x = truncateAndAppend(r, from, ents)
    PROVE  Untouched(r, x)
<1>1. x.applied = r.applied /\ x.applying = r.applying /\ x.applyingEntsSize = r.applyingEntsSize
  BY DEF truncateAndAppend, Nodes
<1>2. x.stepsOnAdvance = r.stepsOnAdvance /\ x.snapshot = r.snapshot
  BY DEF truncateAndAppend, Nodes
<1>3. x.state = r.state /\ x.uncommittedSize = r.uncommittedSize
  BY DEF truncateAndAppend, Nodes
<1> QED BY <1>1, <1>2, <1>3 DEF Untouched

\* Nor does commitTo.
LEMMA CommitUntouched ==
    ASSUME NEW x, NEW c, NEW y, y = commitTo(x, c)
    PROVE  Untouched(x, y)
BY DEF commitTo, Untouched

\* The accounts when nothing that is accounted changes, but for a new log whose
\* payload is not counted.
LEMMA UntouchedLedger ==
    ASSUME NEW w, NEW r, NEW m, NEW q, NEW a, NEW G, NEW D, NEW H, Core(w, r, m, q, a, G, D, H),
           NEW w2, NEW r2, NEW m2, NEW q2, NEW a2, NEW G2, NEW D2, NEW H2, Core(w2, r2, m2, q2, a2, G2, D2, H2),
           NEW u, Ledger(r, u, G), Untouched(r, r2), G2 = G \/ r.state # "StateLeader"
    PROVE  Ledger(r2, u, G2)
<1>1. Covered(r2) = Covered(r)
  BY DEF Covered, Untouched
<1>2. r \in Nodes
  BY DEF Core
<1>3. Settled(r, r2)
  <2>1. PICK c \in Nat : c = Covered(r)
    BY CoveredIs
  <2>2. PICK p \in Nat : p = r.applying
    BY <1>2, NodeTypes
  <2>3. c <= c /\ p <= MaxOf(p, c)
    BY DEF MaxOf
  <2> QED BY <1>1, <2>1, <2>2, <2>3 DEF Settled, Untouched
<1>4. r2.state # "StateLeader" => r2.uncommittedSize = 0
  BY DEF Untouched, Ledger
<1>5. r2.uncommittedSize = 0 \/ r2.uncommittedSize <= PayloadAfter(G2, Covered(r2))
  BY <1>1 DEF Untouched, Ledger
<1> QED BY <1>3, <1>4, <1>5, LedgerKept

\* The accounts in a state.
Accounted(G, D, H) == StateInv(G, D, H) /\ Ledger(rn, Unacknowledged, G)

\* The same steps and queues have the same batches unacknowledged.
LEMMA SameUnacknowledged ==
    ASSUME Quiet, rn'.stepsOnAdvance = rn.stepsOnAdvance
    PROVE  Unacknowledged' = Unacknowledged
BY DEF Quiet, Unacknowledged

\* The leader counts the entry it appends.
LEMMA AppendLedger ==
    ASSUME NEW G, NEW D, NEW H, Accounted(G, D, H), NEW r1 \in Nodes, NEW e, Quiet,
           r1 = [rn EXCEPT !.state = "StateLeader"],
           rn' = appendEntry(r1, ms, e), StateInv(Append(G, e), D, H)'
    PROVE  Accounted(Append(G, e), D, H)'
<1>0. Core(world, rn, ms, appendQ, sm, G, D, H) /\ rn \in Nodes /\ G \in Seq(Entry)
  BY StateFacts DEF Accounted
<1>1. Core(world', rn', ms', appendQ', sm', Append(G, e), D, H)
  BY DEF StateInv, Whole
<1>2. Append(G, e) \in Seq(Entry)
  BY <1>1 DEF Core, Memory
<1>3. e \in Entry
  <2>1. PICK n \in Nat : n = Len(G)
    BY <1>0
  <2>2. Append(G, e)[n + 1] = e /\ Len(Append(G, e)) = n + 1
    BY <1>0, <2>1
  <2>3. n + 1 \in 1..(n + 1)
    OBVIOUS
  <2> QED BY <1>2, <2>2, <2>3
<1>4. PICK z \in Nat : z = e.size
  BY <1>3 DEF Entry
<1>5. PICK r2 : r2 = increaseUncommittedSize(r1, z)
  OBVIOUS
<1>6. r2 \in Nodes /\ r2.uncommittedSize = rn.uncommittedSize + z /\ r2.state = "StateLeader"
      /\ r2.applied = rn.applied /\ r2.applying = rn.applying /\ r2.applyingEntsSize = rn.applyingEntsSize
      /\ r2.stepsOnAdvance = rn.stepsOnAdvance /\ r2.snapshot = rn.snapshot
  <2>1. /\ r1.uncommittedSize = rn.uncommittedSize /\ r1.state = "StateLeader" /\ r1.applied = rn.applied
        /\ r1.applying = rn.applying /\ r1.applyingEntsSize = rn.applyingEntsSize
        /\ r1.stepsOnAdvance = rn.stepsOnAdvance /\ r1.snapshot = rn.snapshot
    BY <1>0 DEF Nodes
  <2>2. /\ r2.uncommittedSize = r1.uncommittedSize + z /\ r2.state = r1.state /\ r2.applied = r1.applied
        /\ r2.applying = r1.applying /\ r2.applyingEntsSize = r1.applyingEntsSize
        /\ r2.stepsOnAdvance = r1.stepsOnAdvance /\ r2.snapshot = r1.snapshot
    BY <1>5 DEF increaseUncommittedSize, Nodes
  <2>3. r2 \in Nodes
    <3>1. PICK y \in Nat : y = r1.uncommittedSize
      BY NodeTypes
    <3>2. r2 = [r1 EXCEPT !.uncommittedSize = y + z] /\ y + z \in Nat
      BY <3>1, <1>5 DEF increaseUncommittedSize
    <3> QED BY <3>2 DEF Nodes
  <2> QED BY <2>1, <2>2, <2>3
<1>7. rn' = truncateAndAppend(r2, lastIndex(r1, ms) + 1, <<e>>)
  BY <1>4, <1>5 DEF appendEntry
<1>8. Untouched(r2, rn')
  BY <1>6, <1>7, TruncateUntouched
<1>9. /\ rn'.applied = rn.applied /\ rn'.applying = rn.applying /\ rn'.applyingEntsSize = rn.applyingEntsSize
      /\ rn'.stepsOnAdvance = rn.stepsOnAdvance /\ rn'.snapshot = rn.snapshot
      /\ rn'.state = "StateLeader" /\ rn'.uncommittedSize = rn.uncommittedSize + z
  BY <1>6, <1>8 DEF Untouched
<1>10. PICK c \in Nat : c = Covered(rn) /\ c <= Len(G)
  BY <1>0, CoveredIs
<1>11. Covered(rn') = c
  BY <1>9, <1>10 DEF Covered
<1>12. Settled(rn, rn')
  <2>1. PICK p \in Nat : p = rn.applying
    BY <1>0, NodeTypes
  <2>2. c <= c /\ p <= MaxOf(p, c)
    BY DEF MaxOf
  <2> QED BY <1>9, <1>10, <1>11, <2>1, <2>2 DEF Settled
<1>13. rn'.uncommittedSize <= PayloadAfter(Append(G, e), Covered(rn'))
  <2>1. PICK U \in Nat : U = rn.uncommittedSize
    BY <1>0, NodeTypes
  <2>2. PayloadAfter(Append(G, e), c) = PayloadAfter(G, c) + e.size /\ PayloadAfter(G, c) \in Nat
    BY <1>0, <1>3, <1>10, PayloadGrow
  <2>3. PICK P \in Nat : P = PayloadAfter(G, c)
    BY <2>2
  <2>4. U <= P
    BY <1>10, <2>1, <2>3 DEF Accounted, Ledger
  <2>5. U + z <= P + z
    BY <2>4
  <2> QED BY <1>4, <1>9, <1>11, <2>1, <2>2, <2>3, <2>5
<1>14. Unacknowledged' = Unacknowledged
  BY <1>9, SameUnacknowledged
<1>15. Ledger(rn', Unacknowledged, Append(G, e))
  <2>1. Ledger(rn, Unacknowledged, G)
    BY DEF Accounted
  <2>2. rn'.state # "StateLeader" => rn'.uncommittedSize = 0
    BY <1>9
  <2> QED BY <1>0, <1>1, <1>12, <1>13, <2>1, <2>2, LedgerKept
<1> QED BY <1>14, <1>15 DEF Accounted

\* Steps of raft keep the accounts.
LEMMA RaftLedger ==
    ASSUME NEW G, NEW D, NEW H, Accounted(G, D, H), RaftStep
    PROVE  \E G2 : Accounted(G2, D, H)'
<1>0. /\ Core(world, rn, ms, appendQ, sm, G, D, H) /\ rn \in Nodes /\ G \in Seq(Entry)
      /\ StateInv(G, D, H) /\ Ledger(rn, Unacknowledged, G)
  BY StateFacts DEF Accounted
<1>1. CASE \E t \in DOMAIN world.log : BecomeTerm(t)
  <2>1. PICK t \in DOMAIN world.log : BecomeTerm(t)
    BY <1>1
  <2>2. StateInv(G, D, H)'
    BY <1>0, <2>1, BecomeTermInv
  <2>3. Core(world', rn', ms', appendQ', sm', G, D, H)
    BY <2>2 DEF StateInv, Whole
  <2>4. /\ rn'.applied = rn.applied /\ rn'.applying = rn.applying /\ rn'.applyingEntsSize = rn.applyingEntsSize
        /\ rn'.stepsOnAdvance = rn.stepsOnAdvance /\ rn'.snapshot = rn.snapshot /\ rn'.uncommittedSize = 0
    BY <1>0, <2>1 DEF BecomeTerm, Nodes
  <2>5. Quiet
    BY <2>1 DEF BecomeTerm
  <2>6. Settled(rn, rn')
    <3>1. PICK p \in Nat : p = rn.applying
      BY <1>0, NodeTypes
    <3>2. PICK c \in Nat : c = Covered(rn)
      BY <1>0, CoveredIs
    <3>3. Covered(rn') = c
      BY <2>4, <3>2 DEF Covered
    <3>4. c <= c /\ p <= MaxOf(p, c)
      BY DEF MaxOf
    <3> QED BY <2>4, <3>1, <3>2, <3>3, <3>4 DEF Settled
  <2>7. Ledger(rn', Unacknowledged, G)
    BY <1>0, <2>3, <2>4, <2>6, LedgerKept
  <2>8. Unacknowledged' = Unacknowledged
    BY <2>4, <2>5, SameUnacknowledged
  <2> QED BY <2>2, <2>7, <2>8 DEF Accounted
<1>2. CASE BecomeLeader
  <2>1. PICK e : e = Leader[Len(G) + 1]
    OBVIOUS
  <2>2. StateInv(Append(G, e), D, H)'
    BY <1>0, <1>2, <2>1, BecomeLeaderInv
  <2>3. PICK r1 : r1 = [rn EXCEPT !.state = "StateLeader"]
    OBVIOUS
  <2>4. r1 \in Nodes
    BY <1>0, <2>3 DEF Nodes
  <2>5. lastIndex(rn, ms) = Len(G)
    BY <1>0, LastIs
  <2>6. rn' = appendEntry(r1, ms, e) /\ Quiet
    BY <1>2, <2>1, <2>3, <2>5 DEF BecomeLeader
  <2>7. Accounted(Append(G, e), D, H)'
    BY <2>2, <2>3, <2>4, <2>6, AppendLedger
  <2> QED BY <2>7
<1>3. CASE Propose
  <2>1. PICK e : e = Leader[Len(G) + 1]
    OBVIOUS
  <2>2. StateInv(Append(G, e), D, H)'
    BY <1>0, <1>3, <2>1, ProposeInv
  <2>3. rn = [rn EXCEPT !.state = "StateLeader"]
    <3>1. rn.state = "StateLeader"
      BY <1>3 DEF Propose
    <3>2. rn = [rn EXCEPT !.state = rn.state]
      BY <1>0 DEF Nodes
    <3> QED BY <3>1, <3>2
  <2>5. lastIndex(rn, ms) = Len(G)
    BY <1>0, LastIs
  <2>6. rn' = appendEntry(rn, ms, e) /\ Quiet
    BY <1>3, <2>1, <2>5 DEF Propose
  <2>7. Accounted(Append(G, e), D, H)'
    BY <1>0, <2>2, <2>3, <2>6, AppendLedger
  <2> QED BY <2>7
<1>4. ASSUME NEW P, StateInv(P, D, H)', Untouched(rn, rn'), P = G \/ rn.state # "StateLeader", Quiet
      PROVE  Accounted(P, D, H)'
  <2>1. Core(world', rn', ms', appendQ', sm', P, D, H)
    BY <1>4 DEF StateInv, Whole
  <2>2. Ledger(rn', Unacknowledged, P)
    BY <1>0, <1>4, <2>1, UntouchedLedger
  <2>3. Unacknowledged' = Unacknowledged
    BY <1>4, SameUnacknowledged DEF Untouched
  <2> QED BY <1>4, <2>2, <2>3 DEF Accounted
<1>5. ASSUME rn.Term \notin world.mine PROVE rn.state # "StateLeader"
  <2>1. rn.state # "StateFollower" => rn.Term \in world.mine
    BY <1>0 DEF Core, Memory
  <2> QED BY <1>5, <2>1
<1>6. CASE rn.Term > 0 /\ \E i \in 1..Len(Leader) : LeaderCommit(i) \/ HandleSnapshot(i)
  <2>1. PICK i \in 1..Len(Leader) : LeaderCommit(i) \/ HandleSnapshot(i)
    BY <1>6
  <2>2. CASE LeaderCommit(i)
    <3>1. StateInv(G, D, H)'
      BY <1>0, <1>6, <2>2, LeaderCommitInv
    <3>2. Untouched(rn, rn') /\ Quiet
      BY <2>2, CommitUntouched DEF LeaderCommit
    <3>3. Accounted(G, D, H)'
      BY <1>4, <3>1, <3>2
    <3> QED BY <3>3
  <2>3. CASE HandleSnapshot(i)
    <3>1. PICK P : P = SubSeq(Leader, 1, i)
      OBVIOUS
    <3>2. StateInv(G, D, H)' \/ StateInv(P, D, H)'
      BY <1>0, <1>6, <2>3, <3>1, HandleSnapshotInv
    <3>3. Quiet /\ rn.state # "StateLeader"
      BY <2>3, <1>5 DEF HandleSnapshot
    <3>4. PICK G2 : StateInv(G2, D, H)'
      BY <3>2
    <3>5. CASE rn' = commitTo(rn, i)
      <4>1. Untouched(rn, rn')
        BY <3>5, CommitUntouched
      <4>2. Accounted(G2, D, H)'
        BY <1>4, <3>3, <3>4, <4>1
      <4> QED BY <4>2
    <3>6. ASSUME NEW s, s = [index |-> i, term |-> Leader[i].term],
                 rn' = unstableRestore([rn EXCEPT !.committed = i], s)
          PROVE  Accounted(G2, D, H)'
      <4>1. /\ rn'.applied = rn.applied /\ rn'.applying = rn.applying /\ rn'.applyingEntsSize = rn.applyingEntsSize
            /\ rn'.stepsOnAdvance = rn.stepsOnAdvance /\ rn'.snapshot = s /\ rn'.uncommittedSize = rn.uncommittedSize
        BY <1>0, <3>6 DEF unstableRestore, Nodes
      <4>2. rn'.uncommittedSize = 0
        BY <1>0, <3>3, <4>1 DEF Ledger
      <4>3. Core(world', rn', ms', appendQ', sm', G2, D, H)
        BY <3>4 DEF StateInv, Whole
      <4>4. Moves(rn, rn')
        BY <1>0, RaftStepMoves
      <4>5. Settled(rn, rn')
        <5>1. PICK p \in Nat : p = rn.applying
          BY <1>0, NodeTypes
        <5>2. PICK c \in Nat : c = Covered(rn) /\ c <= rn.committed
          BY <1>0, CoveredIs
        <5>3. PICK c2 \in Nat : c2 = Covered(rn')
          BY <4>3, CoveredIs
        <5>4. PICK j \in Nat : j = rn.applied
          BY <1>0, NodeTypes
        <5>5. PICK k \in Nat : k = rn'.snapshot.index
          BY <4>3, NodeTypes DEF Core
        <5>6. c2 = MaxOf(j, k)
          BY <4>1, <5>3, <5>4, <5>5 DEF Covered
        <5>7. c <= c2
          <6>1. CASE rn'.snapshot = rn.snapshot
            <7>1. Covered(rn') = Covered(rn)
              BY <4>1, <6>1 DEF Covered
            <7> QED BY <7>1, <5>2, <5>3
          <6>2. CASE rn'.snapshot # rn.snapshot
            <7>1. PICK n \in Nat : n = rn.committed
              BY <1>0, NodeTypes
            <7>2. k > n
              BY <4>4, <6>2, <5>5, <7>1 DEF Moves
            <7>3. c <= n
              BY <5>2, <7>1
            <7> QED BY <5>6, <7>2, <7>3 DEF MaxOf
          <6> QED BY <6>1, <6>2
        <5>8. p <= MaxOf(p, c2)
          BY DEF MaxOf
        <5> QED BY <4>1, <5>1, <5>2, <5>3, <5>7, <5>8 DEF Settled
      <4>6. Ledger(rn', Unacknowledged, G2)
        BY <1>0, <4>2, <4>3, <4>5, LedgerKept
      <4>7. Unacknowledged' = Unacknowledged
        BY <3>3, <4>1, SameUnacknowledged
      <4> QED BY <3>4, <4>6, <4>7 DEF Accounted
    <3> QED BY <2>3, <3>5, <3>6 DEF HandleSnapshot
  <2> QED BY <2>1, <2>2, <2>3
<1>7. CASE rn.Term > 0 /\ \E p, q, c \in 0..Len(Leader) : HandleAppendEntries(p, q, c)
  <2>1. PICK p, q, c \in 0..Len(Leader) : HandleAppendEntries(p, q, c)
    BY <1>7
  <2>2. PICK P : P = SubSeq(Leader, 1, q)
    OBVIOUS
  <2>3. StateInv(G, D, H)' \/ StateInv(P, D, H)'
    BY <1>0, <1>7, <2>1, <2>2, HandleAppendEntriesInv
  <2>4. Quiet /\ rn.state # "StateLeader"
    BY <2>1, <1>5 DEF HandleAppendEntries
  <2>5. PICK x : /\ rn' = commitTo(x, c)
                 /\ x = IF conflict(p, q) = 0 THEN rn
                        ELSE truncateAndAppend(rn, conflict(p, q), SubSeq(Leader, conflict(p, q), q))
    BY <2>1 DEF HandleAppendEntries
  <2>6. Untouched(rn, x)
    <3>1. Untouched(rn, rn)
      BY DEF Untouched
    <3> QED BY <1>0, <2>5, <3>1, TruncateUntouched
  <2>7. Untouched(x, rn')
    BY <2>5, CommitUntouched
  <2>8. Untouched(rn, rn')
    BY <2>6, <2>7 DEF Untouched
  <2>9. PICK G2 : StateInv(G2, D, H)'
    BY <2>3
  <2>10. Accounted(G2, D, H)'
    BY <1>4, <2>4, <2>8, <2>9
  <2> QED BY <2>10
<1> QED BY <1>1, <1>2, <1>3, <1>6, <1>7 DEF RaftStep

\* A Ready hands out one batch more, or none.
LEMMA ReadyLedger ==
    ASSUME NEW G, NEW D, NEW H, Accounted(G, D, H), Ready
    PROVE  \E D2, H2 : Accounted(G, D2, H2)'
<1>0. /\ Core(world, rn, ms, appendQ, sm, G, D, H) /\ rn \in Nodes /\ G \in Seq(Entry)
      /\ StateInv(G, D, H) /\ Ledger(rn, Unacknowledged, G)
      /\ Whole(world, rn, ms, appendQ, applyQ, appendResps, applyResps, sm, G, D, H)
  BY StateFacts DEF Accounted
<1>1. PICK D2, H2 : StateInv(G, D2, H2)'
  BY <1>0, ReadyInv
<1>2. Core(world', rn', ms', appendQ', sm', G, D2, H2)
  BY <1>1 DEF StateInv, Whole
<1>3. PICK e : e = nextCommittedEnts(rn, ms)
  OBVIOUS
<1>4. /\ ~rn.advancing /\ rn' = Accepted(rn, ms, e) /\ world' = world /\ applyResps' = applyResps
      /\ applyQ' = IF e = << >> THEN applyQ ELSE Append(applyQ, ApplyResp(e, rn.applying + 1))
  BY <1>3 DEF Ready
<1>5. HandsOut(world, rn, G, e)
  BY <1>0, <1>3, NextCommittedIs
<1>6. Accepts(world, rn, G, e, rn') /\ AcceptsSteps(world, rn, ms, e, rn') /\ AcceptsSizes(rn, e, rn')
  BY <1>0, <1>4, <1>5, AcceptedIs
<1>7. PICK u : u = Unacknowledged
  OBVIOUS
<1>8. u \in Seq(Batches) /\ Ledger(rn, u, G)
  BY <1>0, <1>7 DEF Ledger
<1>9. applyQ \in Seq(Batches) /\ applyResps \in Seq(Batches)
  BY <1>0 DEF Whole
<1>10. /\ rn'.applied = rn.applied /\ rn'.snapshot = rn.snapshot /\ rn'.state = rn.state
       /\ rn'.applying = rn.applying + Len(e) /\ rn'.uncommittedSize = rn.uncommittedSize
       /\ rn'.applyingEntsSize = rn.applyingEntsSize + (IF e = << >> THEN 0 ELSE entsSize(e))
       /\ Len(e) \in Nat
  BY <1>5, <1>6 DEF Accepts, AcceptsSizes, HandsOut
<1>11. Covered(rn') = Covered(rn)
  BY <1>10 DEF Covered
<1>12. PICK b : b = ApplyResp(e, rn.applying + 1)
  OBVIOUS
<1>13. b \in Batches /\ ~IsAppendResp(b) /\ BatchEnd(b) = rn'.applying /\ b.from = rn.applying + 1 /\ b.ents = e
  BY <1>0, <1>5, <1>6, <1>12, NewBatch
<1>14. Unacknowledged' = IF e = << >> THEN u ELSE Append(u, b)
  <2>1. CASE world.async
    <3>1. u = applyResps \o applyQ /\ Unacknowledged' = applyResps \o applyQ'
      BY <2>1, <1>4, <1>7 DEF Unacknowledged
    <3>2. CASE e = << >>
      BY <3>1, <3>2, <1>4
    <3>3. CASE e # << >>
      <4>1. applyQ' = Append(applyQ, b)
        BY <3>3, <1>4, <1>12
      <4>2. applyResps \o Append(applyQ, b) = Append(applyResps \o applyQ, b)
        BY <1>9, <1>13, JoinAppend
      <4> QED BY <3>1, <3>3, <4>1, <4>2
    <3> QED BY <3>2, <3>3
  <2>2. CASE ~world.async
    <3>1. rn.stepsOnAdvance = << >>
      BY <2>2, <1>0, <1>4 DEF Whole, SyncMode
    <3>2. u = << >>
      BY <2>2, <3>1, <1>7 DEF Unacknowledged
    <3>3. PICK rs : rs = NewAppendMsg(rn, ms).resps
      OBVIOUS
    <3>4. rs \in Seq(AppendResps)
      <4>1. PICK x : x = NewAppendMsg(rn, ms)
        OBVIOUS
      <4>2. Sent(rn, G, x)
        BY <1>0, <4>1, SentIs
      <4> QED BY <3>3, <4>1, <4>2 DEF Sent, Writes
    <3>5. PICK s : s = rn'.stepsOnAdvance
      OBVIOUS
    <3>6. s = rs \o (IF e = << >> THEN << >> ELSE <<b>>)
      BY <2>2, <3>3, <3>5, <1>6, <1>12 DEF AcceptsSteps
    <3>7. Unacknowledged' = IF Len(s) > 0 /\ s[Len(s)].type = "MsgStorageApplyResp" THEN <<s[Len(s)]>> ELSE << >>
      BY <2>2, <3>5, <1>4 DEF Unacknowledged
    <3>8. PICK n \in Nat : n = Len(rs)
      BY <3>4
    <3>9. CASE e = << >>
      <4>1. s = rs
        <5>1. rs \o << >> = rs
          BY <3>4
        <5> QED BY <3>6, <3>9, <5>1
      <4>2. ~(Len(s) > 0 /\ s[Len(s)].type = "MsgStorageApplyResp")
        <5>1. SUFFICES ASSUME n > 0 PROVE rs[n].type # "MsgStorageApplyResp"
          BY <3>8, <4>1
        <5>2. n \in 1..n
          BY <5>1
        <5>3. rs[n] \in AppendResps
          BY <5>2, <3>4, <3>8
        <5> QED BY <5>3 DEF AppendResps
      <4> QED BY <3>2, <3>7, <3>9, <4>2
    <3>10. CASE e # << >>
      <4>1. s = rs \o <<b>>
        BY <3>6, <3>10
      <4>2. Len(s) = n + 1 /\ s[n + 1] = b
        BY <3>4, <3>8, <4>1
      <4>3. b.type = "MsgStorageApplyResp"
        BY <1>13 DEF Batches
      <4>4. Len(s) > 0 /\ s[Len(s)] = b
        BY <4>2
      <4>5. Unacknowledged' = <<b>>
        BY <3>7, <4>3, <4>4
      <4>6. Append(u, b) = <<b>>
        BY <3>2
      <4> QED BY <3>10, <4>5, <4>6
    <3> QED BY <3>9, <3>10
  <2> QED BY <2>1, <2>2
<1>15. Ledger(rn', Unacknowledged', G)
  <2>0. PICK c \in Nat : c = Covered(rn)
    BY <1>0, CoveredIs
  <2>1. PICK p \in Nat : p = rn.applying
    BY <1>0, NodeTypes
  <2>2. Follows(c, p, u)
    BY <1>8, <2>0, <2>1 DEF Ledger
  <2>3. /\ rn'.state # "StateLeader" => rn'.uncommittedSize = 0
        /\ rn'.uncommittedSize <= PayloadAfter(G, Covered(rn'))
    BY <1>8, <1>10, <1>11 DEF Ledger
  <2>4. CASE e = << >>
    <3>1. Len(e) = 0
      BY <2>4
    <3>2. rn'.applying = p
      BY <1>10, <2>1, <3>1
    <3>3. PICK z \in Nat : z = rn.applyingEntsSize
      BY <1>0, NodeTypes
    <3>4. rn'.applyingEntsSize = z
      BY <1>10, <2>4, <3>3
    <3>5. z = SizeOf(u)
      BY <1>8, <3>3 DEF Ledger
    <3> QED BY <1>8, <1>11, <1>14, <2>0, <2>2, <2>3, <2>4, <3>2, <3>4, <3>5 DEF Ledger
  <2>5. CASE e # << >>
    <3>1. PICK v : v = Append(u, b)
      OBVIOUS
    <3>2. PICK p2 \in Nat : p2 = rn'.applying
      BY <1>10, <2>1
    <3>3. Follows(c, p2, v) /\ v \in Seq(Batches)
      <4>1. b.from = p + 1 /\ BatchEnd(b) = p2
        BY <1>13, <2>1, <3>2
      <4> QED BY <4>1, <1>8, <1>13, <2>2, <3>1, FollowsGrow
    <3>4. SizeOf(v) = SizeOf(u) + entsSize(b.ents)
      BY <1>8, <1>13, <3>1, SizeOfGrow
    <3>5. rn'.applyingEntsSize = SizeOf(v)
      BY <1>8, <1>10, <1>13, <2>5, <3>4 DEF Ledger
    <3> QED BY <1>11, <1>14, <2>0, <2>3, <2>5, <3>1, <3>2, <3>3, <3>5 DEF Ledger
  <2> QED BY <2>4, <2>5
<1>16. Accounted(G, D2, H2)'
  BY <1>1, <1>15 DEF Accounted
<1> QED BY <1>16

\* Steps that leave the node alone.
LEMMA OutsideLedger ==
    ASSUME NEW G, NEW D, NEW H, Accounted(G, D, H), NEW D2, NEW H2, StateInv(G, D2, H2)', rn' = rn,
           Unacknowledged' = Unacknowledged
    PROVE  Accounted(G, D2, H2)'
BY DEF Accounted

\* The apply thread moves a batch from one queue to the other.
LEMMA ProcessApplyLedger ==
    ASSUME NEW G, NEW D, NEW H, Accounted(G, D, H), ProcessApply
    PROVE  Accounted(G, D, H)'
<1>0. /\ StateInv(G, D, H)
      /\ Whole(world, rn, ms, appendQ, applyQ, appendResps, applyResps, sm, G, D, H)
  BY StateFacts DEF Accounted
<1>1. StateInv(G, D, H)'
  BY <1>0, ProcessApplyInv
<1>2. applyQ \in Seq(Batches) /\ applyResps \in Seq(Batches)
  BY <1>0 DEF Whole
<1>3. /\ applyQ # << >> /\ applyQ' = Tail(applyQ) /\ rn' = rn /\ world' = world
      /\ applyResps' = IF world.async THEN Append(applyResps, Head(applyQ)) ELSE applyResps
  BY DEF ProcessApply
<1>4. Unacknowledged' = Unacknowledged
  <2>1. CASE world.async
    <3>1. Unacknowledged = applyResps \o applyQ /\ Unacknowledged' = applyResps' \o applyQ'
      BY <2>1, <1>3 DEF Unacknowledged
    <3>2. Append(applyResps, Head(applyQ)) \o Tail(applyQ) = applyResps \o applyQ
      BY <1>2, <1>3, JoinMove
    <3> QED BY <2>1, <1>3, <3>1, <3>2
  <2>2. CASE ~world.async
    BY <2>2, <1>3 DEF Unacknowledged
  <2> QED BY <2>1, <2>2
<1> QED BY <1>1, <1>3, <1>4, OutsideLedger

\* The answers of the two threads.
LEMMA StepAppendRespLedger ==
    ASSUME NEW G, NEW D, NEW H, Accounted(G, D, H), StepAppendResp
    PROVE  Accounted(G, D, H)'
<1>0. /\ Core(world, rn, ms, appendQ, sm, G, D, H) /\ rn \in Nodes
      /\ StateInv(G, D, H) /\ Ledger(rn, Unacknowledged, G)
      /\ Whole(world, rn, ms, appendQ, applyQ, appendResps, applyResps, sm, G, D, H)
  BY StateFacts DEF Accounted
<1>1. StateInv(G, D, H)'
  BY <1>0, StepAppendRespInv
<1>2. appendResps \in Seq(AppendResps) /\ appendResps # << >>
  BY <1>0 DEF Whole, StepAppendResp
<1>3. PICK x : x = appendResps[1]
  OBVIOUS
<1>4. x \in AppendResps /\ Head(appendResps) = x /\ 1 \in 1..Len(appendResps) /\ 1..1 = {1}
  BY <1>2, <1>3
<1>5. world.async
  BY <1>0, <1>2 DEF Whole, SyncMode
<1>6. AsyncResponses(world, rn, appendQ, appendResps, sm, G, D)
  BY <1>0, <1>5 DEF Whole
<1>7. Responds(world, rn, appendQ, sm, G, D, x)
  <2>1. x.snapshot.index <= sm /\ Response(world, rn, appendQ, G, D, x, 0, CarriedBy(rn, appendResps, 1))
    BY <1>3, <1>4, <1>6 DEF AsyncResponses
  <2>2. CarriedBy(rn, appendResps, 1) <=> x.snapshot = rn.snapshot
    BY <1>3, <1>4 DEF CarriedBy
  <2>3. Response(world, rn, appendQ, G, D, x, 0, x.snapshot = rn.snapshot)
    BY <2>1, <2>2 DEF Response
  <2> QED BY <2>1, <2>3, <1>4 DEF Responds
<1>8. rn' = AppendResponded(rn, x)
  BY <1>4 DEF StepAppendResp, Stepped, AppendResps
<1>9. Ledger(rn', Unacknowledged, G) /\ Acked(rn, rn', appendQ, G, D, x)
  BY <1>0, <1>7, <1>8, AckedLedger
<1>10. Unacknowledged' = Unacknowledged
  <2>1. world' = world /\ applyQ' = applyQ /\ applyResps' = applyResps
    BY DEF StepAppendResp
  <2> QED BY <1>5, <2>1 DEF Unacknowledged
<1> QED BY <1>1, <1>9, <1>10 DEF Accounted

\* That of the apply thread pays for its batch.
LEMMA StepApplyRespLedger ==
    ASSUME NEW G, NEW D, NEW H, Accounted(G, D, H), StepApplyResp
    PROVE  Accounted(G, D, H)'
<1>0. /\ Core(world, rn, ms, appendQ, sm, G, D, H) /\ rn \in Nodes
      /\ StateInv(G, D, H) /\ Ledger(rn, Unacknowledged, G)
      /\ Whole(world, rn, ms, appendQ, applyQ, appendResps, applyResps, sm, G, D, H)
  BY StateFacts DEF Accounted
<1>1. StateInv(G, D, H)'
  BY <1>0, StepApplyRespInv
<1>2. applyQ \in Seq(Batches) /\ applyResps \in Seq(Batches) /\ applyResps # << >>
  BY <1>0 DEF Whole, StepApplyResp
<1>3. world.async
  BY <1>0, <1>2 DEF Whole, SyncMode
<1>4. PICK u : u = Unacknowledged
  OBVIOUS
<1>5. u = applyResps \o applyQ
  BY <1>3, <1>4 DEF Unacknowledged
<1>6. Tail(applyResps) \o applyQ = Tail(u) /\ u # << >> /\ Head(u) = Head(applyResps)
  BY <1>2, <1>5, JoinTail
<1>7. PICK x : x = Head(u)
  OBVIOUS
<1>8. x = applyResps[1] /\ 1 \in 1..Len(applyResps)
  BY <1>2, <1>6, <1>7
<1>9. BatchOK(world, rn, x)
  BY <1>0, <1>8 DEF Whole, BatchInv
<1>10. x \in Batches
  BY <1>2, <1>8
<1>11. rn' = ApplyResponded(rn, x)
  BY <1>6, <1>7, <1>10 DEF StepApplyResp, Stepped, Batches
<1>12. Ledger(rn', Tail(u), G)
  BY <1>0, <1>4, <1>6, <1>7, <1>9, <1>11, GivenLedger
<1>13. Unacknowledged' = Tail(u)
  <2>1. world' = world /\ applyQ' = applyQ /\ applyResps' = Tail(applyResps)
    BY DEF StepApplyResp
  <2>2. Unacknowledged' = applyResps' \o applyQ'
    BY <1>3, <2>1 DEF Unacknowledged
  <2> QED BY <1>6, <2>1, <2>2
<1> QED BY <1>1, <1>12, <1>13 DEF Accounted

\* The first step of Advance, when it is the answer of the append thread.
LEMMA AppendStepLedger ==
    ASSUME NEW G, NEW D, NEW H, StateInv(G, D, H), ~world.async, appendQ = << >>,
           NEW x \in AppendResps, SyncResponse(world, rn, appendQ, sm, G, D, x), NEW r2, r2 = Stepped(rn, x),
           NEW u, Ledger(rn, u, G)
    PROVE  Ledger(r2, u, G) /\ Core(world, r2, ms, << >>, sm, G, D, H) /\ rn.applying <= r2.applying
<1>0. Core(world, rn, ms, appendQ, sm, G, D, H)
  BY StateFacts
<1>1. Responds(world, rn, appendQ, sm, G, D, x)
  <2>1. Len(appendQ) = 0
    OBVIOUS
  <2> QED BY <2>1 DEF SyncResponse, Responds
<1>2. r2 = AppendResponded(rn, x)
  BY DEF Stepped, AppendResps
<1>3. Ledger(r2, u, G)
  BY <1>0, <1>1, <1>2, AckedLedger
<1>4. Between(world, rn, r2, ms, sm, G, D, H)
  BY AppendStep
<1> QED BY <1>3, <1>4 DEF Between

\* The other one: the batch of the Ready is acknowledged.
LEMMA ApplyStepLedger ==
    ASSUME NEW w, NEW r, NEW m, NEW q, NEW a, NEW G, NEW D, NEW H, Core(w, r, m, q, a, G, D, H),
           NEW b \in Batches, NEW u, u = <<b>>, Ledger(r, u, G), BatchOK(w, r, b), NEW r2, r2 = Stepped(r, b)
    PROVE  Ledger(r2, << >>, G)
<1>1. u # << >> /\ Head(u) = b /\ Tail(u) = << >>
  OBVIOUS
<1>2. r2 = ApplyResponded(r, b)
  BY DEF Stepped, Batches
<1>3. Ledger(r2, Tail(u), G)
  BY <1>1, <1>2, GivenLedger
<1> QED BY <1>1, <1>3

\* Advance takes the answers of its Ready.
LEMMA AdvanceLedger ==
    ASSUME NEW G, NEW D, NEW H, Accounted(G, D, H), Advance
    PROVE  Accounted(G, D, H)'
<1> DEFINE steps == rn.stepsOnAdvance
           n == Len(steps)
<1>0. /\ Core(world, rn, ms, appendQ, sm, G, D, H) /\ rn \in Nodes
      /\ StateInv(G, D, H) /\ Ledger(rn, Unacknowledged, G)
      /\ Whole(world, rn, ms, appendQ, applyQ, appendResps, applyResps, sm, G, D, H)
  BY StateFacts DEF Accounted
<1>1. StateInv(G, D, H)'
  BY <1>0, AdvanceInv
<1>2. ~world.async /\ n \in {0, 1, 2} /\ appendQ = << >> /\ Quiet
  BY <1>0, AfterIs DEF Advance
<1>3. SyncMode(rn, appendQ, appendResps, applyResps) /\ SyncResponses(world, rn, appendQ, sm, G, D)
      /\ BatchInv(world, rn, ms, applyQ, applyResps, sm, D[0])
  BY <1>0, <1>2 DEF Whole
<1>4. PICK x : /\ rn' = [x EXCEPT !.advancing = FALSE, !.stepsOnAdvance = << >>]
               /\ n = 0 => x = rn
               /\ n = 1 => x = Stepped(rn, steps[1])
               /\ n = 2 => x = Stepped(Stepped(rn, steps[1]), steps[2])
  BY <1>0, AfterIs
<1>5. /\ \A i \in 1..n : IsAppendResp(steps[i]) => SyncResponse(world, rn, appendQ, sm, G, D, steps[i])
      /\ n = 2 => IsAppendResp(steps[1]) /\ ~IsAppendResp(steps[2])
  BY <1>3 DEF SyncResponses, SyncMode
<1>6. \A i \in 1..n : /\ IsAppendResp(steps[i]) => steps[i] \in AppendResps
                      /\ ~IsAppendResp(steps[i]) => steps[i] \in Batches /\ BatchOK(world, rn, steps[i])
  <2>1. SUFFICES ASSUME NEW i \in 1..n
                 PROVE  /\ IsAppendResp(steps[i]) => steps[i] \in AppendResps
                        /\ ~IsAppendResp(steps[i]) => steps[i] \in Batches /\ BatchOK(world, rn, steps[i])
    OBVIOUS
  <2>2. IsAppendResp(steps[i]) => steps[i] \in AppendResps
    BY <1>0, StepTypes
  <2>3. steps[i] \in AppendResps \cup Batches
    BY <1>0 DEF Nodes
  <2>4. ~IsAppendResp(steps[i]) => steps[i] \in Batches
    BY <2>3 DEF IsAppendResp, AppendResps
  <2>5. ~IsAppendResp(steps[i]) => BatchOK(world, rn, steps[i])
    BY <1>3 DEF BatchInv
  <2> QED BY <2>2, <2>4, <2>5
<1>7. Unacknowledged = IF n > 0 /\ ~IsAppendResp(steps[n]) THEN <<steps[n]>> ELSE << >>
  <2>1. Unacknowledged = IF n > 0 /\ steps[n].type = "MsgStorageApplyResp" THEN <<steps[n]>> ELSE << >>
    BY <1>2 DEF Unacknowledged
  <2>2. n > 0 => (steps[n].type = "MsgStorageApplyResp" <=> ~IsAppendResp(steps[n]))
    <3>1. SUFFICES ASSUME n > 0 PROVE steps[n].type = "MsgStorageApplyResp" <=> ~IsAppendResp(steps[n])
      OBVIOUS
    <3>2. n \in 1..n
      BY <3>1, <1>2
    <3>3. steps[n] \in AppendResps \/ steps[n] \in Batches
      BY <3>2, <1>6
    <3> QED BY <3>3 DEF IsAppendResp, AppendResps, Batches
  <2> QED BY <2>1, <2>2
<1> HIDE DEF steps, n
<1>8. Ledger(x, << >>, G) /\ x \in Nodes
  <2>1. CASE n = 0
    <3>1. Unacknowledged = << >>
      BY <2>1, <1>7
    <3> QED BY <2>1, <3>1, <1>0, <1>4
  <2>2. CASE n = 1 /\ ~IsAppendResp(steps[1])
    <3>1. 1 \in 1..n /\ n > 0
      BY <2>2
    <3>2. PICK b \in Batches : b = steps[1] /\ BatchOK(world, rn, b)
      BY <2>2, <3>1, <1>6
    <3>3. Unacknowledged = <<b>>
      BY <2>2, <3>1, <3>2, <1>7
    <3>4. x = Stepped(rn, b)
      BY <2>2, <3>2, <1>4
    <3>5. Ledger(x, << >>, G)
      BY <3>2, <3>3, <3>4, <1>0, ApplyStepLedger
    <3>6. x \in Nodes
      <4>1. Between(world, rn, rn, ms, sm, G, D, H)
        <5>1. rn.applying \in Nat /\ sm \in Nat
          BY <1>0, NodeTypes, StateFacts
        <5>2. rn.applying <= rn.applying /\ rn.applying <= MaxOf(rn.applying, sm)
          BY <5>1 DEF MaxOf
        <5> QED BY <5>2, <1>0, <1>2 DEF Between, SameLog
      <4>2. BatchEnd(b) <= rn.applying
        BY <3>2 DEF BatchOK
      <4>3. Between(world, rn, x, ms, sm, G, D, H)
        BY <4>1, <4>2, <3>4, <1>0, ApplyStep
      <4> QED BY <4>3 DEF Between, Core
    <3> QED BY <3>5, <3>6
  <2>3. CASE n = 1 /\ IsAppendResp(steps[1])
    <3>1. 1 \in 1..n /\ n > 0
      BY <2>3
    <3>2. PICK y \in AppendResps : y = steps[1] /\ SyncResponse(world, rn, appendQ, sm, G, D, y)
      BY <2>3, <3>1, <1>5, <1>6
    <3>3. Unacknowledged = << >>
      BY <2>3, <1>7
    <3>4. x = Stepped(rn, y)
      BY <2>3, <3>2, <1>4
    <3>5. Ledger(x, << >>, G) /\ Core(world, x, ms, << >>, sm, G, D, H)
      BY <3>2, <3>3, <3>4, <1>0, <1>2, AppendStepLedger
    <3> QED BY <3>5 DEF Core
  <2>4. CASE n = 2
    <3>1. 1 \in 1..n /\ 2 \in 1..n /\ n > 0
      BY <2>4
    <3>2. IsAppendResp(steps[1]) /\ ~IsAppendResp(steps[2])
      BY <2>4, <1>5
    <3>3. PICK y \in AppendResps : y = steps[1] /\ SyncResponse(world, rn, appendQ, sm, G, D, y)
      BY <3>1, <3>2, <1>5, <1>6
    <3>4. PICK b \in Batches : b = steps[2] /\ BatchOK(world, rn, b)
      BY <3>1, <3>2, <1>6
    <3>5. Unacknowledged = <<b>>
      BY <2>4, <3>2, <3>4, <1>7
    <3>6. PICK z : z = Stepped(rn, y)
      OBVIOUS
    <3>7. Ledger(z, <<b>>, G) /\ Core(world, z, ms, << >>, sm, G, D, H) /\ rn.applying <= z.applying
      BY <3>3, <3>5, <3>6, <1>0, <1>2, AppendStepLedger
    <3>8. z \in Nodes
      BY <3>7 DEF Core
    <3>9. BatchEnd(b) <= rn.applying
      BY <3>4 DEF BatchOK
    <3>10. BatchEnd(b) <= z.applying
      <4>1. PICK e \in Int : e = BatchEnd(b)
        BY DEF Batches, BatchEnd
      <4>2. rn.applying \in Nat /\ z.applying \in Nat
        BY <1>0, <3>8, NodeTypes
      <4> QED BY <3>7, <3>9, <4>1, <4>2
    <3>11. BatchOK(world, z, b)
      BY <3>4, <3>10 DEF BatchOK
    <3>12. x = Stepped(z, b)
      BY <2>4, <3>3, <3>4, <3>6, <1>4
    <3>13. Ledger(x, << >>, G)
      BY <3>7, <3>11, <3>12, ApplyStepLedger
    <3>14. x \in Nodes
      <4>1. Between(world, z, z, ms, sm, G, D, H)
        <5>1. z.applying \in Nat /\ sm \in Nat
          BY <1>0, <3>8, NodeTypes, StateFacts
        <5>2. z.applying <= z.applying /\ z.applying <= MaxOf(z.applying, sm)
          BY <5>1 DEF MaxOf
        <5> QED BY <5>2, <3>7 DEF Between, SameLog
      <4>2. Between(world, z, x, ms, sm, G, D, H)
        BY <4>1, <3>8, <3>10, <3>12, ApplyStep
      <4> QED BY <4>2 DEF Between, Core
    <3> QED BY <3>13, <3>14
  <2> QED BY <2>1, <2>2, <2>3, <2>4, <1>2
<1>9. /\ rn'.snapshot = x.snapshot /\ rn'.applied = x.applied /\ rn'.applying = x.applying
      /\ rn'.applyingEntsSize = x.applyingEntsSize /\ rn'.state = x.state
      /\ rn'.uncommittedSize = x.uncommittedSize /\ rn'.stepsOnAdvance = << >>
  BY <1>4, <1>8 DEF Nodes
<1>10. Ledger(rn', << >>, G)
  <2>1. Covered(rn') = Covered(x)
    BY <1>9 DEF Covered
  <2> QED BY <2>1, <1>8, <1>9 DEF Ledger
<1>11. Unacknowledged' = << >>
  <2>1. ~world'.async
    BY <1>2 DEF Quiet
  <2>2. Len(rn'.stepsOnAdvance) = 0
    BY <1>9
  <2> QED BY <2>1, <2>2 DEF Unacknowledged
<1> QED BY <1>1, <1>10, <1>11 DEF Accounted

\* A node that starts has nothing to acknowledge.
LEMMA StartLedger ==
    ASSUME NEW w, NEW r, NEW m, NEW q, NEW a, NEW G, NEW D, NEW H, Core(w, r, m, q, a, G, D, H),
           NEW m2, r = newRaft(m2)
    PROVE  Ledger(r, << >>, G)
<1>1. /\ r.applyingEntsSize = 0 /\ r.uncommittedSize = 0 /\ r.applying = r.applied
  BY DEF newRaft
<1>2. PICK c \in Nat : c = Covered(r) /\ r.applied <= c /\ PayloadAfter(G, Covered(r)) \in Nat
  BY CoveredIs
<1>3. << >> \in Seq(Batches) /\ Len(<< >>) = 0 /\ 1..0 = {}
  OBVIOUS
<1>4. Follows(c, r.applying, << >>)
  BY <1>1, <1>2, <1>3 DEF Follows
<1>5. SizeOf(<< >>) = 0
  BY SizeOfNone
<1>6. PICK p \in Nat : p = PayloadAfter(G, c)
  BY <1>2
<1>7. r.uncommittedSize <= p
  BY <1>1
<1> QED BY <1>1, <1>2, <1>3, <1>4, <1>5, <1>6, <1>7 DEF Ledger

\* A restarted node has its accounts at zero.
LEMMA RestartLedger ==
    ASSUME NEW G, NEW D, NEW H, Accounted(G, D, H), Restart
    PROVE  \E G2, D2, H2 : Accounted(G2, D2, H2)'
<1>1. PICK G2, D2, H2 : StateInv(G2, D2, H2)'
  BY RestartInv DEF Accounted
<1>2. Core(world', rn', ms', appendQ', sm', G2, D2, H2)
  BY <1>1 DEF StateInv, Whole
<1>3. Ledger(rn', << >>, G2)
  <2>1. rn' = newRaft(ms')
    BY DEF Restart
  <2> QED BY <2>1, <1>2, StartLedger
<1>4. Unacknowledged' = << >>
  <2>1. applyQ' = << >> /\ applyResps' = << >>
    BY DEF Restart
  <2>2. rn'.stepsOnAdvance = << >>
    BY DEF Restart, newRaft
  <2>3. Len(rn'.stepsOnAdvance) = 0 /\ << >> \o << >> = << >>
    BY <2>2
  <2> QED BY <2>1, <2>3 DEF Unacknowledged
<1>5. Accounted(G2, D2, H2)'
  BY <1>1, <1>3, <1>4 DEF Accounted
<1> QED BY <1>5

\* So has a new one.
LEMMA InitLedger ==
    ASSUME Init
    PROVE  \E G, D, H : Accounted(G, D, H)
<1>1. PICK G, D, H : StateInv(G, D, H)
  BY InitInv
<1>2. Core(world, rn, ms, appendQ, sm, G, D, H)
  BY <1>1, StateFacts
<1>3. Ledger(rn, << >>, G)
  BY <1>2, StartLedger DEF Init
<1>4. Unacknowledged = << >>
  <2>1. applyQ = << >> /\ applyResps = << >>
    BY DEF Init
  <2>2. rn.stepsOnAdvance = << >>
    BY DEF Init, newRaft
  <2>3. Len(rn.stepsOnAdvance) = 0 /\ << >> \o << >> = << >>
    BY <2>2
  <2> QED BY <2>1, <2>3 DEF Unacknowledged
<1> QED BY <1>1, <1>3, <1>4 DEF Accounted

\* The inductive invariant of the accounts.
Accounts == \E G, D, H : Accounted(G, D, H)

\* The accounts are inductive.
LEMMA NextAccounts ==
    ASSUME Accounts, [Next]_vars
    PROVE  Accounts'
<1>1. PICK G, D, H : Accounted(G, D, H)
  BY DEF Accounts
<1>2. StateInv(G, D, H)
  BY <1>1 DEF Accounted
<1> SUFFICES \E G2, D2, H2 : Accounted(G2, D2, H2)'
  BY DEF Accounts
<1>3. ASSUME RaftStep PROVE \E G2, D2, H2 : Accounted(G2, D2, H2)'
  BY <1>1, <1>3, RaftLedger
<1>4. CASE Ready
  BY <1>1, <1>4, ReadyLedger
<1>5. CASE Advance
  <2>1. Accounted(G, D, H)'
    BY <1>1, <1>5, AdvanceLedger
  <2> QED BY <2>1
<1>6. CASE ProcessAppend
  <2>1. PICK D2, H2 : StateInv(G, D2, H2)'
    BY <1>2, <1>6, ProcessAppendInv
  <2>2. rn' = rn /\ world' = world /\ applyQ' = applyQ /\ applyResps' = applyResps
    BY <1>6 DEF ProcessAppend
  <2>3. Unacknowledged' = Unacknowledged
    BY <2>2 DEF Unacknowledged
  <2>4. Accounted(G, D2, H2)'
    BY <1>1, <2>1, <2>2, <2>3, OutsideLedger
  <2> QED BY <2>4
<1>7. CASE ProcessApply
  <2>1. Accounted(G, D, H)'
    BY <1>1, <1>7, ProcessApplyLedger
  <2> QED BY <2>1
<1>8. CASE StepAppendResp
  <2>1. Accounted(G, D, H)'
    BY <1>1, <1>8, StepAppendRespLedger
  <2> QED BY <2>1
<1>9. CASE StepApplyResp
  <2>1. Accounted(G, D, H)'
    BY <1>1, <1>9, StepApplyRespLedger
  <2> QED BY <2>1
<1>10. CASE \E i \in 1..storageLast(ms) : CreateSnapshot(i) \/ Compact(i)
  <2>1. StateInv(G, D, H)'
    BY <1>2, <1>10, CreateSnapshotInv, CompactInv
  <2>2. rn' = rn /\ world' = world /\ applyQ' = applyQ /\ applyResps' = applyResps
    BY <1>10 DEF CreateSnapshot, Compact
  <2>3. Unacknowledged' = Unacknowledged
    BY <2>2 DEF Unacknowledged
  <2>4. Accounted(G, D, H)'
    BY <1>1, <2>1, <2>2, <2>3, OutsideLedger
  <2> QED BY <2>4
<1>11. CASE Restart
  BY <1>1, <1>11, RestartLedger
<1>12. CASE UNCHANGED vars
  <2>1. StateInv(G, D, H)'
    BY <1>2, <1>12 DEF StateInv, vars
  <2>2. rn' = rn /\ Unacknowledged' = Unacknowledged
    BY <1>12 DEF vars, Unacknowledged
  <2>3. Accounted(G, D, H)'
    BY <1>1, <2>1, <2>2, OutsideLedger
  <2> QED BY <2>3
<1> QED BY <1>3, <1>4, <1>5, <1>6, <1>7, <1>8, <1>9, <1>10, <1>11, <1>12 DEF Next

\* Every step keeps the accounts: what applyingEntsSize counts is what was handed
\* out and not acknowledged, the batches follow each other from what is applied or
\* pending as a snapshot, and uncommittedSize counts no payload that lies before.
THEOREM AccountsAreKept == Spec => []Accounts
<1>1. Init => Accounts
  BY InitLedger DEF Accounts
<1>2. Accounts /\ [Next]_vars => Accounts'
  BY NextAccounts
<1> QED BY <1>1, <1>2, PTL DEF Spec

\* The accounts imply ApplyingSizeIsExact.
LEMMA AccountsSize ==
    ASSUME Accounts
    PROVE  ApplyingSizeIsExact
<1>0. PICK G, D, H : Accounted(G, D, H)
  BY DEF Accounts
<1>a. PICK u \in Seq(Batches) : u = Unacknowledged /\ rn.applyingEntsSize = SizeOf(u)
  BY <1>0 DEF Accounted, Ledger
<1> DEFINE n == Len(u)
           IsSum(f) == f = [i \in 0..Len(u) |-> IF i = 0 THEN 0 ELSE f[i - 1] + entsSize(u[i].ents)]
           g == CHOOSE f : IsSum(f)
<1>b. PICK v : v = BatchSizes(u)
  OBVIOUS
<1>1. n \in Nat /\ \A i \in 1..n : v[i] \in Nat /\ v[i] = entsSize(u[i].ents)
  BY <1>b, BatchSizesAre
<1> HIDE DEF n
<1>2. PICK f \in [0..n -> Nat] : Adds(f, v, n)
  BY <1>1, AddsExists
<1>3. IsSum(f)
  <2>1. f = [i \in 0..n |-> f[i]]
    BY <1>2
  <2>2. \A i \in 0..n : f[i] = IF i = 0 THEN 0 ELSE f[i - 1] + entsSize(u[i].ents)
    <3>1. SUFFICES ASSUME NEW i \in 0..n PROVE f[i] = IF i = 0 THEN 0 ELSE f[i - 1] + entsSize(u[i].ents)
      OBVIOUS
    <3>2. CASE i = 0
      BY <3>2, <1>2 DEF Adds
    <3>3. CASE i # 0
      <4>1. i \in 1..n
        BY <3>3
      <4> QED BY <3>3, <4>1, <1>1, <1>2 DEF Adds
    <3> QED BY <3>2, <3>3
  <2> QED BY <2>1, <2>2 DEF n
<1>4. IsSum(g)
  BY <1>3
<1>5. ApplyingSizeIsExact <=> rn.applyingEntsSize = g[n]
  BY <1>a DEF ApplyingSizeIsExact, n
<1> HIDE DEF g
<1>6. Adds(g, v, n)
  <2>1. g = [i \in 0..n |-> IF i = 0 THEN 0 ELSE g[i - 1] + entsSize(u[i].ents)]
    BY <1>4 DEF n
  <2>2. g[0] = 0
    BY <1>1, <2>1
  <2>3. ASSUME NEW i \in 1..n PROVE g[i] = g[i - 1] + entsSize(u[i].ents)
    <3>1. i \in 0..n /\ i # 0
      BY <1>1
    <3> QED BY <3>1, <2>1
  <2> QED BY <2>2, <2>3, <1>1 DEF Adds
<1>7. Total(v, n) = g[n]
  BY <1>1, <1>6, TotalIs
<1>8. SizeOf(u) = Total(v, n)
  BY <1>b DEF SizeOf, n
<1> QED BY <1>a, <1>5, <1>7, <1>8

\* raftLog.applyingEntsSize is the size of the batches that were handed out and not
\* acknowledged, so that it neither leaks (and pauses for ever) nor goes below zero:
\* with both kinds of writes, with snapshots that pass batches, for every limit.
THEOREM ApplyingSizeStaysExact == Spec => []ApplyingSizeIsExact
<1>1. Accounts => ApplyingSizeIsExact
  BY AccountsSize
<1> QED BY <1>1, AccountsAreKept, PTL

\* The payload of a slice to the end of the log, and what it is at least.
LEMMA TailPayload ==
    ASSUME NEW G \in Seq(Entry), NEW i \in Nat, NEW c \in Nat, i <= c, c <= Len(G),
           NEW s, PartOf(s, G, i + 1, Len(G) + 1)
    PROVE  /\ payloadsSize(s) \in Nat /\ PayloadAfter(G, c) \in Nat
           /\ PayloadAfter(G, c) <= payloadsSize(s)
<1>0. PICK l \in Nat : l = Len(G)
  OBVIOUS
<1>1. l - i \in Nat /\ c - i \in Nat /\ (l + 1) - (i + 1) = l - i
  BY <1>0
<1>2. PICK n \in Nat : n = l - i
  BY <1>1
<1>3. s \in Seq(Entry) /\ Len(s) = n /\ \A k \in 1..n : s[k] = G[(i + 1) + k - 1]
  BY <1>0, <1>1, <1>2 DEF PartOf
<1>4. PICK v : v = Sizes(s)
  OBVIOUS
<1>5. \A k \in 1..n : v[k] \in Nat /\ v[k] = s[k].size
  BY <1>3, <1>4, SizesType
<1>6. PICK x : x = SizesAfter(G, i)
  OBVIOUS
<1>7. \A k \in 1..n : x[k] \in Nat /\ x[k] = G[i + k].size
  <2>1. Remain(G, i, n)
    BY <1>0, <1>2 DEF Remain
  <2> QED BY <2>1, <1>6, SizesAfterAre
<1>8. ASSUME NEW k \in 1..n PROVE v[k] \in Nat /\ v[k] = x[k]
  <2>1. (i + 1) + k - 1 = i + k
    OBVIOUS
  <2>2. s[k] = G[i + k]
    BY <1>3, <2>1
  <2> QED BY <2>2, <1>5, <1>7
<1>9. Total(v, n) = Total(x, n)
  BY <1>8, TotalSame
<1>10. PayloadAfter(G, i) = Total(x, n)
  BY <1>0, <1>2, <1>6 DEF PayloadAfter
<1>11. payloadsSize(s) = PayloadAfter(G, i) /\ payloadsSize(s) \in Nat
  BY <1>3, <1>4, <1>9, <1>10, PayloadsIs
<1>12. PICK d \in Nat : d = c - i
  BY <1>1
<1>13. SizesFrom(x, G, i, c, d)
  <2>1. \A k \in 1..d : x[k] = G[i + k].size
    <3>1. SUFFICES ASSUME NEW k \in 1..d PROVE x[k] = G[i + k].size
      OBVIOUS
    <3>2. k \in 1..n
      BY <1>0, <1>2, <1>12
    <3> QED BY <3>2, <1>7
  <2> QED BY <2>1, <1>12 DEF SizesFrom
<1>14. /\ PayloadAfter(G, i) = Total(x, d) + PayloadAfter(G, c)
       /\ Total(x, d) \in Nat /\ PayloadAfter(G, c) \in Nat
  BY <1>13, PayloadSplit
<1>15. PICK t \in Nat : t = Total(x, d)
  BY <1>14
<1>16. PICK p \in Nat : p = PayloadAfter(G, c)
  BY <1>14
<1>17. PayloadAfter(G, i) = t + p
  BY <1>14, <1>15, <1>16
<1> QED BY <1>11, <1>16, <1>17

\* The accounts imply UncommittedSizeIsBounded.
LEMMA AccountsBound ==
    ASSUME Accounts
    PROVE  UncommittedSizeIsBounded
<1>0. PICK G, D, H : Accounted(G, D, H)
  BY DEF Accounts
<1>1. /\ Core(world, rn, ms, appendQ, sm, G, D, H) /\ Ledger(rn, Unacknowledged, G) /\ rn \in Nodes
      /\ G \in Seq(Entry) /\ Len(G) \in Nat
  BY <1>0, StateFacts DEF Accounted
<1>2. lastIndex(rn, ms) = Len(G)
  BY <1>1, LastIs
<1>3. PICK l \in Nat : l = Len(G)
  BY <1>1
<1>4. PICK i \in Nat : i = rn.applied
  BY <1>1, NodeTypes
<1>5. PICK f \in Nat : f = firstIndex(rn, ms)
  BY <1>1, FirstIs
<1>6. PICK c \in Nat : c = Covered(rn) /\ c <= Len(G) /\ rn.applied <= c
  BY <1>1, CoveredIs
<1>7. PICK s : s = slice(rn, ms, i + 1, l + 1)
  OBVIOUS
<1>8. SUFFICES ASSUME i + 1 >= f PROVE rn.uncommittedSize <= payloadsSize(s)
  BY <1>2, <1>3, <1>4, <1>5, <1>7 DEF UncommittedSizeIsBounded
<1>9. i + 1 \in Nat /\ l + 1 \in Nat /\ f <= i + 1 /\ i + 1 <= l + 1 /\ i <= c /\ c <= l
  BY <1>3, <1>4, <1>6, <1>8
<1>10. PartOf(s, G, i + 1, l + 1)
  BY <1>1, <1>3, <1>5, <1>7, <1>9, SliceIs
<1>11. /\ payloadsSize(s) \in Nat /\ PayloadAfter(G, c) \in Nat
       /\ PayloadAfter(G, c) <= payloadsSize(s)
  BY <1>1, <1>3, <1>9, <1>10, TailPayload
<1>12. rn.uncommittedSize <= PayloadAfter(G, c)
  BY <1>1, <1>6 DEF Ledger
<1>13. rn.uncommittedSize \in Nat
  BY <1>1, NodeTypes
<1> QED BY <1>11, <1>12, <1>13

\* raft.uncommittedSize never counts more than the payload of the entries that are
\* not applied, so that the leader refuses no proposal for entries long done with:
\* it is reduced by what is acknowledged, and set to zero with a new term.
THEOREM UncommittedSizeStaysBounded == Spec => []UncommittedSizeIsBounded
<1>1. Accounts => UncommittedSizeIsBounded
  BY AccountsBound
<1> QED BY <1>1, AccountsAreKept, PTL

=============================================================================
