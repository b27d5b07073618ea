------------------------------ MODULE LogProofs ------------------------------
(***************************************************************************)
(* Log safety of module Raft with synchronous storage writes, for clusters *)
(* of any size, any joint configuration, and logs, terms, crashes and      *)
(* messages without bound.                                                 *)
(***************************************************************************)
EXTENDS ElectionProofs

USE ServerAssumption

-----------------------------------------------------------------------------
(* Logs that agree.                                                        *)

\* s and t are the same up to index k.
Agree(s, t, k) == k <= Len(s) /\ k <= Len(t) /\ \A n \in 1..k : s[n] = t[n]

\* Agreement is the equality of prefixes that module Raft speaks of.
LEMMA AgreeIsSame ==
    ASSUME NEW s \in Seq(Entry), NEW t \in Seq(Entry), NEW k \in Nat, Agree(s, t, k)
    PROVE  SameUpTo(s, t, k)
<1>1. k <= Len(s) /\ k <= Len(t) /\ \A n \in 1..k : s[n] = t[n] /\ s[n] \in Entry /\ t[n] \in Entry
  BY DEF Agree
<1>2. /\ SubSeq(s, 1, k) \in Seq(Entry) /\ Len(SubSeq(s, 1, k)) = k
      /\ \A n \in 1..k : SubSeq(s, 1, k)[n] = s[n]
  BY <1>1, SubSeqProperties
<1>3. /\ SubSeq(t, 1, k) \in Seq(Entry) /\ Len(SubSeq(t, 1, k)) = k
      /\ \A n \in 1..k : SubSeq(t, 1, k)[n] = t[n]
  BY <1>1, SubSeqProperties
<1>4. SubSeq(s, 1, k) = SubSeq(t, 1, k)
  BY <1>1, <1>2, <1>3, SeqEqual
<1>. QED
  BY <1>1, <1>4 DEF SameUpTo, PrefixUpTo

\* Agreement is an equivalence, and holds of shorter prefixes.
LEMMA AgreeFacts ==
    ASSUME NEW s \in Seq(Entry), NEW t \in Seq(Entry), NEW u \in Seq(Entry), NEW k \in Nat
    PROVE  /\ Agree(s, s, Len(s)) /\ Agree(s, t, 0)
           /\ Agree(s, t, k) => Agree(t, s, k)
           /\ Agree(s, t, k) /\ Agree(t, u, k) => Agree(s, u, k)
           /\ \A n \in Nat : n <= k /\ Agree(s, t, k) => Agree(s, t, n)
           /\ k <= Len(s) => Agree(s, s, k)
<1>. QED
  BY DEF Agree

-----------------------------------------------------------------------------
(***************************************************************************)
(* The argument needs the log that the leader of each term had last, which *)
(* no variable keeps: LL[t] is that log, empty if nobody was elected in t. *)
(* The invariant says that some LL fits the state.                         *)
(***************************************************************************)
LeaderLogs == [Nat -> Seq(Entry)]

\* A log that a server in `term` may have: up to each of its entries it is
\* the log of the leader that made that entry.
Sound(LL, term, s) ==
    \A k \in 1..Len(s) : s[k].term <= term /\ Agree(s, LL[s[k].term], k)

\* An acknowledgement of the messages `sent`, and who acknowledged in term t
\* the leader's entries up to index k.
Ack(m) == m.type = "MsgAppResp" /\ ~m.reject
AckedAt(sent, t, k) ==
    {j \in Server : \E m \in sent : Ack(m) /\ m.from = j /\ m.term = t /\ m.index >= k}

\* The pairs <<term, index>> that a quorum acknowledged to the leader, and
\* those that never can be: the servers of a quorum left the term without.
CertifiedBy(sent) ==
    {p \in Nat \X Nat : IsJointQuorum(Config, AckedAt(sent, p[1], p[2]))}
RefutedBy(sent, saved) ==
    {p \in Nat \X Nat : \E Q \in SUBSET Server :
        /\ IsJointQuorum(Config, Q)
        /\ \A j \in Q : saved[j].Term > p[1] /\ j \notin AckedAt(sent, p[1], p[2])}
Certified == CertifiedBy(net)
Refuted   == RefutedBy(net, disk)

\* The first c entries of s are committed, by an entry that the leader of
\* `term` or of an earlier term had made itself.
Backed(LL, certified, term, s, c) ==
    c = 0 \/ \E t \in 0..term : \E k \in 1..Len(LL[t]) :
                /\ <<t, k>> \in certified /\ LL[t][k].term = t
                /\ c <= k /\ Agree(s, LL[t], c)

\* Of what the leader of term t made itself, s has the entries up to `index`
\* that can still be committed.
Holds(LL, refuted, s, t, index) ==
    \A k \in 1..index : LL[t][k].term = t =>
        Agree(s, LL[t], k) \/ <<t, k>> \in refuted

\* What the ack m says is true of the log s of a server in `term`: within the
\* term of m all of it, later what can still be committed.
Kept(LL, refuted, term, s, m) ==
    /\ m.term <= term /\ m.index <= Len(LL[m.term])
    /\ m.term = term => Agree(s, LL[term], m.index)
    /\ Holds(LL, refuted, s, m.term, m.index)

\* A leader has what earlier leaders made, unless it never can be committed.
Complete(LL, refuted) ==
    \A t, u \in Nat : t < u /\ LL[u] # << >> => Holds(LL, refuted, LL[u], t, Len(LL[t]))

\* Messages of the leader: a piece of its log, a committed prefix of it, or a
\* commit index that the addressee has acknowledged.
AppTrue(LL, sent, m) ==
    LET l == LL[m.term]
    IN  /\ m.index + Len(m.entries) <= Len(l) /\ m.logTerm = TermAt(l, m.index)
        /\ \A n \in 1..Len(m.entries) : m.entries[n] = l[m.index + n]
        /\ Backed(LL, CertifiedBy(sent), m.term, l, m.commit)
SnapTrue(LL, sent, m) ==
    /\ Agree(m.snapshot, LL[m.term], Len(m.snapshot))
    /\ Backed(LL, CertifiedBy(sent), m.term, m.snapshot, Len(m.snapshot))
HeartTrue(LL, sent, m) ==
    m.commit > 0 => /\ m.to \in AckedAt(sent, m.term, m.commit)
                    /\ Backed(LL, CertifiedBy(sent), m.term, LL[m.term], m.commit)
MsgTrue(LL, sent, m) ==
    /\ m.type = "MsgApp"       => AppTrue(LL, sent, m)
    /\ m.type = "MsgSnap"      => SnapTrue(LL, sent, m)
    /\ m.type = "MsgHeartbeat" => HeartTrue(LL, sent, m)

-----------------------------------------------------------------------------
(* What follows from these definitions alone.                              *)

\* Two sound logs with entries of the same term at an index agree up to it.
LEMMA SoundMeet ==
    ASSUME NEW LL \in LeaderLogs, NEW s \in Seq(Entry), NEW t \in Seq(Entry),
           NEW a, NEW b, Sound(LL, a, s), Sound(LL, b, t),
           NEW k \in 1..Len(s), k <= Len(t), s[k].term = t[k].term
    PROVE  Agree(s, t, k)
<1>1. k \in 1..Len(t)
  OBVIOUS
<1>2. Agree(s, LL[s[k].term], k) /\ Agree(t, LL[s[k].term], k)
  BY <1>1 DEF Sound
<1>. QED
  BY <1>2 DEF Agree

\* A log with an index is not empty.
LEMMA HasEntries ==
    ASSUME NEW s \in Seq(Entry), NEW k \in 1..Len(s)
    PROVE  s # << >> /\ Len(s) # 0
<1>1. Len(s) # 0
  OBVIOUS
<1>2. s = << >> => Len(s) = 0
  OBVIOUS
<1>. QED
  BY <1>1, <1>2

\* The terms of entries are numbers.
LEMMA EntryTerm ==
    ASSUME NEW s \in Seq(Entry), NEW k \in 1..Len(s)
    PROVE  s[k] \in Entry /\ s[k].term \in Nat
<1>1. s[k] \in Entry
  OBVIOUS
<1>. QED
  BY <1>1 DEF Entry

\* A sound log is sound in later terms, and so are its prefixes.
LEMMA SoundForward ==
    ASSUME NEW LL \in LeaderLogs, NEW s \in Seq(Entry), NEW t \in Seq(Entry),
           NEW a \in Nat, NEW b \in Nat, Sound(LL, a, t), a <= b, Agree(s, t, Len(s))
    PROVE  Sound(LL, b, s)
<1>. SUFFICES ASSUME NEW k \in 1..Len(s)
              PROVE  s[k].term <= b /\ Agree(s, LL[s[k].term], k)
  BY DEF Sound
<1>1. k \in 1..Len(t) /\ s[k] = t[k] /\ s[k].term \in Nat /\ Agree(s, t, k)
  BY EntryTerm DEF Agree
<1>2. t[k].term <= a /\ Agree(t, LL[t[k].term], k)
  BY <1>1 DEF Sound
<1>. QED
  BY <1>1, <1>2 DEF Agree

\* Acknowledgements of a quorum leave no quorum without any.
LEMMA CertifiedStands ==
    ASSUME NEW sent, NEW saved, NEW p \in CertifiedBy(sent)
    PROVE  p \notin RefutedBy(sent, saved)
<1>. SUFFICES ASSUME p \in RefutedBy(sent, saved) PROVE FALSE
  OBVIOUS
<1>1. IsJointQuorum(Config, AckedAt(sent, p[1], p[2]))
  BY DEF CertifiedBy
<1>2. PICK Q \in SUBSET Server :
        /\ IsJointQuorum(Config, Q)
        /\ \A j \in Q : j \notin AckedAt(sent, p[1], p[2])
  BY DEF RefutedBy
<1>3. IsMajority(Incoming, Q) /\ IsMajority(Incoming, AckedAt(sent, p[1], p[2]))
  BY <1>1, <1>2 DEF IsJointQuorum, Config
<1>4. IsFiniteSet(Incoming)
  BY FS_Subset
<1>5. \E j \in Incoming : j \in Q /\ j \in AckedAt(sent, p[1], p[2])
  BY <1>3, <1>4, MajoritiesMeet, Zenon
<1>. QED
  BY <1>2, <1>5

\* The indexes of a backed prefix are within the log.
LEMMA BackedInRange ==
    ASSUME NEW LL \in LeaderLogs, NEW C, NEW term, NEW s \in Seq(Entry), NEW c \in Nat,
           Backed(LL, C, term, s, c)
    PROVE  c <= Len(s)
<1>1. c = 0 \/ \E t \in 0..term : Agree(s, LL[t], c)
  BY Zenon DEF Backed
<1>. QED
  BY <1>1 DEF Agree

\* What is committed stays so in later terms, in shorter prefixes and in logs
\* that agree on it.
LEMMA BackedMoves ==
    ASSUME NEW LL \in LeaderLogs, NEW C, NEW a \in Nat, NEW b \in Nat, a <= b,
           NEW s \in Seq(Entry), NEW v \in Seq(Entry), NEW c \in Nat, NEW d \in Nat,
           d <= c, Backed(LL, C, a, s, c), Agree(v, s, d)
    PROVE  Backed(LL, C, b, v, d)
<1>1. CASE c = 0
  BY <1>1 DEF Backed
<1>2. CASE c # 0
  <2>1. PICK t \in 0..a : \E k \in 1..Len(LL[t]) :
            /\ <<t, k>> \in C /\ LL[t][k].term = t
            /\ c <= k /\ Agree(s, LL[t], c)
    BY <1>2 DEF Backed
  <2>2. PICK k \in 1..Len(LL[t]) :
            /\ <<t, k>> \in C /\ LL[t][k].term = t
            /\ c <= k /\ Agree(s, LL[t], c)
    BY <2>1
  <2>3. t \in 0..b /\ t \in Nat /\ LL[t] \in Seq(Entry)
    BY DEF LeaderLogs
  <2>4. Agree(v, LL[t], d)
    BY <2>2, <2>3 DEF Agree
  <2>5. d <= k
    BY <2>2, <2>3
  <2>. QED
    BY <2>2, <2>3, <2>4, <2>5 DEF Backed
<1>. QED
  BY <1>1, <1>2

\* The leader of a term has everything committed in that term or before.
LEMMA LeaderHas ==
    ASSUME NEW LL \in LeaderLogs, NEW sent, NEW saved, Complete(LL, RefutedBy(sent, saved)),
           NEW term \in Nat, NEW T \in Nat, term <= T, LL[T] # << >>,
           NEW s \in Seq(Entry), NEW c \in Nat,
           Backed(LL, CertifiedBy(sent), term, s, c)
    PROVE  Agree(s, LL[T], c)
<1>0. LL[T] \in Seq(Entry)
  BY DEF LeaderLogs
<1>1. CASE c = 0
  BY <1>0, <1>1 DEF Agree
<1>2. CASE c # 0
  <2>1. PICK t \in 0..term : \E k \in 1..Len(LL[t]) :
            /\ <<t, k>> \in CertifiedBy(sent) /\ LL[t][k].term = t
            /\ c <= k /\ Agree(s, LL[t], c)
    BY <1>2 DEF Backed
  <2>2. PICK k \in 1..Len(LL[t]) :
            /\ <<t, k>> \in CertifiedBy(sent) /\ LL[t][k].term = t
            /\ c <= k /\ Agree(s, LL[t], c)
    BY <2>1
  <2>3. t \in Nat /\ LL[t] \in Seq(Entry)
    BY DEF LeaderLogs
  <2>4. <<t, k>> \notin RefutedBy(sent, saved)
    BY <2>2, CertifiedStands
  <2>5. CASE t = T
    BY <2>2, <2>5
  <2>6. CASE t < T
    <3>1. Holds(LL, RefutedBy(sent, saved), LL[T], t, Len(LL[t]))
      BY <2>3, <2>6 DEF Complete
    <3>2. Agree(LL[T], LL[t], k)
      BY <2>2, <2>4, <3>1 DEF Holds
    <3>. QED
      BY <1>0, <2>2, <2>3, <3>2 DEF Agree
  <2>. QED
    BY <2>3, <2>5, <2>6
<1>. QED
  BY <1>1, <1>2

\* Two committed prefixes agree as far as both reach.
LEMMA BackedAgree ==
    ASSUME NEW LL \in LeaderLogs, NEW sent, NEW saved, Complete(LL, RefutedBy(sent, saved)),
           NEW a \in Nat, NEW b \in Nat, NEW s \in Seq(Entry), NEW v \in Seq(Entry),
           NEW c \in Nat, NEW d \in Nat, c <= d,
           Backed(LL, CertifiedBy(sent), a, s, c), Backed(LL, CertifiedBy(sent), b, v, d)
    PROVE  Agree(s, v, c)
<1>1. CASE c = 0
  BY <1>1 DEF Agree
<1>2. CASE c # 0
  <2>1. PICK t \in 0..a : \E k \in 1..Len(LL[t]) :
            /\ <<t, k>> \in CertifiedBy(sent) /\ LL[t][k].term = t
            /\ c <= k /\ Agree(s, LL[t], c)
    BY <1>2 DEF Backed
  <2>2. PICK u \in 0..b : \E k \in 1..Len(LL[u]) :
            /\ <<u, k>> \in CertifiedBy(sent) /\ LL[u][k].term = u
            /\ d <= k /\ Agree(v, LL[u], d)
    BY <1>2 DEF Backed
  <2>3. t \in Nat /\ u \in Nat /\ LL[t] \in Seq(Entry) /\ LL[u] \in Seq(Entry)
    <3>1. t \in Nat /\ u \in Nat
      OBVIOUS
    <3>. QED
      BY <3>1 DEF LeaderLogs
  <2>4. LL[t] # << >> /\ LL[u] # << >>
    BY <2>1, <2>2, <2>3, HasEntries
  <2>5. Backed(LL, CertifiedBy(sent), t, s, c) /\ Backed(LL, CertifiedBy(sent), u, v, d)
    <3>1. t \in 0..t /\ u \in 0..u
      BY <2>3
    <3>. QED
      BY <2>1, <2>2, <3>1, Zenon DEF Backed
  <2>6. CASE t <= u
    <3>1. Agree(s, LL[u], c)
      BY <2>3, <2>4, <2>5, <2>6, LeaderHas, Zenon
    <3>. QED
      BY <2>2, <2>3, <3>1 DEF Agree
  <2>7. CASE u <= t
    <3>1. Agree(v, LL[t], d)
      BY <2>3, <2>4, <2>5, <2>7, LeaderHas, Zenon
    <3>. QED
      BY <2>1, <2>3, <3>1 DEF Agree
  <2>. QED
    BY <2>3, <2>6, <2>7
<1>. QED
  BY <1>1, <1>2

-----------------------------------------------------------------------------
(* What appends, snapshots and votes do to a log.                          *)

\* A log new that keeps what s has in common with the leader's log l.
KeepsCommon(s, l, new) == \A k \in Nat : Agree(s, l, k) => Agree(new, s, k)

\* An ack that was kept is kept in later terms.
LEMMA KeptLater ==
    ASSUME NEW LL, NEW R, NEW term \in Nat, NEW T \in Nat, term <= T, NEW s, NEW m,
           m.term \in Nat, Kept(LL, R, term, s, m)
    PROVE  Kept(LL, R, T, s, m)
<1>1. m.term <= term /\ m.term <= T /\ (m.term = T => term = T)
  BY DEF Kept
<1>. QED
  BY <1>1 DEF Kept

\* It is also kept by a log that keeps what it has in common with a leader.
LEMMA KeptAfter ==
    ASSUME NEW LL \in LeaderLogs, NEW R, Complete(LL, R),
           NEW term \in Nat, NEW T \in Nat, term <= T, LL[T] # << >>,
           NEW s \in Seq(Entry), NEW new \in Seq(Entry), KeepsCommon(s, LL[T], new),
           NEW m, m.term \in Nat, m.index \in Nat, Kept(LL, R, term, s, m)
    PROVE  Kept(LL, R, T, new, m)
<1>1. Kept(LL, R, T, s, m)
  BY KeptLater
<1>2. m.term <= T /\ m.index <= Len(LL[m.term])
  BY <1>1 DEF Kept
<1>3. LL[m.term] \in Seq(Entry) /\ LL[T] \in Seq(Entry)
  BY DEF LeaderLogs
<1>4. m.term = T => Agree(new, LL[T], m.index)
  <2>. HAVE m.term = T
  <2>1. Agree(s, LL[T], m.index)
    BY <1>1 DEF Kept
  <2>2. Agree(new, s, m.index)
    BY <2>1 DEF KeepsCommon
  <2>. QED
    BY <1>3, <2>1, <2>2 DEF Agree
<1>5. ASSUME NEW k \in 1..m.index, LL[m.term][k].term = m.term, <<m.term, k>> \notin R
      PROVE  Agree(new, LL[m.term], k)
  <2>1. Agree(s, LL[m.term], k)
    BY <1>1, <1>5 DEF Kept, Holds
  <2>2. Agree(LL[T], LL[m.term], k)
    <3>1. CASE m.term = T
      BY <1>2, <1>3, <3>1 DEF Agree
    <3>2. CASE m.term < T
      <4>1. Holds(LL, R, LL[T], m.term, Len(LL[m.term]))
        BY <3>2 DEF Complete
      <4>2. k \in 1..Len(LL[m.term])
        BY <1>2, <1>3
      <4>. QED
        BY <1>5, <4>1, <4>2 DEF Holds
    <3>. QED
      BY <1>2, <3>1, <3>2
  <2>3. Agree(s, LL[T], k)
    BY <1>3, <2>1, <2>2 DEF Agree
  <2>4. Agree(new, s, k)
    BY <2>3 DEF KeepsCommon
  <2>. QED
    BY <1>3, <2>1, <2>4 DEF Agree
<1>. QED
  BY <1>2, <1>4, <1>5 DEF Kept, Holds

(***************************************************************************)
(* The check of isUpToDate: a candidate that passes it has everything that *)
(* the voter has and that can be committed.                                *)
(***************************************************************************)
LEMMA VoterInforms ==
    ASSUME NEW LL \in LeaderLogs, NEW R, Complete(LL, R), \A u \in Nat : Sound(LL, u, LL[u]),
           NEW a \in Nat, NEW b \in Nat, NEW lg \in LogType, NEW lv \in LogType,
           Sound(LL, a, lg.ents), Sound(LL, b, lv.ents),
           isUpToDate(lg, lastIndex(lv), lastTerm(lv)),
           NEW t \in Nat, NEW index \in Nat, index <= Len(LL[t]),
           Holds(LL, R, lg.ents, t, index)
    PROVE  Holds(LL, R, lv.ents, t, index)
<1>. DEFINE s == lg.ents
            v == lv.ents
<1>. SUFFICES ASSUME NEW k \in 1..index, LL[t][k].term = t, <<t, k>> \notin R
              PROVE  Agree(v, LL[t], k)
  BY DEF Holds
<1>1. s \in Seq(Entry) /\ v \in Seq(Entry) /\ LL[t] \in Seq(Entry)
  BY LogReads DEF LeaderLogs
<1>2. Agree(s, LL[t], k)
  BY DEF Holds
<1>3. Len(s) \in 1..Len(s) /\ k \in 1..Len(s) /\ k \in 1..Len(LL[t]) /\ s[k].term = t
  BY <1>1, <1>2 DEF Agree
<1>. HIDE DEF s, v
<1>4. PICK p \in Nat : p = s[Len(s)].term
  BY <1>1, <1>3, EntryTerm
<1>5. Agree(s, LL[p], Len(s)) /\ LL[p] \in Seq(Entry)
  BY <1>3, <1>4 DEF Sound, s, LeaderLogs
<1>6. t <= p
  <2>1. k \in 1..Len(LL[p]) /\ LL[p][k].term = t
    BY <1>1, <1>3, <1>5 DEF Agree
  <2>. QED
    BY <2>1 DEF Sound
<1>7. lastTerm(lg) = p /\ lastIndex(lg) = Len(s) /\ Len(s) # 0
  BY <1>1, <1>3, <1>4 DEF lastTerm, lastIndex, TermAt, s
<1>8. Len(v) # 0
  <2>. SUFFICES ASSUME Len(v) = 0 PROVE FALSE
    OBVIOUS
  <2>1. lastIndex(lv) = 0 /\ lastTerm(lv) = 0
    BY DEF lastTerm, lastIndex, TermAt, v
  <2>. QED
    BY <1>1, <1>3, <1>7, <2>1 DEF isUpToDate
<1>9. Len(v) \in 1..Len(v)
  BY <1>1, <1>8
<1>10. PICK q \in Nat : q = v[Len(v)].term
  BY <1>1, <1>9, EntryTerm
<1>11. Agree(v, LL[q], Len(v)) /\ LL[q] \in Seq(Entry)
  BY <1>9, <1>10 DEF Sound, v, LeaderLogs
<1>12. lastTerm(lv) = q /\ lastIndex(lv) = Len(v)
  BY <1>8, <1>10 DEF lastTerm, lastIndex, TermAt, v
<1>13. q > p \/ (q = p /\ Len(v) >= Len(s))
  BY <1>7, <1>12 DEF isUpToDate
<1>14. CASE q = p /\ Len(v) >= Len(s)
  BY <1>1, <1>2, <1>3, <1>5, <1>11, <1>14, SMTT(30) DEF Agree
<1>15. CASE q > p
  <2>1. LL[q] # << >>
    BY <1>1, <1>9, <1>11, HasEntries DEF Agree
  <2>2. Holds(LL, R, LL[q], t, Len(LL[t]))
    BY <1>6, <1>15, <2>1 DEF Complete
  <2>3. Agree(LL[q], LL[t], k)
    BY <1>3, <2>2 DEF Holds
  <2>4. k <= Len(v)
    <3>. SUFFICES ASSUME Len(v) < k PROVE FALSE
      BY <1>1
    <3>1. Len(v) \in 1..Len(LL[t]) /\ LL[t][Len(v)].term = q
      BY <1>1, <1>3, <1>9, <1>10, <1>11, <2>3, SMTT(30) DEF Agree
    <3>2. q <= t
      BY <3>1 DEF Sound
    <3>. QED
      BY <1>6, <1>15, <3>2
  <2>. QED
    BY <1>1, <1>11, <2>3, <2>4, SMTT(30) DEF Agree
<1>. QED
  BY <1>13, <1>14, <1>15

\* A log that has an entry at the index, and of the term, that a piece of the
\* leader's log starts after agrees with the leader up to there.
LEMMA PrevAgrees ==
    ASSUME NEW LL \in LeaderLogs, NEW a, NEW T \in Nat, Sound(LL, T, LL[T]),
           NEW s \in Seq(Entry), Sound(LL, a, s), NEW p \in Nat, p <= Len(s), p <= Len(LL[T]),
           TermAt(s, p) = TermAt(LL[T], p)
    PROVE  Agree(s, LL[T], p)
<1>1. LL[T] \in Seq(Entry)
  BY DEF LeaderLogs
<1>2. CASE p = 0
  BY <1>1, <1>2 DEF Agree
<1>3. CASE p # 0
  <2>1. p \in 1..Len(s) /\ s[p].term = LL[T][p].term
    BY <1>1, <1>3 DEF TermAt
  <2>. QED
    BY <1>1, <2>1, SoundMeet
<1>. QED
  BY <1>2, <1>3

(***************************************************************************)
(* maybeAppend makes the log agree with the leader's up to the end of the  *)
(* message, and loses nothing that the two had in common: it cuts the log  *)
(* only at an entry that really conflicts.                                 *)
(***************************************************************************)
LEMMA AppendAgrees ==
    ASSUME NEW LL \in LeaderLogs, NEW a \in Nat, NEW T \in Nat, a <= T, Sound(LL, T, LL[T]),
           NEW lg \in LogType, Sound(LL, a, lg.ents), lg.first <= lg.committed + 1,
           NEW p \in Nat, p >= lg.committed, NEW ents \in Seq(Entry), NEW commit \in Nat,
           HasTerm(lg, p), TermAt(lg.ents, p) = TermAt(LL[T], p),
           p + Len(ents) <= Len(LL[T]), \A n \in 1..Len(ents) : ents[n] = LL[T][p + n]
    PROVE  LET new == maybeAppend(lg, p, ents, commit)
           IN  /\ new.ents \in Seq(Entry) /\ Sound(LL, T, new.ents)
               /\ Agree(new.ents, LL[T], p + Len(ents))
               /\ KeepsCommon(lg.ents, LL[T], new.ents)
               /\ new.committed \in {lg.committed, Least(commit, p + Len(ents))}
               /\ new.first = lg.first
<1>. DEFINE s  == lg.ents
            l  == LL[T]
            c  == Conflicts(lg, p, ents)
            ci == findConflict(lg, p, ents)
            appended == IF ci = 0 THEN lg.ents
                        ELSE SubSeq(lg.ents, 1, ci - 1) \o SubSeq(ents, ci - p, Len(ents))
            new == maybeAppend(lg, p, ents, commit)
<1>1. s \in Seq(Entry) /\ l \in Seq(Entry) /\ lg.first \in Nat /\ lg.committed \in Nat
  BY LogReads DEF LeaderLogs, LogType
<1>2. p <= Len(s)
  BY DEF HasTerm, lastIndex
<1>3. Agree(s, l, p)
  <2>1. p <= Len(LL[T])
    BY <1>1
  <2>. QED
    BY <1>1, <1>2, <2>1, PrevAgrees
<1>4. \A n \in Nat : HasTerm(lg, p + n) <=> p + n <= Len(s)
  BY <1>1 DEF HasTerm, lastIndex
<1>5. \A k \in 1..Len(ents) : k \notin c => p + k <= Len(s) /\ s[p + k].term = l[p + k].term
  <2>. TAKE k \in 1..Len(ents)
  <2>. HAVE k \notin c
  <2>1. matchTerm(lg, p + k, ents[k].term)
    BY DEF Conflicts
  <2>2. k \in Nat /\ p + k # 0 /\ ents[k] = l[p + k]
    OBVIOUS
  <2>. QED
    BY <1>4, <2>1, <2>2 DEF matchTerm, TermAt
<1>6. \A k \in 1..Len(ents) : k \notin c => Agree(s, l, p + k)
  <2>. TAKE k \in 1..Len(ents)
  <2>. HAVE k \notin c
  <2>1. p + k \in 1..Len(s) /\ p + k <= Len(l) /\ s[p + k].term = l[p + k].term
    BY <1>1, <1>5
  <2>. QED
    BY <1>1, <2>1, SoundMeet
<1>7. new.ents = appended /\ new.first = lg.first
      /\ new.committed \in {lg.committed, Least(commit, p + Len(ents))}
  BY DEF maybeAppend, commitTo, LogType, Least
<1>8. /\ appended \in Seq(Entry) /\ Sound(LL, T, appended)
      /\ Agree(appended, l, p + Len(ents)) /\ KeepsCommon(s, l, appended)
  <2>1. CASE c = {}
    <3>1. appended = s
      BY <2>1 DEF findConflict
    <3>2. Agree(s, l, p + Len(ents))
      <4>1. CASE Len(ents) = 0
        BY <1>1, <1>3, <4>1
      <4>2. CASE Len(ents) # 0
        <5>1. Len(ents) \in 1..Len(ents)
          BY <4>2
        <5>. QED
          BY <1>6, <2>1, <5>1
      <4>. QED
        BY <4>1, <4>2
    <3>3. Agree(s, s, Len(s))
      BY <1>1 DEF Agree
    <3>4. Sound(LL, T, s)
      BY <1>1, <3>3, SoundForward
    <3>5. KeepsCommon(s, l, s)
      BY <1>1 DEF KeepsCommon, Agree
    <3>. HIDE DEF appended
    <3>. QED
      BY <1>1, <3>1, <3>2, <3>4, <3>5
  <2>2. CASE c # {}
    <3>. DEFINE k == CHOOSE k \in c : \A j \in c : k <= j
    <3>1. c \subseteq 1..Len(ents) /\ c \subseteq Nat
      BY DEF Conflicts
    <3>2. \E x \in c : \A j \in c : x <= j
      <4>. HIDE DEF c
      <4>. QED
        BY <2>2, <3>1, LeastExists
    <3>3. k \in c /\ \A j \in c : k <= j
      <4>. HIDE DEF c
      <4>. QED
        BY <3>2
    <3>4. k \in 1..Len(ents) /\ ci = p + k
      BY <2>2, <3>1, <3>3 DEF findConflict
    <3>5. Agree(s, l, p + (k - 1))
      <4>1. CASE k = 1
        <5>. HIDE DEF k
        <5>1. p + (k - 1) = p
          BY <4>1
        <5>. QED
          BY <1>3, <5>1
      <4>2. CASE k # 1
        <5>1. k - 1 \in 1..Len(ents) /\ k - 1 \notin c
          BY <3>3, <3>4, <4>2
        <5>. HIDE DEF k, c
        <5>. QED
          BY <1>6, <5>1
      <4>. QED
        BY <4>1, <4>2
    <3>6. ~(p + k <= Len(s) /\ s[p + k].term = l[p + k].term)
      <4>1. ~matchTerm(lg, p + k, ents[k].term)
        BY <3>3 DEF Conflicts
      <4>2. ents[k].term = l[p + k].term /\ k \in Nat /\ p + k # 0
        BY <3>4
      <4>. HIDE DEF k, c
      <4>. QED
        BY <1>4, <4>1, <4>2 DEF matchTerm, TermAt
    <3>. HIDE DEF k, ci, c
    <3>7. ~Agree(s, l, p + k)
      BY <1>1, <3>4, <3>6 DEF Agree
    <3>. DEFINE head == SubSeq(s, 1, ci - 1)
                tail == SubSeq(ents, ci - p, Len(ents))
    <3>8. /\ head \in Seq(Entry) /\ Len(head) = p + k - 1
          /\ \A n \in 1..(p + k - 1) : head[n] = s[n]
      <4>1. p + k - 1 <= Len(s) /\ ci - 1 = p + k - 1 /\ p + k - 1 \in Nat
        BY <1>1, <3>4, <3>5 DEF Agree
      <4>2. 1 \in 1..(Len(s) + 1) /\ p + k - 1 \in 0..Len(s)
        BY <1>1, <4>1
      <4>. QED
        BY <1>1, <4>1, <4>2, SubSeqProperties
    <3>9. /\ tail \in Seq(Entry) /\ Len(tail) = Len(ents) - k + 1
          /\ \A n \in 1..(Len(ents) - k + 1) : tail[n] = ents[k + n - 1]
      <4>1. ci - p = k
        BY <3>4
      <4>. QED
        BY <3>4, <4>1
    <3>10. appended = head \o tail
      <4>1. ci # 0
        BY <3>4
      <4>. QED
        BY <4>1, Zenon DEF appended
    <3>. HIDE DEF head, tail, appended
    <3>11. /\ appended \in Seq(Entry) /\ Len(appended) = p + Len(ents)
           /\ \A n \in 1..(p + Len(ents)) :
                appended[n] = IF n <= p + k - 1 THEN head[n] ELSE tail[n - (p + k - 1)]
      <4>1. Len(head) + Len(tail) = p + Len(ents)
        BY <3>4, <3>8, <3>9
      <4>2. /\ head \o tail \in Seq(Entry) /\ Len(head \o tail) = Len(head) + Len(tail)
            /\ \A n \in 1..(Len(head) + Len(tail)) : (head \o tail)[n] =
                 IF n <= Len(head) THEN head[n] ELSE tail[n - Len(head)]
        <5>1. head \in Seq(Entry) /\ tail \in Seq(Entry)
          BY <3>8, <3>9
        <5>. QED
          BY <5>1, ConcatProperties, ZenonT(30)
      <4>. QED
        BY <3>8, <3>10, <4>1, <4>2
    <3>12. Agree(appended, l, p + Len(ents))
      <4>1. \A n \in 1..(p + Len(ents)) : appended[n] = l[n]
        <5>. TAKE n \in 1..(p + Len(ents))
        <5>1. CASE n <= p + k - 1
          <6>1. n \in 1..(p + k - 1)
            BY <3>4, <5>1
          <6>2. appended[n] = head[n] /\ head[n] = s[n]
            BY <3>8, <3>11, <5>1, <6>1
          <6>3. s[n] = l[n]
            BY <3>5, <6>1 DEF Agree
          <6>. QED
            BY <6>2, <6>3
        <5>2. CASE ~(n <= p + k - 1)
          <6>1. n - (p + k - 1) \in 1..(Len(ents) - k + 1) /\ n - p \in 1..Len(ents)
            BY <3>4, <5>2
          <6>2. appended[n] = ents[k + (n - (p + k - 1)) - 1]
            BY <3>9, <3>11, <5>2, <6>1
          <6>3. k + (n - (p + k - 1)) - 1 = n - p /\ p + (n - p) = n
            BY <3>4
          <6>. QED
            BY <6>1, <6>2, <6>3
        <5>. QED
          BY <5>1, <5>2
      <4>. QED
        BY <1>1, <3>11, <4>1 DEF Agree
    <3>13. Sound(LL, T, appended)
      <4>1. Agree(appended, l, Len(appended)) /\ T <= T
        BY <3>11, <3>12
      <4>. QED
        BY <1>1, <3>11, <4>1, SoundForward
    <3>14. KeepsCommon(s, l, appended)
      <4>. SUFFICES ASSUME NEW d \in Nat, Agree(s, l, d) PROVE Agree(appended, s, d)
        BY DEF KeepsCommon
      <4>1. d < p + k
        BY <1>1, <3>4, <3>7 DEF Agree
      <4>2. d <= Len(appended) /\ d <= Len(s)
        BY <1>1, <3>4, <3>11, <4>1 DEF Agree
      <4>3. \A n \in 1..d : appended[n] = s[n]
        <5>. TAKE n \in 1..d
        <5>1. n \in 1..(p + k - 1) /\ n \in 1..(p + Len(ents))
          BY <3>4, <4>1
        <5>2. appended[n] = head[n] /\ head[n] = s[n]
          BY <3>8, <3>11, <5>1
        <5>. QED
          BY <5>2
      <4>. QED
        BY <4>2, <4>3 DEF Agree
    <3>. QED
      BY <3>11, <3>12, <3>13, <3>14
  <2>. QED
    BY <2>1, <2>2
<1>. HIDE DEF appended, new
<1>9. /\ new.ents \in Seq(Entry) /\ Sound(LL, T, new.ents)
      /\ Agree(new.ents, LL[T], p + Len(ents))
      /\ KeepsCommon(lg.ents, LL[T], new.ents)
  BY <1>7, <1>8
<1>. QED
  BY <1>7, <1>9 DEF new

\* A snapshot that the log does not match replaces nothing that the log has
\* in common with the leader's beyond the snapshot's index.
LEMMA RestoreAgrees ==
    ASSUME NEW LL \in LeaderLogs, NEW T \in Nat, Sound(LL, T, LL[T]),
           NEW lg \in LogType, lg.first <= lg.committed + 1,
           NEW snap \in Seq(Entry), Agree(snap, LL[T], Len(snap)), Len(snap) > lg.committed,
           ~matchTerm(lg, Len(snap), TermAt(snap, Len(snap)))
    PROVE  Sound(LL, T, snap) /\ KeepsCommon(lg.ents, LL[T], snap)
<1>1. lg.ents \in Seq(Entry) /\ LL[T] \in Seq(Entry) /\ lg.first \in Nat /\ lg.committed \in Nat
  BY LogReads DEF LeaderLogs, LogType
<1>2. Sound(LL, T, snap)
  BY <1>1, SoundForward
<1>3. ASSUME NEW k \in Nat, Agree(lg.ents, LL[T], k) PROVE Agree(snap, lg.ents, k)
  <2>1. k < Len(snap)
    <3>. SUFFICES ASSUME k >= Len(snap) PROVE FALSE
      OBVIOUS
    <3>1. Len(snap) \in 1..Len(snap) /\ Len(snap) <= Len(lg.ents)
      BY <1>1, <1>3 DEF Agree
    <3>2. lg.ents[Len(snap)] = snap[Len(snap)]
      BY <1>1, <1>3, <3>1 DEF Agree
    <3>3. matchTerm(lg, Len(snap), TermAt(snap, Len(snap)))
      BY <1>1, <3>1, <3>2 DEF matchTerm, HasTerm, TermAt, lastIndex
    <3>. QED
      BY <3>3
  <2>. QED
    BY <1>1, <1>3, <2>1 DEF Agree
<1>. QED
  BY <1>2, <1>3 DEF KeepsCommon

-----------------------------------------------------------------------------
(* Leaders append, messages are sent and commitments made: nothing of the  *)
(* above is taken back.                                                    *)

Extends(LL, MM) == \A t \in Nat : Agree(MM[t], LL[t], Len(LL[t]))

\* The leaders' logs may grow.
LEMMA LogsGrow ==
    ASSUME NEW LL \in LeaderLogs, NEW MM \in LeaderLogs, Extends(LL, MM),
           NEW s \in Seq(Entry), NEW R, NEW C
    PROVE  /\ \A t, k \in Nat : Agree(s, LL[t], k) => Agree(s, MM[t], k)
           /\ \A term : Sound(LL, term, s) => Sound(MM, term, s)
           /\ \A term \in Nat : \A c \in Nat :
                Backed(LL, C, term, s, c) => Backed(MM, C, term, s, c)
           /\ \A t, index \in Nat : index <= Len(LL[t]) /\ Holds(LL, R, s, t, index)
                => Holds(MM, R, s, t, index)
<1>0. \A t \in Nat : LL[t] \in Seq(Entry) /\ MM[t] \in Seq(Entry)
  BY DEF LeaderLogs
<1>1. \A t \in Nat : Len(LL[t]) <= Len(MM[t]) /\ \A k \in 1..Len(LL[t]) : MM[t][k] = LL[t][k]
  BY <1>0 DEF Extends, Agree
<1>2. ASSUME NEW t \in Nat, NEW k \in Nat, Agree(s, LL[t], k)
      PROVE  Agree(s, MM[t], k)
  <2>1. LL[t] \in Seq(Entry) /\ MM[t] \in Seq(Entry) /\ k <= Len(s) /\ k <= Len(LL[t])
    BY <1>0, <1>2 DEF Agree
  <2>2. Len(LL[t]) \in Nat /\ Len(MM[t]) \in Nat /\ Len(LL[t]) <= Len(MM[t])
    BY <1>1, <2>1
  <2>3. \A n \in 1..k : MM[t][n] = LL[t][n]
    BY <1>1, <2>1, <2>2
  <2>. QED
    BY <1>2, <2>1, <2>2, <2>3 DEF Agree
<1>3. \A term : Sound(LL, term, s) => Sound(MM, term, s)
  <2>1. \A k \in 1..Len(s) : s[k].term \in Nat /\ k \in Nat
    BY EntryTerm
  <2>. QED
    BY <1>2, <2>1 DEF Sound
<1>4. ASSUME NEW term \in Nat, NEW c \in Nat, Backed(LL, C, term, s, c)
      PROVE  Backed(MM, C, term, s, c)
  <2>1. CASE c = 0
    BY <2>1 DEF Backed
  <2>2. CASE c # 0
    <3>1. PICK t \in 0..term : \E k \in 1..Len(LL[t]) :
            /\ <<t, k>> \in C /\ LL[t][k].term = t
            /\ c <= k /\ Agree(s, LL[t], c)
      BY <1>4, <2>2 DEF Backed
    <3>2. PICK k \in 1..Len(LL[t]) :
            /\ <<t, k>> \in C /\ LL[t][k].term = t
            /\ c <= k /\ Agree(s, LL[t], c)
      BY <3>1
    <3>3. t \in Nat
      OBVIOUS
    <3>4. k \in 1..Len(MM[t]) /\ MM[t][k] = LL[t][k] /\ Agree(s, MM[t], c)
      BY <1>0, <1>1, <1>2, <3>2, <3>3
    <3>. QED
      BY <3>2, <3>4 DEF Backed
  <2>. QED
    BY <2>1, <2>2
<1>5. ASSUME NEW t \in Nat, NEW index \in Nat, index <= Len(LL[t]), Holds(LL, R, s, t, index)
      PROVE  Holds(MM, R, s, t, index)
  <2>1. \A k \in 1..index : MM[t][k] = LL[t][k] /\ k \in Nat
    BY <1>0, <1>1, <1>5
  <2>. QED
    BY <1>2, <1>5, <2>1 DEF Holds
<1>. QED
  BY <1>2, <1>3, <1>4, <1>5

\* So what an ack says stays true, and so do the leader's messages.
LEMMA AckGrows ==
    ASSUME NEW LL \in LeaderLogs, NEW MM \in LeaderLogs, Extends(LL, MM),
           NEW s \in Seq(Entry), NEW R, NEW term \in Nat, NEW m,
           m.term \in Nat, m.index \in Nat, Kept(LL, R, term, s, m)
    PROVE  Kept(MM, R, term, s, m)
<1>1. /\ m.term <= term /\ m.index <= Len(LL[m.term])
      /\ m.term = term => Agree(s, LL[term], m.index)
      /\ Holds(LL, R, s, m.term, m.index)
  BY DEF Kept
<1>2. m.index <= Len(MM[m.term])
  <2>1. LL[m.term] \in Seq(Entry) /\ MM[m.term] \in Seq(Entry)
    BY DEF LeaderLogs
  <2>2. Len(LL[m.term]) <= Len(MM[m.term])
    BY DEF Extends, Agree
  <2>. QED
    BY <1>1, <2>1, <2>2
<1>3. Holds(MM, R, s, m.term, m.index)
  BY <1>1, LogsGrow
<1>4. m.term = term => Agree(s, MM[term], m.index)
  BY <1>1, LogsGrow
<1>. QED
  BY <1>1, <1>2, <1>3, <1>4 DEF Kept

\* The fields of a leader's message that the above speaks of.
LEMMA LeaderFields ==
    ASSUME NEW m \in Message
    PROVE  /\ m.type = "MsgApp" => /\ m.term \in Nat /\ m.index \in Nat /\ m.logTerm \in Nat
                                   /\ m.entries \in Seq(Entry) /\ m.commit \in Nat
           /\ m.type = "MsgSnap" => m.term \in Nat /\ m.snapshot \in Seq(Entry)
           /\ m.type = "MsgHeartbeat" => m.term \in Nat /\ m.commit \in Nat
           /\ m.type = "MsgAppResp" => m.term \in Nat /\ m.index \in Nat /\ m.reject \in BOOLEAN
           /\ m.type = "MsgVote" => m.term \in Nat /\ m.index \in Nat /\ m.logTerm \in Nat
           /\ m.from \in Server /\ m.to \in Server
<1>. QED
  BY DEF Message, VoteMsg, VoteRespMsg, AppMsg, AppRespMsg, SnapMsg, HeartbeatMsg,
         PlainMsg, StorageMsg, PropMsg

\* A message of a leader stays true when its log grows.
LEMMA MsgGrows ==
    ASSUME NEW LL \in LeaderLogs, NEW MM \in LeaderLogs, Extends(LL, MM),
           NEW sent, NEW m \in Message, MsgTrue(LL, sent, m)
    PROVE  MsgTrue(MM, sent, m)
<1>0. \A t \in Nat : LL[t] \in Seq(Entry) /\ MM[t] \in Seq(Entry)
  BY DEF LeaderLogs
<1>1. \A t \in Nat : Len(LL[t]) <= Len(MM[t]) /\ \A k \in 1..Len(LL[t]) : MM[t][k] = LL[t][k]
  BY <1>0 DEF Extends, Agree
<1>. DEFINE C == CertifiedBy(sent)
<1>. HIDE DEF C
<1>2. ASSUME NEW t \in Nat, NEW c \in Nat, Backed(LL, C, t, LL[t], c)
      PROVE  Backed(MM, C, t, MM[t], c)
  <2>1. Backed(MM, C, t, LL[t], c)
    BY <1>0, <1>2, LogsGrow
  <2>2. c <= Len(LL[t])
    BY <1>0, <1>2, BackedInRange
  <2>3. Agree(MM[t], LL[t], c)
    BY <1>0, <1>1, <2>2 DEF Agree
  <2>4. t <= t /\ c <= c
    OBVIOUS
  <2>. QED
    BY <1>0, <2>1, <2>3, <2>4, BackedMoves
<1>3. CASE m.type = "MsgApp"
  <2>1. /\ m.term \in Nat /\ m.index \in Nat /\ m.entries \in Seq(Entry) /\ m.commit \in Nat
        /\ AppTrue(LL, sent, m)
    BY <1>3, LeaderFields DEF MsgTrue
  <2>2. /\ m.index + Len(m.entries) <= Len(LL[m.term])
        /\ m.logTerm = TermAt(LL[m.term], m.index)
        /\ \A n \in 1..Len(m.entries) : m.entries[n] = LL[m.term][m.index + n]
        /\ Backed(LL, C, m.term, LL[m.term], m.commit)
    BY <2>1 DEF AppTrue, C
  <2>3. Backed(MM, C, m.term, MM[m.term], m.commit)
    BY <1>2, <2>1, <2>2
  <2>4. m.index + Len(m.entries) <= Len(MM[m.term])
    BY <1>0, <1>1, <2>1, <2>2
  <2>5. m.logTerm = TermAt(MM[m.term], m.index)
    BY <1>0, <1>1, <2>1, <2>2 DEF TermAt
  <2>6. \A n \in 1..Len(m.entries) : m.entries[n] = MM[m.term][m.index + n]
    <3>1. \A n \in 1..Len(m.entries) : m.index + n \in 1..Len(LL[m.term])
      BY <1>0, <2>1, <2>2
    <3>. QED
      BY <1>1, <2>1, <2>2, <3>1
  <2>. QED
    BY <1>3, <2>3, <2>4, <2>5, <2>6 DEF MsgTrue, AppTrue, C
<1>4. CASE m.type = "MsgSnap"
  <2>1. /\ m.term \in Nat /\ m.snapshot \in Seq(Entry) /\ Len(m.snapshot) \in Nat
        /\ Agree(m.snapshot, LL[m.term], Len(m.snapshot))
        /\ Backed(LL, C, m.term, m.snapshot, Len(m.snapshot))
    BY <1>4, LeaderFields DEF MsgTrue, SnapTrue, C
  <2>2. /\ Agree(m.snapshot, MM[m.term], Len(m.snapshot))
        /\ Backed(MM, C, m.term, m.snapshot, Len(m.snapshot))
    BY <2>1, LogsGrow
  <2>. QED
    BY <1>4, <2>2 DEF MsgTrue, SnapTrue, C
<1>5. CASE m.type = "MsgHeartbeat"
  <2>1. m.term \in Nat /\ m.commit \in Nat
    BY <1>5, LeaderFields
  <2>. QED
    BY <1>2, <1>5, <2>1 DEF MsgTrue, HeartTrue, C
<1>. QED
  BY <1>3, <1>4, <1>5 DEF MsgTrue

\* Commitments are not taken back when more messages are out.
LEMMA SentGrows ==
    ASSUME NEW sent, NEW more, sent \subseteq more
    PROVE  /\ \A t, k : AckedAt(sent, t, k) \subseteq AckedAt(more, t, k)
           /\ CertifiedBy(sent) \subseteq CertifiedBy(more)
           /\ \A LL, term, s, c : Backed(LL, CertifiedBy(sent), term, s, c)
                => Backed(LL, CertifiedBy(more), term, s, c)
           /\ \A LL, m : MsgTrue(LL, sent, m) => MsgTrue(LL, more, m)
<1>1. \A t, k : AckedAt(sent, t, k) \subseteq AckedAt(more, t, k)
  BY DEF AckedAt
<1>2. CertifiedBy(sent) \subseteq CertifiedBy(more)
  BY <1>1, QuorumGrows DEF CertifiedBy
<1>3. \A LL, term, s, c : Backed(LL, CertifiedBy(sent), term, s, c)
        => Backed(LL, CertifiedBy(more), term, s, c)
  BY <1>2 DEF Backed
<1>4. \A LL, m : MsgTrue(LL, sent, m) => MsgTrue(LL, more, m)
  BY <1>1, <1>3 DEF MsgTrue, AppTrue, SnapTrue, HeartTrue
<1>. QED
  BY <1>1, <1>2, <1>3, <1>4

\* Nor are refutations.
LEMMA RefutedGrows ==
    ASSUME NEW R, NEW W, R \subseteq W
    PROVE  /\ \A LL, s, t, index : Holds(LL, R, s, t, index) => Holds(LL, W, s, t, index)
           /\ \A LL, term, s, m : Kept(LL, R, term, s, m) => Kept(LL, W, term, s, m)
           /\ \A LL : Complete(LL, R) => Complete(LL, W)
<1>1. \A LL, s, t, index : Holds(LL, R, s, t, index) => Holds(LL, W, s, t, index)
  BY DEF Holds
<1>. QED
  BY <1>1 DEF Kept, Complete

-----------------------------------------------------------------------------
(* The invariant.                                                          *)

\* The messages that the append thread of server i holds, and all of i's;
\* the acknowledgements that i made among them.
Queued(i)     == UNION {appendQ[i][k].resps : k \in 1..Len(appendQ[i])}
Made(i)       == net \cup Queued(i) \cup pend[i]
Acks(msgs, i) == {m \in msgs : Ack(m) /\ m.from = i}

(***************************************************************************)
(* Without asynchronous writes there is one write at a time, so that what  *)
(* waits for it was made after the write before it. A server asks for      *)
(* votes in a term only once, and all who know that it did, or that it     *)
(* won, know it from a disk that is in that term.                          *)
(***************************************************************************)
OwnedBy(i) ==
    /\ Len(appendQ[i]) <= 1
    /\ \A m \in Queued(i) \cup pend[i] : Ack(m) => m.from = i /\ m.term >= disk[i].Term
    /\ \A m \in pend[i] : Ack(m) => \A k \in 1..Len(appendQ[i]) : m.term >= appendQ[i][k].Term
    /\ \A m \in pend[i] : m.type = "MsgVote" => m.from = i /\ m.term <= raft[i].Term
    /\ \A k \in 1..Len(appendQ[i]) : \A m \in appendQ[i][k].resps :
        m.type = "MsgVote" => m.from = i /\ m.term <= appendQ[i][k].Term

AsksOnce(x) ==
    raft[x].state = "StateCandidate" =>
        /\ <<raft[x].Term, x>> \notin elected
        /\ \A m \in Made(x) :
            m.type = "MsgVote" /\ m.from = x /\ m.term = raft[x].Term =>
                m.index = lastIndex(raftLog[x]) /\ m.logTerm = lastTerm(raftLog[x])

KnownFromDisk ==
    /\ \A m \in net : m.type = "MsgVote" => m.term <= disk[m.from].Term
    /\ \A e \in elected : e[1] <= disk[e[2]].Term
    /\ \A j \in Server : \A g \in Granted(j) : g.to # j => g.term <= disk[g.to].Term

SyncInv == (\A i \in Server : OwnedBy(i)) /\ (\A i \in Server : AsksOnce(i)) /\ KnownFromDisk

\* Commit indexes only grow on the way back from the disk to raft, and the
\* log begins at or below them.
RangeInv ==
    \A i \in Server :
        /\ raftLog[i].first <= raftLog[i].committed + 1
        /\ disk[i].first <= disk[i].committed + 1
        /\ disk[i].committed <= raftLog[i].committed
        /\ Len(disk[i].snapshot) <= disk[i].committed
        /\ \A k \in 1..Len(appendQ[i]) :
            /\ disk[i].committed <= appendQ[i][k].committed
            /\ appendQ[i][k].committed <= raftLog[i].committed
            /\ Len(appendQ[i][k].snapshot) <= appendQ[i][k].committed

\* Every log, in memory, on its way to the disk and there, is sound, and its
\* commit index and its snapshot are backed by a quorum.
LogTrue(LL, C, term, s, c) == Sound(LL, term, s) /\ Backed(LL, C, term, s, c)
SavedTrue(LL, C, d) ==
    /\ LogTrue(LL, C, d.Term, d.ents, d.committed)
    /\ Backed(LL, C, d.Term, d.snapshot, Len(d.snapshot))
LogsTrue(LL) ==
    \A i \in Server :
        /\ LogTrue(LL, CertifiedBy(net), raft[i].Term, raftLog[i].ents, raftLog[i].committed)
        /\ SavedTrue(LL, CertifiedBy(net), disk[i])
        /\ \A k \in 1..Len(appendQ[i]) : SavedTrue(LL, CertifiedBy(net), appendQ[i][k])

MsgsTrue(LL) ==
    /\ \A m \in net : MsgTrue(LL, net, m)
    /\ \A i \in Server : \A m \in Queued(i) \cup pend[i] : MsgTrue(LL, net, m)

\* The acks that are out hold on disk, and those that a write lets out hold
\* in what is written.
AcksKept(LL) ==
    \A i \in Server :
        /\ \A m \in Acks(net, i) : Kept(LL, RefutedBy(net, disk), disk[i].Term, disk[i].ents, m)
        /\ \A m \in Acks(net \cup Queued(i), i) : \A k \in 1..Len(appendQ[i]) :
            Kept(LL, RefutedBy(net, disk), appendQ[i][k].Term, appendQ[i][k].ents, m)
        /\ \A m \in Acks(Made(i), i) :
            Kept(LL, RefutedBy(net, disk), raft[i].Term, raftLog[i].ents, m)

\* Whoever granted a candidate its vote has acknowledged nothing, in earlier
\* terms, that can be committed and that the candidate does not have.
Informed(LL) ==
    \A x, j \in Server : raft[x].state = "StateCandidate" =>
        \A g \in Granted(j) : g.to = x /\ g.term = raft[x].Term =>
            \A m \in Acks(Made(j), j) : m.term < g.term =>
                Holds(LL, RefutedBy(net, disk), raftLog[x].ents, m.term, m.index)

\* A leader's Match is what the follower acknowledged. Its own starts as its
\* last index, where it has made no entry yet.
MatchOf(LL, sent, i, term, prs) ==
    \A j \in Server :
        LET match == prs[j].Match
        IN  \/ match = 0 \/ j \in AckedAt(sent, term, match)
            \/ /\ j = i /\ match <= Len(LL[term])
               /\ \A n \in 1..match : LL[term][n].term < term
MatchTrue(LL) ==
    \A i \in Server : raft[i].state = "StateLeader" =>
        MatchOf(LL, net, i, raft[i].Term, trk[i])

LeadersSound(LL) == \A t \in Nat : Sound(LL, t, LL[t])

Facts(LL) ==
    LeadersSound(LL) /\ LogsTrue(LL) /\ MsgsTrue(LL) /\ AcksKept(LL) /\ Informed(LL) /\ MatchTrue(LL)

\* LL is the history of the leaders' logs.
LeadersOf(LL) ==
    /\ \A i \in Server : raft[i].state = "StateLeader" => raftLog[i].ents = LL[raft[i].Term]
    /\ \A t \in Nat : LL[t] # << >> <=> \E x \in Server : <<t, x>> \in elected

LogInv ==
    /\ SyncInv /\ RangeInv
    /\ \E LL \in LeaderLogs :
        Facts(LL) /\ LeadersOf(LL) /\ Complete(LL, RefutedBy(net, disk))

-----------------------------------------------------------------------------
(* Types of what it speaks of.                                             *)

\* The messages of a server are messages, its acks have a term and an index,
\* and all its logs are logs.
LEMMA MadeTypes ==
    ASSUME IndType, NEW i \in Server
    PROVE  /\ Made(i) \subseteq Message /\ Queued(i) \subseteq Message
           /\ net \subseteq Message /\ pend[i] \subseteq Message
           /\ \A m \in Acks(Made(i), i) : m.term \in Nat /\ m.index \in Nat
<1>1. net \subseteq Message /\ pend[i] \subseteq Message /\ appendQ[i] \in Seq(AppendItem)
  BY DEF IndType, TypeOK
<1>2. \A k \in 1..Len(appendQ[i]) : appendQ[i][k].resps \subseteq Message
  BY TermFacts
<1>3. Queued(i) \subseteq Message
  BY <1>2 DEF Queued
<1>4. \A m \in Made(i) : m \in Message
  BY <1>1, <1>3 DEF Made
<1>5. \A m \in Acks(Made(i), i) : m \in Message /\ m.type = "MsgAppResp"
  BY <1>4 DEF Acks, Ack
<1>. QED
  BY <1>1, <1>3, <1>4, <1>5, LeaderFields

\* Logs and terms of one server.
LEMMA LogTypes ==
    ASSUME IndType, NEW i \in Server
    PROVE  /\ raft[i].Term \in Nat /\ raftLog[i] \in LogType
           /\ raftLog[i].ents \in Seq(Entry) /\ raftLog[i].committed \in Nat
           /\ raftLog[i].first \in Nat /\ raftLog[i].snap \in Nat
           /\ disk[i].Term \in Nat /\ disk[i].ents \in Seq(Entry)
           /\ disk[i].committed \in Nat /\ disk[i].first \in Nat
           /\ disk[i].snapshot \in Seq(Entry) /\ Len(disk[i].snapshot) \in Nat
           /\ appendQ[i] \in Seq(AppendItem) /\ Len(appendQ[i]) \in Nat
           /\ \A k \in 1..Len(appendQ[i]) :
                /\ appendQ[i][k].Term \in Nat /\ appendQ[i][k].ents \in Seq(Entry)
                /\ appendQ[i][k].committed \in Nat /\ appendQ[i][k].snapshot \in Seq(Entry)
                /\ appendQ[i][k].resps \subseteq Message
<1>1. raft[i] \in RaftType /\ raftLog[i] \in LogType /\ disk[i] \in DiskType
      /\ appendQ[i] \in Seq(AppendItem)
  BY DEF IndType, TypeOK
<1>2. \A k \in 1..Len(appendQ[i]) : appendQ[i][k] \in AppendItem
  BY <1>1
<1>3. disk[i].snapshot \in Seq(Entry)
  BY <1>1 DEF DiskType
<1>4. Len(disk[i].snapshot) \in Nat /\ Len(appendQ[i]) \in Nat
  BY <1>1, <1>3
<1>. QED
  BY <1>1, <1>2, <1>3, <1>4 DEF RaftType, LogType, DiskType, AppendItem

\* Terms only grow on the way from the disk to raft.
LEMMA TermsForward ==
    ASSUME IndType, ElectionInv, NEW i \in Server
    PROVE  /\ disk[i].Term <= raft[i].Term
           /\ \A k \in 1..Len(appendQ[i]) :
                disk[i].Term <= appendQ[i][k].Term /\ appendQ[i][k].Term <= raft[i].Term
<1>1. /\ VoteForward(disk[i], raft[i])
      /\ \A k \in 1..Len(appendQ[i]) :
            VoteForward(disk[i], appendQ[i][k]) /\ VoteForward(appendQ[i][k], raft[i])
  BY DEF ElectionInv, QueueForward
<1>2. /\ raft[i].Term \in Nat /\ disk[i].Term \in Nat
      /\ \A k \in 1..Len(appendQ[i]) : appendQ[i][k].Term \in Nat
  BY LogTypes
<1>. QED
  BY <1>1, <1>2 DEF VoteForward

\* A grant of server j is of a term that j has reached.
LEMMA GrantTerm ==
    ASSUME IndType, ElectionInv, NEW j \in Server, NEW g \in Granted(j)
    PROVE  /\ g \in Message /\ Grant(g) /\ g.from = j
           /\ g.term \in Nat /\ g.to \in Server /\ g.term <= raft[j].Term
<1>1. /\ g \in Message /\ Grant(g) /\ g.from = j /\ g.to \in Server /\ g.term \in Nat
      /\ Backs(raft[j], g)
  BY GrantedBacked DEF ElectionInv
<1>. QED
  BY <1>1, LogTypes DEF Backs

-----------------------------------------------------------------------------
(* A leader's log grows.                                                   *)

\* What is known of the state stays true.
LEMMA FactsGrow ==
    ASSUME IndType, NEW LL \in LeaderLogs, NEW MM \in LeaderLogs, Extends(LL, MM),
           Facts(LL), LeadersSound(MM)
    PROVE  Facts(MM)
<1>. DEFINE C == CertifiedBy(net)
            R == RefutedBy(net, disk)
<1>. HIDE DEF C, R
<1>1. LogsTrue(MM)
  <2>. SUFFICES ASSUME NEW i \in Server
                PROVE  /\ LogTrue(MM, C, raft[i].Term, raftLog[i].ents, raftLog[i].committed)
                       /\ SavedTrue(MM, C, disk[i])
                       /\ \A k \in 1..Len(appendQ[i]) : SavedTrue(MM, C, appendQ[i][k])
    BY DEF LogsTrue, C
  <2>1. ASSUME NEW term \in Nat, NEW s \in Seq(Entry), NEW c \in Nat, LogTrue(LL, C, term, s, c)
        PROVE  LogTrue(MM, C, term, s, c)
    BY <2>1, LogsGrow DEF LogTrue
  <2>2. ASSUME NEW term \in Nat, NEW s \in Seq(Entry), Backed(LL, C, term, s, Len(s))
        PROVE  Backed(MM, C, term, s, Len(s))
    <3>1. Len(s) \in Nat
      OBVIOUS
    <3>. QED
      BY <2>2, <3>1, LogsGrow
  <2>3. LogTrue(MM, C, raft[i].Term, raftLog[i].ents, raftLog[i].committed)
    BY <2>1, LogTypes DEF Facts, LogsTrue, C
  <2>4. SavedTrue(MM, C, disk[i])
    BY <2>1, <2>2, LogTypes DEF Facts, LogsTrue, SavedTrue, C
  <2>5. \A k \in 1..Len(appendQ[i]) : SavedTrue(MM, C, appendQ[i][k])
    BY <2>1, <2>2, LogTypes DEF Facts, LogsTrue, SavedTrue, C
  <2>. QED
    BY <2>3, <2>4, <2>5
<1>2. MsgsTrue(MM)
  <2>1. \A m \in Message : MsgTrue(LL, net, m) => MsgTrue(MM, net, m)
    BY MsgGrows
  <2>. QED
    BY <2>1, MadeTypes DEF MsgsTrue, Facts, IndType, TypeOK
<1>3. AcksKept(MM)
  <2>. SUFFICES ASSUME NEW i \in Server
                PROVE  /\ \A m \in Acks(net, i) : Kept(MM, R, disk[i].Term, disk[i].ents, m)
                       /\ \A m \in Acks(net \cup Queued(i), i) : \A k \in 1..Len(appendQ[i]) :
                            Kept(MM, R, appendQ[i][k].Term, appendQ[i][k].ents, m)
                       /\ \A m \in Acks(Made(i), i) :
                            Kept(MM, R, raft[i].Term, raftLog[i].ents, m)
    BY DEF AcksKept, R
  <2>1. \A s \in Seq(Entry), term \in Nat : \A m \in Acks(Made(i), i) :
            Kept(LL, R, term, s, m) => Kept(MM, R, term, s, m)
    BY MadeTypes, AckGrows
  <2>2. Acks(net, i) \subseteq Acks(Made(i), i)
        /\ Acks(net \cup Queued(i), i) \subseteq Acks(Made(i), i)
    BY DEF Acks, Made
  <2>3. \A m \in Acks(net, i) : Kept(MM, R, disk[i].Term, disk[i].ents, m)
    BY <2>1, <2>2, LogTypes DEF Facts, AcksKept, R
  <2>4. \A m \in Acks(net \cup Queued(i), i) : \A k \in 1..Len(appendQ[i]) :
            Kept(MM, R, appendQ[i][k].Term, appendQ[i][k].ents, m)
    BY <2>1, <2>2, LogTypes DEF Facts, AcksKept, R
  <2>5. \A m \in Acks(Made(i), i) : Kept(MM, R, raft[i].Term, raftLog[i].ents, m)
    BY <2>1, LogTypes DEF Facts, AcksKept, R
  <2>. QED
    BY <2>3, <2>4, <2>5
<1>4. Informed(MM)
  <2>. SUFFICES ASSUME NEW x \in Server, NEW j \in Server, raft[x].state = "StateCandidate",
                       NEW g \in Granted(j), g.to = x /\ g.term = raft[x].Term,
                       NEW m \in Acks(Made(j), j), m.term < g.term
                PROVE  Holds(MM, R, raftLog[x].ents, m.term, m.index)
    BY DEF Informed, R
  <2>1. Holds(LL, R, raftLog[x].ents, m.term, m.index)
    BY DEF Facts, Informed, R
  <2>2. m.term \in Nat /\ m.index \in Nat /\ m.index <= Len(LL[m.term])
    BY MadeTypes DEF Facts, AcksKept, Kept
  <2>. QED
    BY <2>1, <2>2, LogTypes, LogsGrow
<1>5. MatchTrue(MM)
  <2>. SUFFICES ASSUME NEW i \in Server, raft[i].state = "StateLeader"
                PROVE  MatchOf(MM, net, i, raft[i].Term, trk[i])
    BY DEF MatchTrue
  <2>1. MatchOf(LL, net, i, raft[i].Term, trk[i])
    BY DEF Facts, MatchTrue
  <2>2. /\ Len(LL[raft[i].Term]) \in Nat /\ Len(MM[raft[i].Term]) \in Nat
        /\ Len(LL[raft[i].Term]) <= Len(MM[raft[i].Term])
        /\ \A n \in 1..Len(LL[raft[i].Term]) : MM[raft[i].Term][n] = LL[raft[i].Term][n]
    <3>1. raft[i].Term \in Nat
      BY LogTypes
    <3>2. LL[raft[i].Term] \in Seq(Entry) /\ MM[raft[i].Term] \in Seq(Entry)
      BY <3>1 DEF LeaderLogs
    <3>3. Agree(MM[raft[i].Term], LL[raft[i].Term], Len(LL[raft[i].Term]))
      BY <3>1 DEF Extends
    <3>. QED
      BY <3>2, <3>3 DEF Agree
  <2>3. \A j \in Server : trk[i][j].Match \in Nat
    BY DEF IndType, TypeOK, ProgressType
  <2>. QED
    BY <2>1, <2>2, <2>3 DEF MatchOf
<1>. QED
  BY <1>1, <1>2, <1>3, <1>4, <1>5 DEF Facts

(***************************************************************************)
(* Leaders stay complete. What the leader of T adds cannot be committed in *)
(* T once a later leader is elected, since the servers that elected that   *)
(* one are beyond T and have not acknowledged it.                          *)
(***************************************************************************)
LEMMA CompleteGrows ==
    ASSUME IndType, ElectionInv, NEW LL \in LeaderLogs, Facts(LL), LeadersOf(LL),
           Complete(LL, RefutedBy(net, disk)),
           NEW T \in Nat, NEW s \in Seq(Entry), Agree(s, LL[T], Len(LL[T])),
           \A t \in Nat : t < T => Holds(LL, RefutedBy(net, disk), s, t, Len(LL[t]))
    PROVE  Complete([LL EXCEPT ![T] = s], RefutedBy(net, disk))
<1>. DEFINE MM == [LL EXCEPT ![T] = s]
            R == RefutedBy(net, disk)
<1>. SUFFICES ASSUME NEW t \in Nat, NEW u \in Nat, t < u, MM[u] # << >>,
                     NEW k \in 1..Len(MM[t]), MM[t][k].term = t, <<t, k>> \notin R
              PROVE  Agree(MM[u], MM[t], k)
  BY DEF Complete, Holds
<1>1. \A v \in Nat : LL[v] \in Seq(Entry) /\ MM[v] = IF v = T THEN s ELSE LL[v]
  BY DEF LeaderLogs
<1>. HIDE DEF MM
<1>2. CASE t # T /\ u # T
  <2>1. Holds(LL, R, LL[u], t, Len(LL[t]))
    BY <1>1, <1>2 DEF Complete
  <2>. QED
    BY <1>1, <1>2, <2>1 DEF Holds
<1>3. CASE u = T
  <2>1. Holds(LL, R, s, t, Len(LL[t]))
    BY <1>3
  <2>. QED
    BY <1>1, <1>3, <2>1 DEF Holds
<1>4. CASE t = T
  <2>1. LL[u] # << >> /\ MM[u] = LL[u] /\ MM[t] = s
    BY <1>1, <1>4
  <2>2. CASE k <= Len(LL[T])
    <3>1. k \in 1..Len(LL[T]) /\ s[k] = LL[T][k]
      BY <1>1, <2>2 DEF Agree
    <3>2. Holds(LL, R, LL[u], T, Len(LL[T]))
      BY <1>4, <2>1 DEF Complete
    <3>3. Agree(LL[u], LL[T], k)
      BY <1>4, <2>1, <3>1, <3>2 DEF Holds
    <3>. QED
      BY <1>1, <1>4, <2>1, <2>2, <3>3 DEF Agree
  <2>3. CASE k > Len(LL[T])
    <3>1. PICK x \in Server : <<u, x>> \in elected
      BY <2>1 DEF LeadersOf
    <3>2. IsJointQuorum(Config, Granters(u, x)) /\ Granters(u, x) \in SUBSET Server
      BY <3>1 DEF ElectionInv, ElectedByQuorum, Granters
    <3>3. ASSUME NEW j \in Granters(u, x)
          PROVE  disk[j].Term > T /\ j \notin AckedAt(net, T, k)
      <4>1. PICK g \in net : Grant(g) /\ g.from = j /\ g.to = x /\ g.term = u
        BY <3>3 DEF Granters
      <4>2. Backs(disk[j], g) /\ j \in Server
        BY <3>3, <4>1 DEF ElectionInv, GrantsBacked, Granters
      <4>3. disk[j].Term > T
        BY <1>4, <4>1, <4>2, LogTypes DEF Backs
      <4>4. ASSUME NEW m \in net, Ack(m), m.from = j, m.term = T PROVE m.index < k
        <5>1. m \in Acks(net, j) /\ m \in Acks(Made(j), j)
          BY <4>4 DEF Acks, Made
        <5>2. m.index <= Len(LL[T])
          BY <4>2, <4>4, <5>1 DEF Facts, AcksKept, Kept
        <5>3. m.index \in Nat
          BY <4>2, <5>1, MadeTypes
        <5>. QED
          BY <1>1, <2>3, <5>2, <5>3
      <4>5. \A m \in net : Ack(m) /\ m.from = j => m.index \in Nat
        BY <4>2, MadeTypes DEF Acks, Made
      <4>. QED
        BY <4>3, <4>4, <4>5 DEF AckedAt
    <3>4. <<T, k>> \in R
      BY <3>2, <3>3 DEF RefutedBy
    <3>. QED
      BY <1>4, <3>4
  <2>. QED
    BY <1>1, <2>2, <2>3
<1>. QED
  BY <1>2, <1>3, <1>4

-----------------------------------------------------------------------------
(***************************************************************************)
(* The steps of raft.Step and of the timers change what one server has in  *)
(* memory, and what waits for its disk. Server i may go on with the record *)
(* r and the log lg if its log remains true and keeps what i acknowledged, *)
(***************************************************************************)
GoesOn(LL, i, r, lg) ==
    /\ r.Term >= raft[i].Term
    /\ LogTrue(LL, CertifiedBy(net), r.Term, lg.ents, lg.committed)
    /\ lg.committed >= raftLog[i].committed /\ lg.first <= lg.committed + 1
    /\ \A m \in Acks(Made(i), i) : Kept(LL, RefutedBy(net, disk), r.Term, lg.ents, m)
    /\ r.state = "StateCandidate" =>
        \/ r.Term > raft[i].Term
        \/ /\ raft[i].state = "StateCandidate" /\ r.Term = raft[i].Term
           /\ lg.ents = raftLog[i].ents

\* and it may send messages that are true, acks of what it has, requests for
\* votes with the end of its log, and votes for candidates that have all that
\* it acknowledged.
MaySend(LL, i, r, lg, m) ==
    /\ MsgTrue(LL, net, m)
    /\ Ack(m) => m.from = i /\ m.term = r.Term /\ Agree(lg.ents, LL[r.Term], m.index)
    /\ m.type = "MsgVote" => /\ m.from = i /\ m.term = r.Term
                             /\ m.index = lastIndex(lg) /\ m.logTerm = lastTerm(lg)
    /\ Grant(m) => m.from = i /\ m.term = r.Term
    /\ Grant(m) /\ m.to # i =>
        /\ m.term <= disk[m.to].Term
        /\ raft[m.to].state = "StateCandidate" /\ raft[m.to].Term = m.term =>
            \A a \in Acks(Made(i), i) : a.term < m.term =>
                Holds(LL, RefutedBy(net, disk), raftLog[m.to].ents, a.term, a.index)

\* Whoever becomes leader is no candidate any more, and won with its disk in
\* the term.
Elects(i, r, won) ==
    \A e \in won : e \notin elected =>
        e[2] = i /\ e[1] <= disk[i].Term /\ r.state = "StateLeader"

\* Together these preserve the invariant, for the leaders' logs LL.
LEMMA MemStep ==
    ASSUME IndType, IndType', ElectionInv, SyncInv, RangeInv,
           NEW LL \in LeaderLogs, Facts(LL),
           NEW i \in Server, NEW r, NEW lg, NEW new,
           raft' = [raft EXCEPT ![i] = r], raftLog' = [raftLog EXCEPT ![i] = lg],
           pend' = [pend EXCEPT ![i] = @ \cup new], UNCHANGED <<disk, appendQ, net>>,
           \A j \in Server : j # i => trk'[j] = trk[j],
           GoesOn(LL, i, r, lg), \A m \in new : MaySend(LL, i, r, lg, m),
           r.state = "StateLeader" => MatchOf(LL, net, i, r.Term, trk'[i]),
           Elects(i, r, elected')
    PROVE  Facts(LL)' /\ SyncInv' /\ RangeInv'
<1>. DEFINE C == CertifiedBy(net)
            R == RefutedBy(net, disk)
<1>1. /\ \A j \in Server : raft'[j] = IF j = i THEN r ELSE raft[j]
      /\ \A j \in Server : raftLog'[j] = IF j = i THEN lg ELSE raftLog[j]
      /\ \A j \in Server : pend'[j] = IF j = i THEN pend[i] \cup new ELSE pend[j]
      /\ disk' = disk /\ appendQ' = appendQ /\ net' = net
  BY DEF IndType, TypeOK
<1>2. /\ \A j \in Server : Queued(j)' = Queued(j)
      /\ \A j \in Server : j # i => Made(j)' = Made(j)
      /\ Made(i)' = Made(i) \cup new
  BY <1>1 DEF Made, Queued
<1>3. /\ \A j \in Server : j # i => Granted(j)' = Granted(j)
      /\ \A g \in Granted(i)' : g \in Granted(i) \/ (g \in new /\ Grant(g))
  BY <1>1 DEF Granted
<1>4. /\ r.Term \in Nat /\ lg \in LogType /\ lg.ents \in Seq(Entry) /\ lg.committed \in Nat
      /\ lg.first \in Nat /\ raft[i].Term \in Nat /\ raft[i].Term <= r.Term
  <2>1. /\ raft'[i].Term \in Nat /\ raftLog'[i] \in LogType
        /\ raftLog'[i].ents \in Seq(Entry) /\ raftLog'[i].committed \in Nat
        /\ raftLog'[i].first \in Nat
    <3>1. raft'[i] \in RaftType /\ raftLog'[i] \in LogType
      BY DEF IndType, TypeOK
    <3>. QED
      BY <3>1 DEF RaftType, LogType
  <2>2. raft[i].Term \in Nat
    BY LogTypes
  <2>. QED
    BY <1>1, <2>1, <2>2 DEF GoesOn
<1>5. \A m \in new : m \in Message /\ (Ack(m) => m.term \in Nat /\ m.index \in Nat)
  <2>1. new \subseteq Message
    BY <1>1 DEF IndType, TypeOK
  <2>. QED
    BY <2>1, LeaderFields DEF Ack
<1>6. LogsTrue(LL)'
  <2>. SUFFICES ASSUME NEW j \in Server
                PROVE  LogTrue(LL, C, raft'[j].Term, raftLog'[j].ents, raftLog'[j].committed)
    BY <1>1 DEF Facts, LogsTrue
  <2>. HIDE DEF C
  <2>1. CASE j = i
    BY <1>1, <2>1 DEF GoesOn, C
  <2>2. CASE j # i
    BY <1>1, <2>2 DEF Facts, LogsTrue, C
  <2>. QED
    BY <2>1, <2>2
<1>7. MsgsTrue(LL)'
  <2>1. \A m \in net : MsgTrue(LL, net, m)
    BY DEF Facts, MsgsTrue
  <2>2. \A j \in Server : \A m \in Queued(j) \cup pend'[j] : MsgTrue(LL, net, m)
    BY <1>1 DEF Facts, MsgsTrue, MaySend
  <2>. QED
    BY <1>1, <1>2, <2>1, <2>2 DEF MsgsTrue
<1>8. ASSUME NEW m \in Acks(Made(i)', i)
      PROVE  Kept(LL, R, r.Term, lg.ents, m) /\ (m \notin Made(i) => m.term = r.Term)
  <2>. HIDE DEF R
  <2>1. CASE m \in Acks(Made(i), i)
    BY <2>1 DEF GoesOn, R, Acks
  <2>2. CASE m \in new /\ m \notin Acks(Made(i), i)
    <3>1. /\ m.term = r.Term /\ m.index \in Nat /\ Agree(lg.ents, LL[r.Term], m.index)
          /\ LL[r.Term] \in Seq(Entry)
      BY <1>4, <1>5, <1>8, <2>2 DEF MaySend, Acks, LeaderLogs
    <3>2. m.term <= r.Term /\ m.index <= Len(LL[m.term])
      BY <1>4, <3>1 DEF Agree
    <3>3. \A k \in 1..m.index : Agree(lg.ents, LL[m.term], k)
      BY <1>4, <3>1 DEF Agree
    <3>. QED
      BY <3>1, <3>2, <3>3 DEF Kept, Holds
  <2>. QED
    BY <1>2, <1>8, <2>1, <2>2 DEF Acks
<1>9. AcksKept(LL)'
  <2>. SUFFICES ASSUME NEW j \in Server
                PROVE  \A m \in Acks(Made(j)', j) :
                            Kept(LL, R, raft'[j].Term, raftLog'[j].ents, m)
    BY <1>1, <1>2 DEF Facts, AcksKept
  <2>. HIDE DEF R
  <2>1. CASE j = i
    BY <1>1, <1>8, <2>1
  <2>2. CASE j # i
    BY <1>1, <1>2, <2>2 DEF Facts, AcksKept, R
  <2>. QED
    BY <2>1, <2>2
<1>10. \A j \in Server : disk[j].Term \in Nat /\ disk[j].Term <= raft[j].Term /\ raft[j].Term \in Nat
  BY LogTypes, TermsForward
<1>11. Informed(LL)'
  <2>. SUFFICES ASSUME NEW x \in Server, NEW j \in Server, raft'[x].state = "StateCandidate",
                       NEW g \in Granted(j)', g.to = x, g.term = raft'[x].Term,
                       NEW m \in Acks(Made(j)', j), m.term < g.term
                PROVE  Holds(LL, R, raftLog'[x].ents, m.term, m.index)
    BY <1>1 DEF Informed
  <2>. HIDE DEF R
  <2>1. CASE j # i /\ x # i
    BY <1>1, <1>2, <1>3, <2>1 DEF Facts, Informed, R
  <2>2. CASE x = i /\ j = i
    BY <1>1, <1>8, <2>2 DEF Kept
  <2>3. CASE x = i /\ j # i
    <3>1. g \in Granted(j) /\ g.term <= disk[i].Term
      BY <1>3, <2>3 DEF SyncInv, KnownFromDisk
    <3>2. r.state = "StateCandidate" /\ g.term = r.Term /\ m \in Acks(Made(j), j)
      BY <1>1, <1>2, <2>3
    <3>3. ~(r.Term > raft[i].Term)
      BY <1>4, <1>10, <3>1, <3>2
    <3>4. /\ raft[i].state = "StateCandidate" /\ r.Term = raft[i].Term
          /\ lg.ents = raftLog[i].ents
      BY <3>2, <3>3 DEF GoesOn
    <3>. QED
      BY <1>1, <2>3, <3>1, <3>2, <3>4 DEF Facts, Informed, R
  <2>4. CASE x # i /\ j = i
    <3>1. raft'[x] = raft[x] /\ raftLog'[x] = raftLog[x]
      BY <1>1, <2>4
    <3>2. CASE g \in Granted(i)
      <4>1. g.term \in Nat /\ g.term <= raft[i].Term
        BY <3>2, GrantTerm
      <4>2. m \in Acks(Made(i), i)
        BY <1>4, <1>8, <2>4, <4>1 DEF Acks
      <4>. QED
        BY <2>4, <3>1, <3>2, <4>2 DEF Facts, Informed, R
    <3>3. CASE g \in new /\ Grant(g)
      <4>1. MaySend(LL, i, r, lg, g)
        BY <3>3
      <4>2. CASE m \in Acks(Made(i), i)
        BY <2>4, <3>1, <3>3, <4>1, <4>2 DEF MaySend, R
      <4>3. CASE m \notin Acks(Made(i), i)
        <5>1. m.term = r.Term /\ m \in new
          BY <1>2, <1>8, <2>4, <4>3 DEF Acks
        <5>2. g.term = r.Term
          BY <3>3, <4>1 DEF MaySend
        <5>. QED
          BY <1>4, <5>1, <5>2
      <4>. QED
        BY <4>2, <4>3
    <3>. QED
      BY <1>3, <2>4, <3>2, <3>3
  <2>. QED
    BY <2>1, <2>2, <2>3, <2>4
<1>12. MatchTrue(LL)'
  <2>. SUFFICES ASSUME NEW j \in Server, raft'[j].state = "StateLeader"
                PROVE  MatchOf(LL, net, j, raft'[j].Term, trk'[j])
    BY <1>1 DEF MatchTrue
  <2>1. CASE j = i
    BY <1>1, <2>1
  <2>2. CASE j # i
    BY <1>1, <2>2 DEF Facts, MatchTrue
  <2>. QED
    BY <2>1, <2>2
<1>13. Facts(LL)'
  BY <1>6, <1>7, <1>9, <1>11, <1>12 DEF Facts, LeadersSound
<1>14. \A j \in Server : OwnedBy(j)'
  <2>. TAKE j \in Server
  <2>0. OwnedBy(j)
    BY DEF SyncInv
  <2>1. CASE j # i
    <3>1. raft'[j] = raft[j] /\ pend'[j] = pend[j] /\ Queued(j)' = Queued(j)
      BY <1>1, <1>2, <2>1
    <3>. QED
      BY <1>1, <2>0, <3>1 DEF OwnedBy
  <2>2. CASE j = i
    <3>1. \A m \in Queued(i) \cup pend'[i] : Ack(m) => m.from = i /\ m.term >= disk[i].Term
      BY <1>1, <1>4, <1>10, <2>0, <2>2 DEF OwnedBy, MaySend
    <3>2. \A k \in 1..Len(appendQ[i]) : appendQ[i][k].Term \in Nat /\ appendQ[i][k].Term <= raft[i].Term
      BY LogTypes, TermsForward
    <3>3. \A m \in pend'[i] : Ack(m) => \A k \in 1..Len(appendQ[i]) : m.term >= appendQ[i][k].Term
      BY <1>1, <1>4, <2>0, <2>2, <3>2 DEF OwnedBy, MaySend
    <3>4. \A m \in pend'[i] : m.type = "MsgVote" => m.from = i /\ m.term <= r.Term
      <4>. SUFFICES ASSUME NEW m \in pend'[i], m.type = "MsgVote"
                    PROVE  m.from = i /\ m.term <= r.Term
        OBVIOUS
      <4>1. CASE m \in new
        BY <1>4, <4>1 DEF MaySend
      <4>2. CASE m \in pend[i]
        <5>1. m \in Message
          BY <4>2, MadeTypes
        <5>2. m.term \in Nat
          BY <5>1, LeaderFields
        <5>. QED
          BY <1>4, <2>0, <2>2, <4>2, <5>2 DEF OwnedBy
      <4>. QED
        BY <1>1, <4>1, <4>2
    <3>. QED
      BY <1>1, <1>2, <2>0, <2>2, <3>1, <3>3, <3>4 DEF OwnedBy
  <2>. QED
    BY <2>1, <2>2
<1>15. \A j \in Server : AsksOnce(j)'
  <2>. TAKE x \in Server
  <2>0. AsksOnce(x)
    BY DEF SyncInv
  <2>1. CASE x # i
    <3>1. raft'[x] = raft[x] /\ raftLog'[x] = raftLog[x] /\ Made(x)' = Made(x)
      BY <1>1, <1>2, <2>1
    <3>2. <<raft[x].Term, x>> \in elected' => <<raft[x].Term, x>> \in elected
      BY <2>1 DEF Elects
    <3>. QED
      BY <2>0, <3>1, <3>2 DEF AsksOnce
  <2>2. CASE x = i
    <3>. SUFFICES ASSUME r.state = "StateCandidate"
                  PROVE  /\ <<r.Term, i>> \notin elected'
                         /\ \A m \in Made(i)' :
                              m.type = "MsgVote" /\ m.from = i /\ m.term = r.Term =>
                                m.index = lastIndex(lg) /\ m.logTerm = lastTerm(lg)
      BY <1>1, <2>2 DEF AsksOnce
    <3>1. <<r.Term, i>> \in elected' => <<r.Term, i>> \in elected
      BY DEF Elects
    <3>2. \A m \in new : m.type = "MsgVote" => m.index = lastIndex(lg) /\ m.logTerm = lastTerm(lg)
      BY DEF MaySend
    <3>3. CASE r.Term > raft[i].Term
      <4>1. <<r.Term, i>> \notin elected
        BY <1>4, <1>10, <3>3 DEF SyncInv, KnownFromDisk
      <4>2. ASSUME NEW m \in Made(i), m.type = "MsgVote", m.from = i PROVE m.term # r.Term
        <5>0. m \in Message
          BY <4>2, MadeTypes
        <5>1. m.term \in Nat
          BY <4>2, <5>0, LeaderFields
        <5>2. CASE m \in net
          <6>1. m.term <= disk[i].Term
            BY <4>2, <5>2 DEF SyncInv, KnownFromDisk
          <6>. QED
            BY <1>4, <1>10, <3>3, <5>1, <6>1
        <5>3. CASE m \in pend[i]
          <6>1. m.term <= raft[i].Term
            BY <2>0, <2>2, <4>2, <5>3 DEF SyncInv, OwnedBy
          <6>. QED
            BY <1>4, <3>3, <5>1, <6>1
        <5>4. CASE m \in Queued(i)
          <6>1. PICK k \in 1..Len(appendQ[i]) : m \in appendQ[i][k].resps
            BY <5>4 DEF Queued
          <6>2. m.term <= appendQ[i][k].Term
            BY <4>2, <6>1 DEF SyncInv, OwnedBy
          <6>3. appendQ[i][k].Term \in Nat /\ appendQ[i][k].Term <= raft[i].Term
            BY LogTypes, TermsForward
          <6>. QED
            BY <1>4, <3>3, <5>1, <6>2, <6>3
        <5>. QED
          BY <4>2, <5>2, <5>3, <5>4 DEF Made
      <4>. QED
        BY <1>2, <3>1, <3>2, <4>1, <4>2
    <3>4. CASE ~(r.Term > raft[i].Term)
      <4>1. /\ raft[i].state = "StateCandidate" /\ r.Term = raft[i].Term
            /\ lg.ents = raftLog[i].ents
        BY <3>4 DEF GoesOn
      <4>2. lastIndex(lg) = lastIndex(raftLog[i]) /\ lastTerm(lg) = lastTerm(raftLog[i])
        BY <4>1 DEF lastIndex, lastTerm
      <4>. QED
        BY <1>2, <2>0, <2>2, <3>1, <3>2, <4>1, <4>2 DEF AsksOnce
    <3>. QED
      BY <3>3, <3>4
  <2>. QED
    BY <2>1, <2>2
<1>16. KnownFromDisk'
  <2>1. \A m \in net : m.type = "MsgVote" => m.term <= disk[m.from].Term
    BY DEF SyncInv, KnownFromDisk
  <2>2. \A e \in elected' : e[1] <= disk[e[2]].Term
    BY DEF SyncInv, KnownFromDisk, Elects
  <2>3. \A j \in Server : \A g \in Granted(j)' : g.to # j => g.term <= disk[g.to].Term
    BY <1>3 DEF SyncInv, KnownFromDisk, MaySend
  <2>. QED
    BY <1>1, <2>1, <2>2, <2>3 DEF KnownFromDisk
<1>17. RangeInv'
  <2>. SUFFICES ASSUME NEW j \in Server
                PROVE  /\ raftLog'[j].first <= raftLog'[j].committed + 1
                       /\ disk[j].committed <= raftLog'[j].committed
                       /\ \A k \in 1..Len(appendQ[j]) :
                            appendQ[j][k].committed <= raftLog'[j].committed
    BY <1>1 DEF RangeInv
  <2>1. CASE j # i
    <3>1. raftLog'[j] = raftLog[j]
      BY <1>1, <2>1
    <3>. QED
      BY <3>1 DEF RangeInv
  <2>2. CASE j = i
    <3>0. raftLog'[j] = lg
      BY <1>1, <2>2
    <3>1. lg.first <= lg.committed + 1 /\ raftLog[i].committed <= lg.committed
      BY DEF GoesOn
    <3>2. /\ disk[i].committed <= raftLog[i].committed
          /\ \A k \in 1..Len(appendQ[i]) : appendQ[i][k].committed <= raftLog[i].committed
      BY DEF RangeInv
    <3>3. /\ disk[i].committed \in Nat /\ raftLog[i].committed \in Nat
          /\ \A k \in 1..Len(appendQ[i]) : appendQ[i][k].committed \in Nat
      BY LogTypes
    <3>. QED
      BY <1>4, <2>2, <3>0, <3>1, <3>2, <3>3
  <2>. QED
    BY <2>1, <2>2
<1>. QED
  BY <1>13, <1>14, <1>15, <1>16, <1>17 DEF SyncInv

-----------------------------------------------------------------------------
(* What the steps in memory have in common.                                *)

\* The invariant, for the leaders' logs LL.
Valid(LL) ==
    /\ IndType /\ ElectionInv /\ LeadInv /\ SyncInv /\ RangeInv
    /\ Facts(LL) /\ LeadersOf(LL) /\ Complete(LL, RefutedBy(net, disk))

\* A step in memory of server i: its record becomes r, its log lg, and the
\* messages `new` wait for the next write.
Moves(i, r, lg, new) ==
    /\ raft' = [raft EXCEPT ![i] = r] /\ raftLog' = [raftLog EXCEPT ![i] = lg]
    /\ pend' = [pend EXCEPT ![i] = @ \cup new] /\ UNCHANGED <<disk, appendQ, net>>
    /\ \A j \in Server : j # i => trk'[j] = trk[j]

\* A step that leaves the logs of the leaders alone keeps the invariant.
LEMMA MemKeeps ==
    ASSUME IndType', NEW LL \in LeaderLogs, Valid(LL),
           NEW i \in Server, NEW r, NEW lg, NEW new, Moves(i, r, lg, new), elected' = elected,
           GoesOn(LL, i, r, lg), \A m \in new : MaySend(LL, i, r, lg, m),
           r.state = "StateLeader" =>
                /\ raft[i].state = "StateLeader" /\ r.Term = raft[i].Term
                /\ lg.ents = raftLog[i].ents
                /\ MatchOf(LL, net, i, r.Term, trk'[i])
    PROVE  LogInv'
<1>1. Elects(i, r, elected')
  BY DEF Elects
<1>2. Facts(LL)' /\ SyncInv' /\ RangeInv'
  BY <1>1, MemStep DEF Valid, Moves
<1>3. net' = net /\ disk' = disk
  BY DEF Moves
<1>4. Complete(LL, RefutedBy(net, disk))'
  BY <1>3 DEF Valid
<1>5. \A j \in Server : raft'[j] = (IF j = i THEN r ELSE raft[j])
                        /\ raftLog'[j] = (IF j = i THEN lg ELSE raftLog[j])
  BY DEF Moves, Valid, IndType, TypeOK
<1>6. LeadersOf(LL)'
  <2>1. \A j \in Server : raft'[j].state = "StateLeader" => raftLog'[j].ents = LL[raft'[j].Term]
    BY <1>5 DEF Valid, LeadersOf
  <2>. QED
    BY <2>1 DEF Valid, LeadersOf
<1>. QED
  BY <1>2, <1>4, <1>6 DEF LogInv

\* Messages without asynchronous writes all wait for the next write.
LEMMA SyncSend ==
    ASSUME ~AsyncStorageWrites, TypeOK, NEW i \in Server, NEW now, NEW after, Send(i, now, after)
    PROVE  net' = net /\ pend' = [pend EXCEPT ![i] = @ \cup (after \cup now)]
<1>1. net' = net /\ pend' = [pend EXCEPT ![i] = (@ \cup after) \cup now]
  BY DEF Send
<1>2. (pend[i] \cup after) \cup now = pend[i] \cup (after \cup now)
  OBVIOUS
<1>. QED
  BY <1>1, <1>2

\* A step without messages is a step with none.
LEMMA NoSend ==
    ASSUME TypeOK, NEW i \in Server, UNCHANGED pend
    PROVE  pend' = [pend EXCEPT ![i] = @ \cup {}]
<1>. QED
  BY DEF TypeOK

\* A step that leaves the log alone is a step to the same log.
LEMMA SameLog ==
    ASSUME TypeOK, NEW i \in Server
    PROVE  /\ raftLog = [raftLog EXCEPT ![i] = raftLog[i]]
           /\ raft = [raft EXCEPT ![i] = raft[i]]
<1>. QED
  BY DEF TypeOK

\* A server may go on with the log it has, in its term or a later one, and
\* with a higher commit index that is backed.
LEMMA StaysOn ==
    ASSUME NEW LL \in LeaderLogs, Valid(LL), NEW i \in Server, NEW r, r.Term \in Nat,
           NEW lg \in LogType, r.Term >= raft[i].Term, lg.ents = raftLog[i].ents,
           lg.committed >= raftLog[i].committed, lg.first <= lg.committed + 1,
           \/ lg.committed = raftLog[i].committed
           \/ Backed(LL, CertifiedBy(net), r.Term, lg.ents, lg.committed),
           r.state = "StateCandidate" =>
                \/ r.Term > raft[i].Term
                \/ raft[i].state = "StateCandidate" /\ r.Term = raft[i].Term
    PROVE  GoesOn(LL, i, r, lg)
<1>. DEFINE s == raftLog[i].ents
            C == CertifiedBy(net)
            R == RefutedBy(net, disk)
<1>1. /\ s \in Seq(Entry) /\ raft[i].Term \in Nat /\ raftLog[i].committed \in Nat
      /\ raft[i].Term <= r.Term /\ Agree(s, s, Len(s))
  <2>1. s \in Seq(Entry) /\ raft[i].Term \in Nat /\ raftLog[i].committed \in Nat
    BY LogTypes DEF Valid
  <2>. QED
    BY <2>1 DEF Agree
<1>2. Sound(LL, raft[i].Term, s) /\ Backed(LL, C, raft[i].Term, s, raftLog[i].committed)
  BY DEF Valid, Facts, LogsTrue, LogTrue
<1>3. \A m \in Acks(Made(i), i) : Kept(LL, R, raft[i].Term, s, m) /\ m.term \in Nat
  <2>1. IndType
    BY DEF Valid
  <2>. QED
    BY <2>1, MadeTypes DEF Valid, Facts, AcksKept
<1>. HIDE DEF s, C, R
<1>4. Sound(LL, r.Term, s)
  BY <1>1, <1>2, SoundForward
<1>5. Backed(LL, C, r.Term, s, raftLog[i].committed)
  <2>1. raftLog[i].committed <= Len(s)
    BY <1>1, <1>2, BackedInRange
  <2>2. Agree(s, s, raftLog[i].committed) /\ raftLog[i].committed <= raftLog[i].committed
    BY <1>1, <2>1 DEF Agree
  <2>. QED
    BY <1>1, <1>2, <2>2, BackedMoves
<1>6. \A m \in Acks(Made(i), i) : Kept(LL, R, r.Term, s, m)
  BY <1>1, <1>3, KeptLater
<1>7. LogTrue(LL, C, r.Term, s, lg.committed)
  BY <1>4, <1>5 DEF LogTrue, s, C
<1>. QED
  BY <1>6, <1>7 DEF GoesOn, s, C, R

\* With the same log.
LEMMA StaysSame ==
    ASSUME NEW LL \in LeaderLogs, Valid(LL), NEW i \in Server, NEW r, r.Term \in Nat,
           r.Term >= raft[i].Term,
           r.state = "StateCandidate" =>
                \/ r.Term > raft[i].Term
                \/ raft[i].state = "StateCandidate" /\ r.Term = raft[i].Term
    PROVE  GoesOn(LL, i, r, raftLog[i])
<1>1. /\ raftLog[i] \in LogType /\ raftLog[i].committed \in Nat
      /\ raftLog[i].first <= raftLog[i].committed + 1
  BY LogTypes DEF Valid, RangeInv
<1>2. raftLog[i].committed >= raftLog[i].committed
  BY <1>1
<1>. QED
  BY <1>1, <1>2, StaysOn

\* Messages that say nothing of logs, commit indexes and votes may be sent.
Idle(m) == m.type \notin LeaderTypes \cup {"MsgAppResp", "MsgVote", "MsgVoteResp"}
LEMMA IdleMay ==
    ASSUME NEW LL, NEW i, NEW r, NEW lg, NEW m, Idle(m)
    PROVE  MaySend(LL, i, r, lg, m)
<1>. QED
  BY DEF Idle, LeaderTypes, MaySend, MsgTrue, Ack, Grant

\* So may rejections of entries and votes.
LEMMA RejectMay ==
    ASSUME NEW LL, NEW i, NEW r, NEW lg, NEW m,
           m.type \in {"MsgAppResp", "MsgVoteResp"}, m.reject
    PROVE  MaySend(LL, i, r, lg, m)
<1>. QED
  BY DEF MaySend, MsgTrue, Ack, Grant

\* An ack may be sent of what the log has in common with the leader's.
LEMMA AckMay ==
    ASSUME NEW LL, NEW i, NEW r, NEW lg, NEW to, NEW term, NEW k, term = r.Term,
           Agree(lg.ents, LL[r.Term], k)
    PROVE  MaySend(LL, i, r, lg, AppResp(i, to, term, k))
<1>. QED
  BY DEF MaySend, MsgTrue, Ack, Grant, AppResp

-----------------------------------------------------------------------------
(* What a leader sends.                                                    *)

\* The leader i of its term sends pieces of the log lg, and its snapshot.
LeadsWith(LL, i, lg) ==
    /\ lg.ents = LL[raft[i].Term]
    /\ Backed(LL, CertifiedBy(net), raft[i].Term, lg.ents, lg.committed)
    /\ Agree(disk[i].snapshot, lg.ents, Len(disk[i].snapshot))
    /\ Backed(LL, CertifiedBy(net), raft[i].Term, disk[i].snapshot, Len(disk[i].snapshot))

\* All messages of maybeSendAppend are true.
LEMMA SentTrue ==
    ASSUME TypeOK, NEW LL, NEW i \in Server, NEW to, NEW pr \in ProgressType,
           NEW lg \in LogType, NEW atMost \in Nat, NEW sendIfEmpty, LeadsWith(LL, i, lg)
    PROVE  \A m \in maybeSendAppend(i, to, pr, lg, atMost, sendIfEmpty).msgs :
                MsgTrue(LL, net, m) /\ m.type \in {"MsgApp", "MsgSnap"}
<1>. DEFINE prev == pr.Next - 1
            last == lastIndex(lg)
            left == IF pr.Next > last THEN 0 ELSE last - prev
            room == IF pr.State = "StateReplicate"
                    THEN MaxInflight - Len(pr.Inflights) ELSE 1
            n == Least(atMost, Least(room, (left + MaxEntsPerMsg - 1) \div MaxEntsPerMsg))
            End(k) == Least(prev + k * MaxEntsPerMsg, last)
            App(p, end) == [type |-> "MsgApp", from |-> i, to |-> to,
                            term |-> raft[i].Term, index |-> p,
                            logTerm |-> TermAt(lg.ents, p),
                            entries |-> SubSeq(lg.ents, p + 1, end),
                            commit |-> lg.committed]
            snap == [type |-> "MsgSnap", from |-> i, to |-> to,
                     term |-> raft[i].Term, snapshot |-> disk[i].snapshot]
            Good(m) == MsgTrue(LL, net, m) /\ m.type \in {"MsgApp", "MsgSnap"}
<1>1. prev \in Nat /\ MaxEntsPerMsg \in Nat
  BY OptionAssumption DEF ProgressType
<1>2. last \in Nat /\ lg.ents \in Seq(Entry) /\ last = Len(lg.ents)
  BY LogReads DEF lastIndex
<1>3. ASSUME NEW p \in Nat, NEW e \in Nat, p <= e, e <= last PROVE Good(App(p, e))
  <2>1. /\ SubSeq(lg.ents, p + 1, e) \in Seq(Entry) /\ Len(SubSeq(lg.ents, p + 1, e)) = e - p
        /\ \A k \in 1..(e - p) : SubSeq(lg.ents, p + 1, e)[k] = lg.ents[p + k]
    <3>1. p + 1 \in 1..(Len(lg.ents) + 1) /\ e \in p..Len(lg.ents)
      BY <1>2, <1>3
    <3>. QED
      BY <1>2, <1>3, <3>1, SMTT(30)
  <2>2. AppTrue(LL, net, App(p, e))
    <3>1. p + (e - p) = e
      BY <1>3
    <3>. QED
      BY <1>2, <1>3, <2>1, <3>1 DEF AppTrue, LeadsWith
  <2>. QED
    BY <2>2 DEF MsgTrue
<1>4. Good(snap)
  BY DEF MsgTrue, SnapTrue, LeadsWith
<1>5. \A k \in Nat : End(k) \in Nat /\ End(k) <= last /\ (k > 0 => End(k - 1) <= End(k))
  <2>. TAKE k \in Nat
  <2>1. k * MaxEntsPerMsg \in Nat
    BY <1>1
  <2>2. k > 0 => (k - 1) * MaxEntsPerMsg = k * MaxEntsPerMsg - MaxEntsPerMsg
    BY <1>1
  <2>. QED
    BY <1>1, <1>2, <2>1, <2>2 DEF Least
<1>6. \A m \in maybeSendAppend(i, to, pr, lg, atMost, sendIfEmpty).msgs :
        \/ m = snap
        \/ \E k \in 1..n : m = App(End(k - 1), End(k))
        \/ m = App(prev, prev) /\ HasTerm(lg, prev)
  BY DEF maybeSendAppend, maybeSendSnapshot, NothingSent
<1>7. HasTerm(lg, prev) => Good(App(prev, prev))
  <2>1. HasTerm(lg, prev) => prev <= last
    BY DEF HasTerm
  <2>2. prev <= prev
    BY <1>1
  <2>. HIDE DEF prev, last, App, Good
  <2>. QED
    BY <1>1, <1>3, <2>1, <2>2
<1>8. \A k \in 1..n : Good(App(End(k - 1), End(k)))
  <2>. TAKE k \in 1..n
  <2>1. k \in Nat /\ k > 0 /\ k - 1 \in Nat
    OBVIOUS
  <2>. HIDE DEF n, prev, last, End, App, Good
  <2>2. End(k) \in Nat /\ End(k) <= last /\ End(k - 1) <= End(k)
    BY <1>5, <2>1
  <2>3. End(k - 1) \in Nat
    BY <1>5, <2>1
  <2>. QED
    BY <1>3, <2>2, <2>3
<1>. HIDE DEF App, End, n, prev, snap
<1>. QED
  BY <1>4, <1>6, <1>7, <1>8

\* So are those of a round of sends.
LEMMA RoundTrue ==
    ASSUME TypeOK, NEW LL, NEW i \in Server, NEW prs \in [Server -> ProgressType],
           NEW lg \in LogType, NEW targets, NEW atMost \in Nat, NEW sendIfEmpty,
           LeadsWith(LL, i, lg)
    PROVE  \A m \in MsgsOf(SendAppends(i, prs, lg, targets, atMost, sendIfEmpty)) :
                MsgTrue(LL, net, m) /\ m.type \in {"MsgApp", "MsgSnap"}
<1>. TAKE m \in MsgsOf(SendAppends(i, prs, lg, targets, atMost, sendIfEmpty))
<1>1. PICK j \in Server :
        m \in SendAppends(i, prs, lg, targets, atMost, sendIfEmpty)[j].msgs
  BY DEF MsgsOf
<1>2. m \in maybeSendAppend(i, j, prs[j], lg, atMost, sendIfEmpty).msgs
  BY <1>1 DEF SendAppends, NothingSent
<1>. QED
  BY <1>2, SentTrue

\* True entries and snapshots may be sent by anyone.
LEMMA LeaderMay ==
    ASSUME NEW LL, NEW i, NEW r, NEW lg, NEW m,
           MsgTrue(LL, net, m), m.type \in LeaderTypes
    PROVE  MaySend(LL, i, r, lg, m)
<1>. QED
  BY DEF MaySend, LeaderTypes, Ack, Grant

\* Sending moves Next and the state of the follower, never its Match.
LEMMA SendKeepsMatch ==
    ASSUME NEW pr \in ProgressType, NEW i, NEW to, NEW lg, NEW atMost, NEW sendIfEmpty
    PROVE  maybeSendAppend(i, to, pr, lg, atMost, sendIfEmpty).pr.Match = pr.Match
<1>1. \A n, ends : SentEntries(pr, n, ends).Match = pr.Match
  BY DEF SentEntries, ProgressType
<1>2. \A n, ends, c : SentCommit(SentEntries(pr, n, ends), c).Match = pr.Match
  BY <1>1 DEF SentCommit, SentEntries, ProgressType
<1>3. maybeSendSnapshot(i, to, pr).pr.Match = pr.Match
  BY DEF maybeSendSnapshot, NothingSent, BecomeSnapshot, ResetState, ProgressType
<1>4. NothingSent(pr).pr = pr
  BY DEF NothingSent
<1>5. \/ maybeSendAppend(i, to, pr, lg, atMost, sendIfEmpty).pr
           \in {NothingSent(pr).pr, maybeSendSnapshot(i, to, pr).pr}
      \/ \E n, ends : maybeSendAppend(i, to, pr, lg, atMost, sendIfEmpty).pr
                        = SentCommit(SentEntries(pr, n, ends), lg.committed)
  BY DEF maybeSendAppend
<1>. QED
  BY <1>2, <1>3, <1>4, <1>5

\* Nor does a round of sends.
LEMMA RoundKeepsMatch ==
    ASSUME NEW prs \in [Server -> ProgressType], NEW i, NEW lg, NEW targets, NEW atMost,
           NEW sendIfEmpty, NEW j \in Server
    PROVE  ProgressOf(SendAppends(i, prs, lg, targets, atMost, sendIfEmpty))[j].Match
             = prs[j].Match
<1>1. prs[j] \in ProgressType
  OBVIOUS
<1>2. maybeSendAppend(i, j, prs[j], lg, atMost, sendIfEmpty).pr.Match = prs[j].Match
  BY <1>1, SendKeepsMatch
<1>3. NothingSent(prs[j]).pr.Match = prs[j].Match
  BY DEF NothingSent
<1>. QED
  BY <1>2, <1>3 DEF ProgressOf, SendAppends

\* What a leader knows of its followers is in their Match.
LEMMA MatchSame ==
    ASSUME NEW LL, NEW sent, NEW i, NEW term, NEW prs, NEW new,
           MatchOf(LL, sent, i, term, prs), \A j \in Server : new[j].Match = prs[j].Match
    PROVE  MatchOf(LL, sent, i, term, new)
<1>. QED
  BY DEF MatchOf

\* A leader has its own log, complete and up to its last entry, and what its
\* snapshot stands for.
LEMMA LeaderNow ==
    ASSUME NEW LL \in LeaderLogs, Valid(LL), NEW i \in Server, raft[i].state = "StateLeader"
    PROVE  /\ raft[i].Term \in Nat /\ LL[raft[i].Term] # << >>
           /\ LL[raft[i].Term] \in Seq(Entry)
           /\ <<raft[i].Term, i>> \in elected
           /\ LeadsWith(LL, i, raftLog[i])
           /\ MatchOf(LL, net, i, raft[i].Term, trk[i])
<1>. DEFINE T == raft[i].Term
            C == CertifiedBy(net)
            snap == disk[i].snapshot
<1>1. /\ T \in Nat /\ disk[i].Term \in Nat /\ disk[i].Term <= T
      /\ snap \in Seq(Entry) /\ Len(snap) \in Nat /\ IndType
  BY LogTypes, TermsForward DEF Valid
<1>2. <<T, i>> \in elected
  BY DEF Valid, LeadInv, LeadRecord
<1>3. LL[T] # << >> /\ LL[T] \in Seq(Entry)
  BY <1>1, <1>2 DEF Valid, LeadersOf, LeaderLogs
<1>4. raftLog[i].ents = LL[T] /\ Backed(LL, C, T, raftLog[i].ents, raftLog[i].committed)
  BY DEF Valid, LeadersOf, Facts, LogsTrue, LogTrue
<1>5. Backed(LL, C, disk[i].Term, snap, Len(snap))
  BY DEF Valid, Facts, LogsTrue, SavedTrue
<1>. HIDE DEF T, snap
<1>6. Agree(snap, LL[T], Len(snap))
  <2>1. Complete(LL, RefutedBy(net, disk))
    BY DEF Valid
  <2>. QED
    BY <1>1, <1>3, <1>5, <2>1, LeaderHas DEF C
<1>7. Backed(LL, C, T, snap, Len(snap))
  <2>1. Agree(snap, snap, Len(snap)) /\ Len(snap) <= Len(snap)
    BY <1>1 DEF Agree
  <2>. HIDE DEF C
  <2>. QED
    BY <1>1, <1>5, <2>1, BackedMoves
<1>8. MatchOf(LL, net, i, T, trk[i])
  BY DEF Valid, Facts, MatchTrue, T
<1>. QED
  BY <1>1, <1>2, <1>3, <1>4, <1>6, <1>7, <1>8 DEF LeadsWith, T, snap

\* A leader goes on leading: its commit index may grow, and it may send what
\* is true.
LEMMA LeaderKeeps ==
    ASSUME IndType', NEW LL \in LeaderLogs, Valid(LL),
           NEW i \in Server, raft[i].state = "StateLeader",
           NEW r, r.state = "StateLeader", r.Term = raft[i].Term,
           NEW lg \in LogType, lg.ents = raftLog[i].ents, lg.first = raftLog[i].first,
           lg.committed >= raftLog[i].committed,
           Backed(LL, CertifiedBy(net), raft[i].Term, lg.ents, lg.committed),
           NEW new, Moves(i, r, lg, new), elected' = elected,
           MatchOf(LL, net, i, r.Term, trk'[i]),
           \A m \in new : Idle(m) \/ (m.type \in LeaderTypes /\ MsgTrue(LL, net, m))
    PROVE  LogInv'
<1>1. /\ raft[i].Term \in Nat /\ r.Term \in Nat /\ raftLog[i].committed \in Nat
      /\ raftLog[i].first \in Nat /\ lg.committed \in Nat
      /\ raftLog[i].first <= raftLog[i].committed + 1
  BY LogTypes DEF Valid, RangeInv, LogType
<1>2. GoesOn(LL, i, r, lg)
  <2>1. r.Term >= raft[i].Term /\ lg.first <= lg.committed + 1 /\ r.state # "StateCandidate"
    BY <1>1
  <2>. QED
    BY <1>1, <2>1, StaysOn
<1>3. \A m \in new : MaySend(LL, i, r, lg, m)
  BY IdleMay, LeaderMay
<1>. QED
  BY <1>2, <1>3, MemKeeps

\* With the same log.
LEMMA LeaderIdles ==
    ASSUME IndType', NEW LL \in LeaderLogs, Valid(LL),
           NEW i \in Server, raft[i].state = "StateLeader",
           NEW r, r.state = "StateLeader", r.Term = raft[i].Term,
           NEW new, Moves(i, r, raftLog[i], new), elected' = elected,
           MatchOf(LL, net, i, r.Term, trk'[i]),
           \A m \in new : Idle(m) \/ (m.type \in LeaderTypes /\ MsgTrue(LL, net, m))
    PROVE  LogInv'
<1>1. raftLog[i] \in LogType /\ raftLog[i].committed \in Nat
  BY LogTypes DEF Valid
<1>2. Backed(LL, CertifiedBy(net), raft[i].Term, raftLog[i].ents, raftLog[i].committed)
  BY DEF Valid, Facts, LogsTrue, LogTrue
<1>3. raftLog[i].committed >= raftLog[i].committed
  BY <1>1
<1>. QED
  BY <1>1, <1>2, <1>3, LeaderKeeps

\* A server that leads no more, or does not yet, goes on with its log.
LEMMA OtherIdles ==
    ASSUME IndType', NEW LL \in LeaderLogs, Valid(LL), NEW i \in Server,
           NEW r, r.state # "StateLeader", r.Term >= raft[i].Term,
           r.state = "StateCandidate" =>
                \/ r.Term > raft[i].Term
                \/ raft[i].state = "StateCandidate" /\ r.Term = raft[i].Term,
           NEW new, Moves(i, r, raftLog[i], new), elected' = elected,
           \A m \in new : MaySend(LL, i, r, raftLog[i], m)
    PROVE  LogInv'
<1>1. r.Term \in Nat
  <2>1. raft'[i] = r /\ raft'[i] \in RaftType
    BY DEF Moves, Valid, IndType, TypeOK
  <2>. QED
    BY <2>1 DEF RaftType
<1>2. GoesOn(LL, i, r, raftLog[i])
  BY <1>1, StaysSame
<1>. QED
  BY <1>2, MemKeeps

-----------------------------------------------------------------------------
(* The steps of a leader.                                                  *)

\* Who acknowledged an index acknowledged the lower ones.
LEMMA AckedBelow ==
    ASSUME IndType, NEW t, NEW k \in Nat, NEW n \in Nat, n <= k
    PROVE  AckedAt(net, t, k) \subseteq AckedAt(net, t, n)
<1>1. \A m \in net : Ack(m) => m.index \in Nat
  BY LeaderFields DEF Ack, IndType, TypeOK
<1>. QED
  BY <1>1 DEF AckedAt

\* Heartbeats carry no more than the addressee has acknowledged.
LEMMA LogBeat ==
    ASSUME IndType', NEW LL \in LeaderLogs, Valid(LL), ~AsyncStorageWrites,
           NEW i \in Server, Beat(i)
    PROVE  LogInv'
<1>. DEFINE commit(j) == Least(trk[i][j].Match, raftLog[i].committed)
            new == {Heartbeat(i, j, raft[i].Term, commit(j)) : j \in Server \ {i}}
            prs == [j \in Server |-> IF j = i THEN trk[i][j] ELSE SentCommit(trk[i][j], commit(j))]
            T == raft[i].Term
            s == raftLog[i].ents
<1>1. IndType /\ TypeOK /\ raft[i].state = "StateLeader" /\ trk[i] \in [Server -> ProgressType]
  BY ServerFacts DEF Valid, IndType, Beat, Leads
<1>2. /\ UNCHANGED <<raft, raftLog, disk, appendQ, elected>> /\ trk' = [trk EXCEPT ![i] = prs]
      /\ Send(i, new, {})
  BY DEF Beat
<1>3. Moves(i, raft[i], raftLog[i], {} \cup new)
  <2>1. net' = net /\ pend' = [pend EXCEPT ![i] = @ \cup ({} \cup new)]
    BY <1>1, <1>2, SyncSend
  <2>2. \A j \in Server : j # i => trk'[j] = trk[j]
    BY <1>1, <1>2 DEF TypeOK
  <2>. HIDE DEF new
  <2>. QED
    BY <1>1, <1>2, <2>1, <2>2, SameLog DEF Moves
<1>4. /\ T \in Nat /\ LL[T] \in Seq(Entry) /\ LeadsWith(LL, i, raftLog[i])
      /\ MatchOf(LL, net, i, T, trk[i])
  BY <1>1, LeaderNow
<1>5. MatchOf(LL, net, i, raft[i].Term, trk'[i])
  <2>1. trk'[i] = prs
    BY <1>1, <1>2 DEF TypeOK
  <2>2. \A j \in Server : prs[j].Match = trk[i][j].Match
    <3>1. \A j \in Server : trk[i][j] \in ProgressType
      BY <1>1
    <3>. QED
      BY <3>1 DEF SentCommit, ProgressType
  <2>. HIDE DEF prs
  <2>. QED
    BY <1>4, <2>1, <2>2, MatchSame
<1>6. ASSUME NEW j \in Server \ {i}
      PROVE  MsgTrue(LL, net, Heartbeat(i, j, T, commit(j)))
  <2>1. /\ trk[i][j].Match \in Nat /\ raftLog[i].committed \in Nat /\ s \in Seq(Entry)
    BY <1>1, LogTypes DEF ProgressType
  <2>2. /\ commit(j) \in Nat /\ commit(j) <= trk[i][j].Match
        /\ commit(j) <= raftLog[i].committed
    BY <2>1 DEF Least
  <2>. HIDE DEF commit
  <2>3. commit(j) > 0 => j \in AckedAt(net, T, commit(j))
    <3>1. trk[i][j].Match = 0 \/ j \in AckedAt(net, T, trk[i][j].Match)
      BY <1>4 DEF MatchOf
    <3>. QED
      BY <1>1, <2>1, <2>2, <3>1, AckedBelow
  <2>4. Backed(LL, CertifiedBy(net), T, LL[T], commit(j))
    <3>1. s = LL[T] /\ Backed(LL, CertifiedBy(net), T, s, raftLog[i].committed)
      BY <1>4 DEF LeadsWith
    <3>2. raftLog[i].committed <= Len(s)
      BY <2>1, <3>1, BackedInRange
    <3>3. Agree(LL[T], s, commit(j)) /\ T <= T
      BY <1>4, <2>1, <2>2, <3>1, <3>2 DEF Agree
    <3>. QED
      BY <1>4, <2>1, <2>2, <3>1, <3>3, BackedMoves
  <2>. QED
    BY <2>3, <2>4 DEF MsgTrue, HeartTrue, Heartbeat
<1>7. \A m \in {} \cup new : m.type \in LeaderTypes /\ MsgTrue(LL, net, m)
  BY <1>6 DEF Heartbeat, LeaderTypes
<1>. HIDE DEF new
<1>. QED
  BY <1>1, <1>2, <1>3, <1>5, <1>7, LeaderIdles

\* Steps that change one Progress and send entries: the answers to rejections
\* and to heartbeats, and transfers.
LEMMA LogAnswer ==
    ASSUME IndType', NEW LL \in LeaderLogs, Valid(LL), ~AsyncStorageWrites,
           NEW i \in Server, raft[i].state = "StateLeader",
           NEW r, r.state = "StateLeader", r.Term = raft[i].Term, raft' = [raft EXCEPT ![i] = r],
           NEW j \in Server, NEW pr, trk' = [trk EXCEPT ![i][j] = pr], pr.Match = trk[i][j].Match,
           NEW msgs, Send(i, msgs, {}),
           \A n \in msgs : Idle(n) \/ (n.type \in LeaderTypes /\ MsgTrue(LL, net, n)),
           UNCHANGED <<raftLog, disk, appendQ, elected>>
    PROVE  LogInv'
<1>1. IndType /\ TypeOK
  BY DEF Valid, IndType
<1>2. Moves(i, r, raftLog[i], {} \cup msgs)
  <2>1. net' = net /\ pend' = [pend EXCEPT ![i] = @ \cup ({} \cup msgs)]
    BY <1>1, SyncSend
  <2>2. \A k \in Server : k # i => trk'[k] = trk[k]
    BY <1>1 DEF TypeOK
  <2>. QED
    BY <1>1, <2>1, <2>2, SameLog DEF Moves
<1>3. MatchOf(LL, net, i, r.Term, trk'[i])
  <2>1. \A k \in Server : trk'[i][k].Match = trk[i][k].Match
    BY <1>1 DEF TypeOK
  <2>2. MatchOf(LL, net, i, r.Term, trk[i])
    BY LeaderNow
  <2>. QED
    BY <2>1, <2>2, MatchSame
<1>. QED
  BY <1>2, <1>3, LeaderIdles

\* The same without messages.
LEMMA LogSilent ==
    ASSUME IndType', NEW LL \in LeaderLogs, Valid(LL), ~AsyncStorageWrites,
           NEW i \in Server, raft[i].state = "StateLeader",
           NEW r, r.state = "StateLeader", r.Term = raft[i].Term, raft' = [raft EXCEPT ![i] = r],
           NEW j \in Server, NEW pr, trk' = [trk EXCEPT ![i][j] = pr], pr.Match = trk[i][j].Match,
           Send(i, {}, {}), UNCHANGED <<raftLog, disk, appendQ, elected>>
    PROVE  LogInv'
<1>. DEFINE msgs == {}
<1>1. \A n \in msgs : Idle(n) \/ (n.type \in LeaderTypes /\ MsgTrue(LL, net, n))
  OBVIOUS
<1>2. Send(i, msgs, {})
  OBVIOUS
<1>. HIDE DEF msgs
<1>. QED
  BY <1>1, <1>2, LogAnswer

\* One call of maybeSendAppend.
LEMMA ProbeTrue ==
    ASSUME TypeOK, NEW LL, NEW i \in Server, NEW to, NEW pr \in ProgressType,
           NEW lg \in LogType, LeadsWith(LL, i, lg)
    PROVE  /\ maybeSendAppend(i, to, pr, lg, 1, TRUE).pr.Match = pr.Match
           /\ \A n \in maybeSendAppend(i, to, pr, lg, 1, TRUE).msgs :
                MsgTrue(LL, net, n) /\ n.type \in {"MsgApp", "MsgSnap"}
<1>1. \A e : maybeSendAppend(i, to, pr, lg, 1, e).pr.Match = pr.Match
  BY SendKeepsMatch
<1>2. 1 \in Nat
  OBVIOUS
<1>3. \A n \in maybeSendAppend(i, to, pr, lg, 1, TRUE).msgs :
        MsgTrue(LL, net, n) /\ n.type \in {"MsgApp", "MsgSnap"}
  BY <1>2, SentTrue, Zenon
<1>. QED
  BY <1>1, <1>3, Zenon

\* MsgAppResp with a rejection, and MsgHeartbeatResp.
LEMMA LogReplies ==
    ASSUME IndType', NEW LL \in LeaderLogs, Valid(LL), ~AsyncStorageWrites,
           NEW i \in Server, NEW m \in Message,
           HandleAppendReject(i, m) \/ HandleHeartbeatResp(i, m)
    PROVE  LogInv'
<1>. DEFINE j == m.from
<1>1. /\ TypeOK /\ IndType /\ raft[i].state = "StateLeader" /\ j \in Server
      /\ raftLog[i] \in LogType /\ Active(i, j) \in ProgressType
      /\ Active(i, j).Match = trk[i][j].Match
  <2>1. IndType /\ TypeOK /\ j \in Server
    BY MessageTerm DEF Valid, IndType
  <2>2. trk[i][j] \in ProgressType
    BY <2>1 DEF TypeOK
  <2>3. Active(i, j).Match = trk[i][j].Match
    BY <2>2 DEF Active, ProgressType
  <2>. QED
    BY <2>1, <2>3, ServerFacts, ActiveType DEF HandleAppendReject, HandleHeartbeatResp, IsResp, Leads
<1>2. LeadsWith(LL, i, raftLog[i])
  BY <1>1, LeaderNow
<1>. DEFINE Fits(out) == /\ out.pr.Match = trk[i][j].Match
                         /\ \A n \in out.msgs : n.type \in LeaderTypes /\ MsgTrue(LL, net, n)
<1>3. ASSUME NEW pr \in ProgressType, pr.Match = trk[i][j].Match
      PROVE  Fits(NothingSent(pr)) /\ Fits(maybeSendAppend(i, j, pr, raftLog[i], 1, TRUE))
  <2>1. /\ maybeSendAppend(i, j, pr, raftLog[i], 1, TRUE).pr.Match = pr.Match
        /\ \A n \in maybeSendAppend(i, j, pr, raftLog[i], 1, TRUE).msgs :
                MsgTrue(LL, net, n) /\ n.type \in {"MsgApp", "MsgSnap"}
    BY <1>1, <1>2, ProbeTrue, Zenon
  <2>. QED
    BY <1>3, <2>1 DEF NothingSent, LeaderTypes
<1>4. PICK out : /\ Fits(out) /\ trk' = [trk EXCEPT ![i][j] = out.pr] /\ Send(i, out.msgs, {})
                 /\ UNCHANGED <<raft, raftLog, disk, appendQ, elected>>
  <2>1. CASE HandleAppendReject(i, m)
    <3>. DEFINE pr    == Active(i, j)
                probe == IF m.logTerm > 0
                         THEN findConflictByTerm(raftLog[i], m.rejectHint, m.logTerm)
                         ELSE m.rejectHint
                decr  == MaybeDecrTo(pr, m.index, probe)
                back  == IF pr.State = "StateReplicate" THEN BecomeProbe(decr) ELSE decr
                out   == IF IsGenuine(pr, m.index)
                         THEN maybeSendAppend(i, j, back, raftLog[i], 1, TRUE)
                         ELSE NothingSent(pr)
    <3>1. m \in AppRespMsg
      BY <2>1, MessageKinds DEF HandleAppendReject, IsResp
    <3>2. m.index \in Nat /\ probe \in Nat
      <4>1. m.index \in Nat /\ m.rejectHint \in Nat /\ m.logTerm \in Nat
        BY <3>1 DEF AppRespMsg
      <4>2. findConflictByTerm(raftLog[i], m.rejectHint, m.logTerm) \in 0..m.rejectHint
        BY <1>1, <4>1, FindConflictByTermType
      <4>. QED
        BY <4>1, <4>2
    <3>. HIDE DEF probe, pr
    <3>3. decr \in ProgressType /\ decr.Match = trk[i][j].Match
      <4>1. pr \in ProgressType /\ pr.Match = trk[i][j].Match
        BY <1>1 DEF pr
      <4>2. decr \in ProgressType
        BY <3>2, <4>1, ProgressTransitions
      <4>. QED
        BY <4>1, <4>2 DEF MaybeDecrTo, ProgressType
    <3>. HIDE DEF decr
    <3>4. back \in ProgressType /\ back.Match = trk[i][j].Match
      <4>1. BecomeProbe(decr) \in ProgressType
        <5>1. 0 \in Nat
          OBVIOUS
        <5>. QED
          BY <3>3, <5>1, ProgressTransitions
      <4>2. BecomeProbe(decr).Match = decr.Match
        BY <3>3 DEF BecomeProbe, ResetState, ProgressType
      <4>. QED
        BY <3>3, <4>1, <4>2
    <3>. HIDE DEF back, Fits
    <3>5. Fits(out)
      BY <1>1, <1>3, <3>4 DEF pr
    <3>6. /\ trk' = [trk EXCEPT ![i][j] = out.pr] /\ Send(i, out.msgs, {})
          /\ UNCHANGED <<raft, raftLog, disk, appendQ, elected>>
      BY <2>1 DEF HandleAppendReject, out, back, decr, probe, pr
    <3>. HIDE DEF out
    <3>. QED
      BY <3>5, <3>6
  <2>2. CASE HandleHeartbeatResp(i, m)
    <3>. DEFINE pr  == [Active(i, j) EXCEPT !.MsgAppFlowPaused = FALSE]
                out == IF pr.Match < lastIndex(raftLog[i]) \/ pr.State = "StateProbe"
                       THEN maybeSendAppend(i, j, pr, raftLog[i], 1, TRUE)
                       ELSE NothingSent(pr)
    <3>1. pr \in ProgressType /\ pr.Match = trk[i][j].Match
      BY <1>1 DEF ProgressType
    <3>. HIDE DEF pr, Fits
    <3>2. Fits(out)
      BY <1>3, <3>1
    <3>3. /\ trk' = [trk EXCEPT ![i][j] = out.pr] /\ Send(i, out.msgs, {})
          /\ UNCHANGED <<raft, raftLog, disk, appendQ, elected>>
      BY <2>2 DEF HandleHeartbeatResp, out, pr
    <3>. HIDE DEF out
    <3>. QED
      BY <3>2, <3>3
  <2>. QED
    BY <2>1, <2>2
<1>5. raft' = [raft EXCEPT ![i] = raft[i]]
  BY <1>1, <1>4, SameLog
<1>. QED
  BY <1>1, <1>4, <1>5, LogAnswer

\* MsgTransferLeader, at the leader and forwarded by a follower.
LEMMA LogTransfer ==
    ASSUME IndType', NEW LL \in LeaderLogs, Valid(LL), ~AsyncStorageWrites,
           NEW i \in Server, NEW x \in Server, leaderTransfer(i, x)
    PROVE  LogInv'
<1>. DEFINE told == Plain("MsgTimeoutNow", i, x, raft[i].Term)
            out == IF trk[i][x].Match = lastIndex(raftLog[i])
                   THEN [NothingSent(trk[i][x]) EXCEPT !.msgs = {told}]
                   ELSE maybeSendAppend(i, x, trk[i][x], raftLog[i], 1, TRUE)
<1>1. /\ TypeOK /\ IndType /\ raft[i].state = "StateLeader" /\ raftLog[i] \in LogType
      /\ trk[i][x] \in ProgressType /\ raft[i] \in RaftType
  BY ServerFacts DEF Valid, IndType, TypeOK, leaderTransfer, Leads
<1>2. LeadsWith(LL, i, raftLog[i])
  BY <1>1, LeaderNow
<1>3. /\ out.pr.Match = trk[i][x].Match
      /\ \A n \in out.msgs : Idle(n) \/ (n.type \in LeaderTypes /\ MsgTrue(LL, net, n))
  <2>1. CASE trk[i][x].Match = lastIndex(raftLog[i])
    <3>1. out.pr = trk[i][x] /\ out.msgs = {told}
      BY <2>1 DEF NothingSent
    <3>2. Idle(told)
      BY DEF Plain, Idle, LeaderTypes
    <3>. QED
      BY <3>1, <3>2
  <2>2. CASE trk[i][x].Match # lastIndex(raftLog[i])
    <3>1. /\ maybeSendAppend(i, x, trk[i][x], raftLog[i], 1, TRUE).pr.Match = trk[i][x].Match
          /\ \A n \in maybeSendAppend(i, x, trk[i][x], raftLog[i], 1, TRUE).msgs :
                MsgTrue(LL, net, n) /\ n.type \in {"MsgApp", "MsgSnap"}
      BY <1>1, <1>2, ProbeTrue, Zenon
    <3>. QED
      BY <2>2, <3>1 DEF LeaderTypes
  <2>. QED
    BY <2>1, <2>2
<1>4. UNCHANGED <<votes, raftLog, disk, appendQ, elected>>
  BY DEF leaderTransfer
<1>. HIDE DEF out
<1>5. CASE x = i /\ raft' = [raft EXCEPT ![i].leadTransferee = None] /\ UNCHANGED <<trk, pend, net>>
  <2>. DEFINE r == [raft[i] EXCEPT !.leadTransferee = None]
  <2>1. r.state = "StateLeader" /\ r.Term = raft[i].Term /\ raft' = [raft EXCEPT ![i] = r]
    BY <1>1, <1>5 DEF RaftType
  <2>2. Send(i, {}, {})
    BY <1>1, <1>5, SendNothing
  <2>3. trk' = [trk EXCEPT ![i][x] = trk[i][x]]
    BY <1>1, <1>5 DEF TypeOK
  <2>. HIDE DEF r
  <2>. QED
    BY <1>1, <1>4, <2>1, <2>2, <2>3, LogSilent
<1>6. CASE /\ raft' = [raft EXCEPT ![i].leadTransferee = x, ![i].timedOut = FALSE]
           /\ trk'  = [trk EXCEPT ![i][x] = out.pr] /\ Send(i, out.msgs, {})
  <2>. DEFINE r == [raft[i] EXCEPT !.leadTransferee = x, !.timedOut = FALSE]
  <2>1. r.state = "StateLeader" /\ r.Term = raft[i].Term /\ raft' = [raft EXCEPT ![i] = r]
    BY <1>1, <1>6 DEF RaftType
  <2>. HIDE DEF r
  <2>. QED
    BY <1>1, <1>3, <1>4, <1>6, <2>1, LogAnswer
<1>. QED
  BY <1>5, <1>6 DEF leaderTransfer, out

\* Reports of the application and the leader's timer change no Match.
LEMMA LogReports ==
    ASSUME IndType', NEW LL \in LeaderLogs, Valid(LL), ~AsyncStorageWrites,
           NEW i \in Server, NEW j \in Server,
           \/ ReportUnreachable(i, j)
           \/ \E failed \in BOOLEAN : ReportSnapshot(i, j, failed)
    PROVE  LogInv'
<1>1. /\ TypeOK /\ IndType /\ raft[i].state = "StateLeader" /\ trk[i][j] \in ProgressType
  BY DEF Valid, IndType, TypeOK, ReportUnreachable, ReportSnapshot, Leads
<1>2. UNCHANGED <<raft, raftLog, disk, pend, appendQ, net, elected>>
  BY DEF ReportUnreachable, ReportSnapshot
<1>3. PICK pr : trk' = [trk EXCEPT ![i][j] = pr] /\ pr.Match = trk[i][j].Match
  <2>1. CASE ReportUnreachable(i, j)
    <3>1. trk' = [trk EXCEPT ![i][j] = BecomeProbe(trk[i][j])]
      BY <1>1, <2>1 DEF ReportUnreachable, TypeOK
    <3>2. BecomeProbe(trk[i][j]).Match = trk[i][j].Match
      BY <1>1 DEF BecomeProbe, ResetState, ProgressType
    <3>. QED
      BY <3>1, <3>2
  <2>2. ASSUME NEW failed \in BOOLEAN, ReportSnapshot(i, j, failed)
        PROVE  \E pr : trk' = [trk EXCEPT ![i][j] = pr] /\ pr.Match = trk[i][j].Match
    <3>. DEFINE pr == IF failed THEN [trk[i][j] EXCEPT !.PendingSnapshot = 0] ELSE trk[i][j]
    <3>1. trk' = [trk EXCEPT ![i][j] = [BecomeProbe(pr) EXCEPT !.MsgAppFlowPaused = TRUE]]
      BY <2>2 DEF ReportSnapshot
    <3>2. pr \in ProgressType /\ pr.Match = trk[i][j].Match
      BY <1>1 DEF ProgressType
    <3>. HIDE DEF pr
    <3>3. [BecomeProbe(pr) EXCEPT !.MsgAppFlowPaused = TRUE].Match = pr.Match
      BY <3>2 DEF BecomeProbe, ResetState, ProgressType
    <3>. QED
      BY <3>1, <3>2, <3>3
  <2>. QED
    BY <2>1, <2>2
<1>4. raft' = [raft EXCEPT ![i] = raft[i]] /\ Send(i, {}, {})
  BY <1>1, <1>2, SameLog, SendNothing
<1>5. UNCHANGED <<raftLog, disk, appendQ, elected>>
  BY <1>2
<1>. QED
  BY <1>1, <1>3, <1>4, <1>5, LogSilent

\* The timers and ForgetLeader, which give up a leader, or leadership.
LEMMA LogTimers ==
    ASSUME IndType', NEW LL \in LeaderLogs, Valid(LL), NEW i \in Server,
           \/ Tick(i) \/ ForgetLeader(i) \/ LeaderTimeout(i)
    PROVE  LogInv'
<1>1. /\ TypeOK /\ IndType /\ raft[i] \in RaftType /\ raft[i].Term \in Nat
  BY ServerFacts DEF Valid, IndType
<1>2. UNCHANGED <<raftLog, disk, pend, appendQ, net, elected>>
  BY DEF Tick, ForgetLeader, LeaderTimeout
<1>3. ASSUME NEW r, raft' = [raft EXCEPT ![i] = r], \A j \in Server : j # i => trk'[j] = trk[j]
      PROVE  Moves(i, r, raftLog[i], {})
  BY <1>1, <1>2, <1>3, SameLog, NoSend DEF Moves
<1>4. CASE Tick(i) \/ ForgetLeader(i)
  <2>1. PICK r : raft' = [raft EXCEPT ![i] = r] /\ r.Term = raft[i].Term /\ r.state = "StateFollower"
    <3>1. CASE Tick(i)
      <4>. DEFINE r == [raft[i] EXCEPT !.timedOut = TRUE]
      <4>1. raft' = [raft EXCEPT ![i] = r] /\ r.Term = raft[i].Term /\ r.state = "StateFollower"
        BY <1>1, <3>1 DEF Tick, RaftType
      <4>. HIDE DEF r
      <4>. QED
        BY <4>1
    <3>2. CASE ForgetLeader(i)
      <4>. DEFINE r == [raft[i] EXCEPT !.lead = None]
      <4>1. raft' = [raft EXCEPT ![i] = r] /\ r.Term = raft[i].Term /\ r.state = "StateFollower"
        BY <1>1, <3>2 DEF ForgetLeader, RaftType
      <4>. HIDE DEF r
      <4>. QED
        BY <4>1
    <3>. QED
      BY <1>4, <3>1, <3>2
  <2>2. trk' = trk
    BY <1>4 DEF Tick, ForgetLeader
  <2>3. Moves(i, r, raftLog[i], {})
    BY <1>3, <2>1, <2>2
  <2>4. r.Term >= raft[i].Term
    BY <1>1, <2>1
  <2>. QED
    BY <1>2, <2>1, <2>3, <2>4, OtherIdles
<1>5. CASE LeaderTimeout(i)
  <2>. DEFINE idle == [j \in Server |-> IF j = i \/ ~CheckQuorum THEN trk[i][j]
                                  ELSE [trk[i][j] EXCEPT !.RecentActive = FALSE]]
              f == becomeFollower(raft[i], raft[i].Term, None)
              r == [raft[i] EXCEPT !.leadTransferee = None]
  <2>1. raft[i].state = "StateLeader"
    BY <1>5 DEF LeaderTimeout, Leads
  <2>2. CASE Become(i, f, TRUE)
    <3>1. f.Term = raft[i].Term /\ f.state = "StateFollower" /\ f.Term >= raft[i].Term
      <4>1. raft[i].Term >= raft[i].Term
        BY <1>1
      <4>. QED
        BY <1>1, <4>1, BecomeForward
    <3>2. raft' = [raft EXCEPT ![i] = f] /\ \A j \in Server : j # i => trk'[j] = trk[j]
      BY <1>1, <2>2 DEF Become, TypeOK
    <3>. HIDE DEF f
    <3>3. Moves(i, f, raftLog[i], {})
      BY <1>3, <3>2
    <3>. QED
      BY <1>2, <3>1, <3>3, OtherIdles
  <2>3. CASE raft' = [raft EXCEPT ![i].leadTransferee = None] /\ trk' = [trk EXCEPT ![i] = idle]
    <3>1. /\ r.state = "StateLeader" /\ r.Term = raft[i].Term /\ raft' = [raft EXCEPT ![i] = r]
          /\ \A j \in Server : j # i => trk'[j] = trk[j]
      BY <1>1, <2>1, <2>3 DEF RaftType, TypeOK
    <3>2. \A j \in Server : trk'[i][j].Match = trk[i][j].Match
      <4>1. trk'[i] = idle /\ \A j \in Server : trk[i][j] \in ProgressType
        BY <1>1, <2>3 DEF TypeOK
      <4>. QED
        BY <4>1 DEF ProgressType
    <3>. HIDE DEF r
    <3>3. MatchOf(LL, net, i, r.Term, trk'[i])
      BY <2>1, <3>1, <3>2, LeaderNow, MatchSame, ZenonT(30)
    <3>4. Moves(i, r, raftLog[i], {})
      BY <1>3, <3>1
    <3>. QED
      BY <1>2, <2>1, <3>1, <3>3, <3>4, LeaderIdles
  <2>. QED
    BY <1>5, <2>2, <2>3 DEF LeaderTimeout
<1>. QED
  BY <1>4, <1>5

\* A majority of both halves has reported the index that is committed.
LEMMA CommittedQuorum ==
    ASSUME NEW acked \in [Server -> Nat]
    PROVE  LET v == JointCommittedIndex(Config, acked)
           IN  v \in Nat /\ IsJointQuorum(Config, {j \in Server : acked[j] >= v})
<1>. DEFINE a == MajorityCommittedIndex(Incoming, acked)
            b == MajorityCommittedIndex(Outgoing, acked)
            v == JointCommittedIndex(Config, acked)
            Q == {j \in Server : acked[j] >= v}
<1>1. IsFiniteSet(Incoming) /\ IsFiniteSet(Outgoing)
  BY FS_Subset
<1>2. \A c \in {Incoming, Outgoing} : c # {} =>
        /\ MajorityCommittedIndex(c, acked) \in Nat
        /\ IsMajority(c, {id \in c : acked[id] >= MajorityCommittedIndex(c, acked)})
  <2>. SUFFICES ASSUME NEW c \in {Incoming, Outgoing}, c # {}
                PROVE  /\ MajorityCommittedIndex(c, acked) \in Nat
                       /\ IsMajority(c, {id \in c : acked[id] >= MajorityCommittedIndex(c, acked)})
    OBVIOUS
  <2>1. IsFiniteSet(c) /\ c \subseteq Server /\ \A id \in c : acked[id] \in Nat
    BY <1>1
  <2>2. /\ MajorityCommittedIndex(c, acked) \in {acked[id] : id \in c}
        /\ IsMajority(c, {id \in c : acked[id] >= MajorityCommittedIndex(c, acked)})
    BY <2>1, MajorityCommitted
  <2>. QED
    BY <2>1, <2>2
<1>3. b \in Nat
  <2>1. Outgoing = {} => b = MaxUint64
    BY DEF MajorityCommittedIndex
  <2>. QED
    BY <1>2, <2>1, MaxUint64Assumption
<1>4. v = (IF a < b THEN a ELSE b) /\ a \in Nat
  BY <1>2 DEF JointCommittedIndex, Config
<1>5. v \in Nat /\ v <= a /\ v <= b
  <2>. HIDE DEF a, b, v
  <2>. QED
    BY <1>3, <1>4
<1>. HIDE DEF v
<1>6. IsMajority(Incoming, Q)
  <2>1. IsMajority(Incoming, {id \in Incoming : acked[id] >= a})
    BY <1>2
  <2>. HIDE DEF a
  <2>2. {id \in Incoming : acked[id] >= a} \subseteq Q
    BY <1>4, <1>5
  <2>. HIDE DEF Q
  <2>. QED
    BY <1>1, <2>1, <2>2, MajorityGrows
<1>7. IsMajority(Outgoing, Q)
  <2>1. CASE Outgoing = {}
    BY <2>1 DEF IsMajority
  <2>2. CASE Outgoing # {}
    <3>1. IsMajority(Outgoing, {id \in Outgoing : acked[id] >= b})
      BY <1>2, <2>2
    <3>. HIDE DEF b
    <3>2. {id \in Outgoing : acked[id] >= b} \subseteq Q
      BY <1>3, <1>5
    <3>. HIDE DEF Q
    <3>. QED
      BY <1>1, <3>1, <3>2, MajorityGrows
  <2>. QED
    BY <2>1, <2>2
<1>. QED
  BY <1>5, <1>6, <1>7 DEF IsJointQuorum, Config, v

(***************************************************************************)
(* maybeCommit counts only an entry that the leader made itself. So its    *)
(* own Match cannot count before its disk has acknowledged the entry, and  *)
(* the index is acknowledged by a quorum.                                  *)
(***************************************************************************)
LEMMA CommitBacked ==
    ASSUME NEW LL \in LeaderLogs, Valid(LL), NEW i \in Server, raft[i].state = "StateLeader",
           NEW prs \in [Server -> ProgressType], MatchOf(LL, net, i, raft[i].Term, prs)
    PROVE  LET lg == maybeCommit(raftLog[i], raft[i].Term, prs)
           IN  /\ lg \in LogType /\ lg.ents = raftLog[i].ents /\ lg.first = raftLog[i].first
               /\ lg.committed >= raftLog[i].committed /\ LeadsWith(LL, i, lg)
<1>. DEFINE T == raft[i].Term
            old == raftLog[i]
            lg == maybeCommit(old, T, prs)
            acked == [j \in Server |-> prs[j].Match]
            index == JointCommittedIndex(Config, acked)
            C == CertifiedBy(net)
<1>1. /\ IndType /\ T \in Nat /\ old \in LogType /\ LL[T] \in Seq(Entry)
      /\ LeadsWith(LL, i, old) /\ old.ents \in Seq(Entry) /\ old.committed \in Nat
  BY LeaderNow, LogTypes DEF Valid
<1>2. /\ lg \in LogType /\ lg.ents = old.ents /\ lg.committed >= old.committed
  BY <1>1, MaybeCommitType
<1>3. acked \in [Server -> Nat]
  BY DEF ProgressType
<1>4. index \in Nat /\ IsJointQuorum(Config, {j \in Server : acked[j] >= index})
  <2>. HIDE DEF acked
  <2>. QED
    BY <1>3, CommittedQuorum
<1>5. lg.first = old.first /\ (lg.committed = old.committed \/
        (lg.committed = index /\ index > old.committed /\ matchTerm(old, index, T)))
  BY <1>1 DEF maybeCommit, commitTo, LogType
<1>6. ASSUME index > old.committed, matchTerm(old, index, T)
      PROVE  Backed(LL, C, T, old.ents, index)
  <2>. HIDE DEF index
  <2>1. index \in 1..Len(LL[T]) /\ LL[T][index].term = T /\ old.ents = LL[T]
    BY <1>1, <1>4, <1>6 DEF matchTerm, HasTerm, TermAt, lastIndex, LeadsWith
  <2>2. {j \in Server : acked[j] >= index} \subseteq AckedAt(net, T, index)
    <3>. SUFFICES ASSUME NEW j \in Server, prs[j].Match >= index
                  PROVE  j \in AckedAt(net, T, index)
      OBVIOUS
    <3>1. prs[j].Match \in Nat /\ prs[j].Match # 0
      BY <1>3, <2>1
    <3>2. CASE j \in AckedAt(net, T, prs[j].Match)
      BY <1>1, <1>4, <3>1, <3>2, AckedBelow
    <3>3. CASE \A n \in 1..prs[j].Match : LL[T][n].term < T
      <4>1. index \in 1..prs[j].Match
        BY <2>1, <3>1
      <4>. QED
        BY <1>1, <2>1, <3>3, <4>1
    <3>. QED
      BY <3>1, <3>2, <3>3 DEF MatchOf
  <2>3. <<T, index>> \in C
    <3>. HIDE DEF acked
    <3>1. IsJointQuorum(Config, AckedAt(net, T, index))
      BY <1>4, <2>2, QuorumGrows
    <3>. QED
      BY <1>1, <1>4, <3>1 DEF CertifiedBy
  <2>4. T \in 0..T /\ index <= index /\ Agree(old.ents, LL[T], index)
    BY <1>1, <2>1 DEF Agree
  <2>. QED
    BY <2>1, <2>3, <2>4 DEF Backed
<1>. HIDE DEF index, lg
<1>7. Backed(LL, C, T, lg.ents, lg.committed)
  BY <1>1, <1>2, <1>5, <1>6 DEF LeadsWith
<1>8. LeadsWith(LL, i, lg)
  BY <1>1, <1>2, <1>7 DEF LeadsWith
<1>. QED
  BY <1>2, <1>5, <1>8 DEF lg

\* An ack, which may move Match and the commit index.
LEMMA LogAck ==
    ASSUME IndType', NEW LL \in LeaderLogs, Valid(LL), ~AsyncStorageWrites,
           NEW i \in Server, NEW m \in net, HandleAppendAck(i, m)
    PROVE  LogInv'
<1>. DEFINE j     == m.from
            pr    == Active(i, j)
            prs   == [trk[i] EXCEPT ![j] = Acked(pr, m.index, raftLog[i].first)]
            T     == raft[i].Term
            lg    == maybeCommit(raftLog[i], T, prs)
            first == IF lg.committed > raftLog[i].committed THEN Server \ {i}
                     ELSE IF CanBumpCommit(prs[j], lg.committed) THEN {j} \ {i}
                     ELSE {}
            out   == SendAppends(i, prs, lg, first, 1, TRUE)
            more  == SendAppends(i, ProgressOf(out), lg, {j} \ {i}, MaxInflight, FALSE)
            done  == j = raft[i].leadTransferee /\ prs[j].Match = lastIndex(lg)
            told  == Plain("MsgTimeoutNow", i, j, T)
            now   == MsgsOf(out) \cup MsgsOf(more) \cup (IF done THEN {told} ELSE {})
<1>1. /\ TypeOK /\ IndType /\ raft[i].state = "StateLeader" /\ j \in Server
      /\ raftLog[i] \in LogType /\ raftLog[i].first \in Nat
      /\ trk[i] \in [Server -> ProgressType] /\ trk[i][j] \in ProgressType
      /\ pr \in ProgressType /\ pr.Match = trk[i][j].Match
      /\ m.index \in Nat /\ m.term = T /\ Ack(m)
  <2>1. IndType /\ TypeOK /\ m \in Message
    BY DEF Valid, IndType, TypeOK
  <2>2. m.type = "MsgAppResp" /\ ~m.reject /\ m.term = T /\ raft[i].state = "StateLeader"
    BY DEF HandleAppendAck, IsResp, Leads
  <2>3. m.index \in Nat /\ j \in Server
    BY <2>1, <2>2, LeaderFields
  <2>4. trk[i][j] \in ProgressType /\ trk[i] \in [Server -> ProgressType]
    BY <2>1, <2>3 DEF TypeOK
  <2>5. pr.Match = trk[i][j].Match
    BY <2>4 DEF Active, ProgressType
  <2>6. raftLog[i] \in LogType /\ raftLog[i].first \in Nat
    BY <2>1, LogTypes
  <2>. QED
    BY <2>1, <2>2, <2>3, <2>4, <2>5, <2>6, ActiveType DEF Ack
<1>. DEFINE acked == Acked(pr, m.index, raftLog[i].first)
<1>2. acked \in ProgressType /\ acked.Match \in {pr.Match, m.index}
  <2>. HIDE DEF pr
  <2>1. acked \in ProgressType
    BY <1>1, AckedType
  <2>. DEFINE up == MaybeUpdate(pr, m.index)
  <2>2. up \in ProgressType /\ up.Match \in {pr.Match, m.index}
    <3>1. up \in ProgressType
      BY <1>1, ProgressTransitions
    <3>. QED
      BY <1>1, <3>1 DEF MaybeUpdate, ProgressType
  <2>3. acked = (IF up.State = "StateProbe" THEN BecomeReplicate(up)
                 ELSE IF up.State = "StateSnapshot" /\ up.Match + 1 >= raftLog[i].first
                      THEN BecomeReplicate(BecomeProbe(up))
                 ELSE IF up.State = "StateReplicate"
                      THEN [up EXCEPT !.Inflights = FreeLE(@, m.index)]
                 ELSE up)
    BY DEF Acked
  <2>. HIDE DEF up, acked
  <2>4. BecomeReplicate(up).Match = up.Match /\ BecomeReplicate(BecomeProbe(up)).Match = up.Match
        /\ [up EXCEPT !.Inflights = FreeLE(@, m.index)].Match = up.Match
    BY <2>2 DEF BecomeReplicate, BecomeProbe, ResetState, ProgressType
  <2>. QED
    BY <2>1, <2>2, <2>3, <2>4
<1>3. /\ prs \in [Server -> ProgressType] /\ prs[j] = acked
      /\ \A k \in Server : k # j => prs[k] = trk[i][k]
  <2>. HIDE DEF acked
  <2>1. prs = [trk[i] EXCEPT ![j] = acked]
    BY DEF acked
  <2>. HIDE DEF prs
  <2>. QED
    BY <1>1, <1>2, <2>1
<1>. HIDE DEF acked, prs
<1>4. MatchOf(LL, net, i, T, prs)
  <2>1. MatchOf(LL, net, i, T, trk[i])
    BY <1>1, LeaderNow
  <2>2. j \in AckedAt(net, T, m.index)
    <3>1. m.index >= m.index
      BY <1>1
    <3>. QED
      BY <1>1, <3>1 DEF AckedAt
  <2>3. ASSUME NEW k \in Server
        PROVE  prs[k].Match = trk[i][k].Match \/ (k = j /\ prs[k].Match = m.index)
    BY <1>1, <1>2, <1>3
  <2>. HIDE DEF j, T
  <2>. QED
    BY <2>1, <2>2, <2>3 DEF MatchOf
<1>5. /\ lg \in LogType /\ lg.ents = raftLog[i].ents /\ lg.first = raftLog[i].first
      /\ lg.committed >= raftLog[i].committed /\ LeadsWith(LL, i, lg)
  BY <1>1, <1>3, <1>4, CommitBacked
<1>. HIDE DEF lg, first
<1>6. /\ ProgressOf(out) \in [Server -> ProgressType]
      /\ \A k \in Server : ProgressOf(out)[k].Match = prs[k].Match
      /\ \A n \in MsgsOf(out) : MsgTrue(LL, net, n) /\ n.type \in {"MsgApp", "MsgSnap"}
  <2>0. 1 \in Nat
    OBVIOUS
  <2>1. ProgressOf(out) \in [Server -> ProgressType]
    BY <1>1, <1>3, <1>5, <2>0, SendAppendsType, Zenon
  <2>2. \A k \in Server : \A e :
            ProgressOf(SendAppends(i, prs, lg, first, 1, e))[k].Match = prs[k].Match
    BY <1>3, RoundKeepsMatch
  <2>3. \A n \in MsgsOf(out) : MsgTrue(LL, net, n) /\ n.type \in {"MsgApp", "MsgSnap"}
    BY <1>1, <1>3, <1>5, <2>0, RoundTrue, Zenon
  <2>4. \A k \in Server : ProgressOf(out)[k].Match = prs[k].Match
    BY <2>2, Zenon
  <2>. QED
    BY <2>1, <2>3, <2>4
<1>7. /\ \A k \in Server : ProgressOf(more)[k].Match = ProgressOf(out)[k].Match
      /\ \A n \in MsgsOf(more) : MsgTrue(LL, net, n) /\ n.type \in {"MsgApp", "MsgSnap"}
  <2>. DEFINE p == ProgressOf(out)
  <2>. HIDE DEF p
  <2>1. more = SendAppends(i, p, lg, {j} \ {i}, MaxInflight, FALSE) /\ MaxInflight \in Nat
    BY MaxInflightAssumption DEF p
  <2>. HIDE DEF out, more
  <2>2. p \in [Server -> ProgressType]
    BY <1>6 DEF p
  <2>3. \A k \in Server : \A e :
            ProgressOf(SendAppends(i, p, lg, {j} \ {i}, MaxInflight, e))[k].Match = p[k].Match
    BY <2>2, RoundKeepsMatch
  <2>4. \A n \in MsgsOf(SendAppends(i, p, lg, {j} \ {i}, MaxInflight, FALSE)) :
            MsgTrue(LL, net, n) /\ n.type \in {"MsgApp", "MsgSnap"}
    BY <1>1, <1>5, <2>1, <2>2, RoundTrue, Zenon
  <2>5. \A k \in Server :
            ProgressOf(SendAppends(i, p, lg, {j} \ {i}, MaxInflight, FALSE))[k].Match = p[k].Match
    BY <2>3, Zenon
  <2>. QED
    BY <2>1, <2>4, <2>5 DEF p
<1>8. Idle(told)
  BY DEF Plain, Idle, LeaderTypes
<1>. HIDE DEF told, done, out, more
<1>9. \A n \in {} \cup now : Idle(n) \/ (n.type \in LeaderTypes /\ MsgTrue(LL, net, n))
  BY <1>6, <1>7, <1>8 DEF LeaderTypes
<1>. HIDE DEF now
<1>10. UNCHANGED <<raft, votes, disk, appendQ, elected>> /\ raft' = [raft EXCEPT ![i] = raft[i]]
  BY <1>1, SameLog DEF HandleAppendAck
<1>11. CASE /\ trk' = [trk EXCEPT ![i] = ProgressOf(more)]
            /\ raftLog' = [raftLog EXCEPT ![i] = lg] /\ Send(i, now, {})
  <2>1. Moves(i, raft[i], lg, {} \cup now)
    <3>1. net' = net /\ pend' = [pend EXCEPT ![i] = @ \cup ({} \cup now)]
      BY <1>1, <1>11, SyncSend
    <3>2. \A k \in Server : k # i => trk'[k] = trk[k]
      BY <1>1, <1>11 DEF TypeOK
    <3>. QED
      BY <1>10, <1>11, <3>1, <3>2 DEF Moves
  <2>2. MatchOf(LL, net, i, T, trk'[i])
    <3>1. trk'[i] = ProgressOf(more)
      BY <1>1, <1>11 DEF TypeOK
    <3>. QED
      BY <1>4, <1>6, <1>7, <3>1, MatchSame
  <2>3. Backed(LL, CertifiedBy(net), raft[i].Term, lg.ents, lg.committed)
    BY <1>5 DEF LeadsWith
  <2>. QED
    BY <1>1, <1>5, <1>9, <1>10, <2>1, <2>2, <2>3, LeaderKeeps
<1>12. CASE trk' = [trk EXCEPT ![i][j] = pr] /\ UNCHANGED <<raftLog, pend, net>>
  <2>1. Send(i, {}, {})
    BY <1>1, <1>12, SendNothing
  <2>. HIDE DEF pr
  <2>. QED
    BY <1>1, <1>10, <1>12, <2>1, LogSilent
<1>. QED
  BY <1>11, <1>12 DEF HandleAppendAck, now, told, done, out, more, first, lg, prs

-----------------------------------------------------------------------------
(* Leaders append.                                                         *)

(***************************************************************************)
(* Server i, the leader of its term T or just elected, has everything of   *)
(* earlier leaders that can be committed. Its log with one more entry of T *)
(* becomes the log of T: the history MM fits whatever LL fitted.           *)
(***************************************************************************)
LEMMA HistoryGrows ==
    ASSUME NEW LL \in LeaderLogs, Valid(LL), NEW i \in Server,
           Agree(raftLog[i].ents, LL[raft[i].Term], Len(LL[raft[i].Term])),
           \A t \in Nat : t < raft[i].Term =>
                Holds(LL, RefutedBy(net, disk), raftLog[i].ents, t, Len(LL[t])),
           NEW new \in Seq(Entry), Len(new) = Len(raftLog[i].ents) + 1,
           Agree(new, raftLog[i].ents, Len(raftLog[i].ents)),
           new[Len(new)].term = raft[i].Term,
           NEW MM, MM = [LL EXCEPT ![raft[i].Term] = new]
    PROVE  /\ MM \in LeaderLogs /\ MM[raft[i].Term] = new /\ new # << >>
           /\ \A t \in Nat : t # raft[i].Term => MM[t] = LL[t]
           /\ Extends(LL, MM) /\ Facts(MM) /\ Complete(MM, RefutedBy(net, disk))
           /\ Sound(MM, raft[i].Term, new)
<1>. DEFINE T == raft[i].Term
            s == raftLog[i].ents
            R == RefutedBy(net, disk)
<1>1. IndType /\ ElectionInv /\ Facts(LL) /\ LeadersOf(LL) /\ Complete(LL, R) /\ T \in Nat
      /\ s \in Seq(Entry) /\ LL[T] \in Seq(Entry)
  <2>1. IndType /\ ElectionInv /\ Facts(LL) /\ LeadersOf(LL) /\ Complete(LL, R)
    BY DEF Valid
  <2>2. T \in Nat /\ s \in Seq(Entry)
    BY <2>1, LogTypes
  <2>. QED
    BY <2>1, <2>2 DEF LeaderLogs
<1>2. /\ MM \in LeaderLogs /\ MM[T] = new /\ \A t \in Nat : t # T => MM[t] = LL[t]
  BY <1>1 DEF LeaderLogs
<1>3. new # << >> /\ \A t \in Nat : LL[t] \in Seq(Entry)
  <2>1. Len(new) \in 1..Len(new)
    BY <1>1
  <2>. QED
    BY <2>1, HasEntries DEF LeaderLogs
<1>. HIDE DEF T, s, R
<1>4. Agree(new, LL[T], Len(LL[T]))
  <2>1. Agree(s, LL[T], Len(LL[T])) /\ Agree(new, s, Len(s)) /\ Len(LL[T]) \in Nat
    BY <1>1 DEF T, s
  <2>. QED
    BY <1>1, <2>1 DEF Agree
<1>5. Extends(LL, MM)
  <2>. SUFFICES ASSUME NEW t \in Nat PROVE Agree(MM[t], LL[t], Len(LL[t]))
    BY DEF Extends
  <2>1. CASE t = T
    BY <1>2, <1>4, <2>1
  <2>2. CASE t # T
    BY <1>2, <1>3, <2>2, AgreeFacts
  <2>. QED
    BY <2>1, <2>2
<1>6. Sound(MM, T, new)
  <2>1. Sound(LL, T, s)
    BY DEF Valid, Facts, LogsTrue, LogTrue, T, s
  <2>2. Sound(MM, T, s)
    BY <1>1, <1>2, <1>5, <2>1, LogsGrow
  <2>. SUFFICES ASSUME NEW k \in 1..Len(new)
                PROVE  new[k].term <= T /\ Agree(new, MM[new[k].term], k)
    BY DEF Sound
  <2>3. CASE k = Len(new)
    <3>1. new[k].term = T
      BY <2>3 DEF T
    <3>2. Agree(new, new, k) /\ T <= T
      BY <1>1, <2>3 DEF Agree
    <3>. QED
      BY <1>2, <3>1, <3>2
  <2>4. CASE k # Len(new)
    <3>1. k \in 1..Len(s) /\ new[k] = s[k] /\ Agree(new, s, k)
      BY <1>1, <2>4, SMTT(30) DEF Agree, s
    <3>2. s[k].term \in Nat /\ s[k].term <= T /\ Agree(s, MM[s[k].term], k)
      BY <1>1, <2>2, <3>1, EntryTerm DEF Sound
    <3>3. MM[s[k].term] \in Seq(Entry)
      BY <1>2, <3>2 DEF LeaderLogs
    <3>. QED
      BY <1>1, <3>1, <3>2, <3>3 DEF Agree
  <2>. QED
    BY <2>3, <2>4
<1>7. LeadersSound(MM)
  <2>. SUFFICES ASSUME NEW t \in Nat PROVE Sound(MM, t, MM[t])
    BY DEF LeadersSound
  <2>1. CASE t = T
    BY <1>2, <1>6, <2>1
  <2>2. CASE t # T
    <3>1. Sound(LL, t, LL[t])
      BY <1>1 DEF Facts, LeadersSound
    <3>2. Sound(MM, t, LL[t])
      BY <1>2, <1>3, <1>5, <3>1, LogsGrow
    <3>. QED
      BY <1>2, <2>2, <3>2
  <2>. QED
    BY <2>1, <2>2
<1>8. Facts(MM)
  BY <1>1, <1>2, <1>5, <1>7, FactsGrow
<1>9. \A t \in Nat : t < T => Holds(LL, R, new, t, Len(LL[t]))
  <2>. SUFFICES ASSUME NEW t \in Nat, t < T, NEW k \in 1..Len(LL[t]), LL[t][k].term = t,
                       <<t, k>> \notin R
                PROVE  Agree(new, LL[t], k)
    BY DEF Holds
  <2>1. Holds(LL, R, s, t, Len(LL[t]))
    BY DEF T, s, R
  <2>2. Agree(s, LL[t], k)
    BY <2>1 DEF Holds
  <2>3. Agree(new, s, Len(s)) /\ LL[t] \in Seq(Entry)
    BY <1>3 DEF s
  <2>. QED
    BY <1>1, <2>2, <2>3 DEF Agree
<1>10. Complete(MM, R)
  BY <1>1, <1>4, <1>9, CompleteGrows DEF T, R
<1>. QED
  BY <1>2, <1>3, <1>5, <1>6, <1>8, <1>10 DEF T, R

\* The leader appends an entry, of a proposal or of its election, and sends it.
LEMMA LeaderAppends ==
    ASSUME IndType', ElectionSafety', LeadInv', NEW LL \in LeaderLogs, Valid(LL), ~AsyncStorageWrites,
           NEW i \in Server,
           Agree(raftLog[i].ents, LL[raft[i].Term], Len(LL[raft[i].Term])),
           \A t \in Nat : t < raft[i].Term =>
                Holds(LL, RefutedBy(net, disk), raftLog[i].ents, t, Len(LL[t])),
           NEW r, r.Term = raft[i].Term, r.state = "StateLeader", raft' = [raft EXCEPT ![i] = r],
           NEW data \in Value \cup {NoData}, NEW prs \in [Server -> ProgressType],
           \A MM \in LeaderLogs :
                MM[raft[i].Term] = appendEntry(raftLog[i], raft[i].Term, data).ents /\ Facts(MM)
                    => MatchOf(MM, net, i, raft[i].Term, prs),
           raftLog' = [raftLog EXCEPT ![i] = appendEntry(raftLog[i], raft[i].Term, data)],
           trk' = [trk EXCEPT ![i] =
                     ProgressOf(bcastAppend(i, prs, appendEntry(raftLog[i], raft[i].Term, data)))],
           Send(i, MsgsOf(bcastAppend(i, prs, appendEntry(raftLog[i], raft[i].Term, data))),
                   {AppResp(i, i, raft[i].Term,
                            lastIndex(appendEntry(raftLog[i], raft[i].Term, data)))}),
           elected' = elected \cup {<<raft[i].Term, i>>}, raft[i].Term <= disk[i].Term,
           UNCHANGED <<disk, appendQ>>
    PROVE  LogInv'
<1>. DEFINE T == raft[i].Term
            s == raftLog[i].ents
            C == CertifiedBy(net)
            R == RefutedBy(net, disk)
            lg == appendEntry(raftLog[i], T, data)
            out == bcastAppend(i, prs, lg)
            own == AppResp(i, i, T, lastIndex(lg))
            snap == disk[i].snapshot
<1>1. /\ IndType /\ TypeOK /\ T \in Nat /\ s \in Seq(Entry) /\ raftLog[i] \in LogType
      /\ disk[i].Term \in Nat /\ disk[i].Term <= T
      /\ snap \in Seq(Entry) /\ Len(snap) \in Nat
      /\ raftLog[i].committed \in Nat /\ raftLog[i].first \in Nat
      /\ raftLog[i].first <= raftLog[i].committed + 1 /\ r.Term = T
  BY LogTypes, TermsForward DEF Valid, IndType, RangeInv
<1>2. /\ lg \in LogType /\ lg.ents \in Seq(Entry) /\ lg.committed = raftLog[i].committed
      /\ lg.first = raftLog[i].first /\ Len(lg.ents) = Len(s) + 1
      /\ Agree(lg.ents, s, Len(s)) /\ lg.ents[Len(lg.ents)].term = T
      /\ lastIndex(lg) = Len(lg.ents)
  <2>1. lg \in LogType /\ lg.committed = raftLog[i].committed
    BY <1>1, AppendEntryType
  <2>2. lg.ents = Append(s, [term |-> T, data |-> data]) /\ lg.first = raftLog[i].first
    BY <1>1 DEF appendEntry, LogType
  <2>3. [term |-> T, data |-> data] \in Entry
    BY <1>1 DEF Entry
  <2>. HIDE DEF lg
  <2>4. /\ lg.ents \in Seq(Entry) /\ Len(lg.ents) = Len(s) + 1
        /\ \A n \in 1..Len(s) : lg.ents[n] = s[n]
        /\ lg.ents[Len(s) + 1] = [term |-> T, data |-> data]
    <3>. HIDE DEF s
    <3>. QED
      BY <1>1, <2>2, <2>3, AppendProperties
  <2>. HIDE DEF s
  <2>5. Agree(lg.ents, s, Len(s)) /\ lg.ents[Len(lg.ents)].term = T
    BY <1>1, <2>4 DEF Agree
  <2>. QED
    BY <2>1, <2>2, <2>4, <2>5 DEF lastIndex
<1>. HIDE DEF lg
<1>3. PICK MM : /\ MM \in LeaderLogs /\ MM[T] = lg.ents /\ lg.ents # << >>
                /\ \A t \in Nat : t # T => MM[t] = LL[t]
                /\ Extends(LL, MM) /\ Facts(MM) /\ Complete(MM, R) /\ Sound(MM, T, lg.ents)
  <2>. DEFINE MM == [LL EXCEPT ![T] = lg.ents]
  <2>1. /\ MM \in LeaderLogs /\ MM[T] = lg.ents /\ lg.ents # << >>
        /\ \A t \in Nat : t # T => MM[t] = LL[t]
        /\ Extends(LL, MM) /\ Facts(MM) /\ Complete(MM, R) /\ Sound(MM, T, lg.ents)
    BY <1>2, HistoryGrows
  <2>. HIDE DEF MM
  <2>. QED
    BY <2>1
<1>4. Backed(MM, C, T, lg.ents, lg.committed)
  <2>1. Backed(MM, C, T, s, raftLog[i].committed)
    BY <1>3 DEF Facts, LogsTrue, LogTrue
  <2>2. raftLog[i].committed <= Len(s)
    BY <1>1, <1>3, <2>1, BackedInRange
  <2>3. Agree(lg.ents, s, raftLog[i].committed) /\ T <= T /\ raftLog[i].committed <= raftLog[i].committed
    BY <1>1, <1>2, <2>2 DEF Agree
  <2>. HIDE DEF T, s, C
  <2>. QED
    BY <1>1, <1>2, <1>3, <2>1, <2>3, BackedMoves
<1>5. LeadsWith(MM, i, lg)
  <2>1. Backed(MM, C, disk[i].Term, snap, Len(snap))
    BY <1>3 DEF Facts, LogsTrue, SavedTrue
  <2>2. Agree(snap, MM[T], Len(snap))
    BY <1>1, <1>3, <2>1, LeaderHas
  <2>3. Backed(MM, C, T, snap, Len(snap))
    <3>1. Agree(snap, snap, Len(snap)) /\ Len(snap) <= Len(snap)
      BY <1>1 DEF Agree
    <3>. HIDE DEF T, snap, C
    <3>. QED
      BY <1>1, <1>3, <2>1, <3>1, BackedMoves
  <2>. QED
    BY <1>3, <1>4, <2>2, <2>3 DEF LeadsWith
<1>6. GoesOn(MM, i, r, lg)
  <2>1. LogTrue(MM, C, T, lg.ents, lg.committed)
    BY <1>3, <1>4 DEF LogTrue
  <2>2. KeepsCommon(s, MM[T], lg.ents)
    BY <1>1, <1>2 DEF KeepsCommon, Agree
  <2>3. \A m \in Acks(Made(i), i) : Kept(MM, R, T, lg.ents, m)
    <3>1. \A m \in Acks(Made(i), i) : m.term \in Nat /\ m.index \in Nat /\ Kept(MM, R, T, s, m)
      BY <1>1, <1>3, MadeTypes DEF Facts, AcksKept
    <3>2. MM[T] # << >> /\ T <= T
      BY <1>1, <1>3
    <3>. HIDE DEF T, s, R
    <3>. QED
      BY <1>1, <1>2, <1>3, <2>2, <3>1, <3>2, KeptAfter
  <2>. QED
    BY <1>1, <1>2, <2>1, <2>3 DEF GoesOn
<1>7. /\ \A n \in MsgsOf(out) : MsgTrue(MM, net, n) /\ n.type \in {"MsgApp", "MsgSnap"}
      /\ \A j \in Server : ProgressOf(out)[j].Match = prs[j].Match
  <2>1. out = SendAppends(i, prs, lg, Server \ {i}, 1, TRUE) /\ 1 \in Nat
    BY DEF bcastAppend
  <2>2. \A j \in Server : \A e :
            ProgressOf(SendAppends(i, prs, lg, Server \ {i}, 1, e))[j].Match = prs[j].Match
    BY RoundKeepsMatch
  <2>3. \A n \in MsgsOf(SendAppends(i, prs, lg, Server \ {i}, 1, TRUE)) :
            MsgTrue(MM, net, n) /\ n.type \in {"MsgApp", "MsgSnap"}
    BY <1>1, <1>2, <1>5, <2>1, RoundTrue, Zenon
  <2>4. \A j \in Server :
            ProgressOf(SendAppends(i, prs, lg, Server \ {i}, 1, TRUE))[j].Match = prs[j].Match
    BY <2>2, Zenon
  <2>. HIDE DEF out
  <2>. QED
    BY <2>1, <2>3, <2>4
<1>. HIDE DEF out
<1>8. \A n \in {own} \cup MsgsOf(out) : MaySend(MM, i, r, lg, n)
  <2>1. MaySend(MM, i, r, lg, own)
    <3>1. Agree(lg.ents, MM[r.Term], lastIndex(lg))
      BY <1>1, <1>2, <1>3 DEF Agree
    <3>. QED
      BY <1>1, <3>1, AckMay
  <2>2. \A n \in MsgsOf(out) : MaySend(MM, i, r, lg, n)
    BY <1>7, LeaderMay DEF LeaderTypes
  <2>. HIDE DEF own
  <2>. QED
    BY <2>1, <2>2
<1>9. /\ raftLog' = [raftLog EXCEPT ![i] = lg] /\ trk' = [trk EXCEPT ![i] = ProgressOf(out)]
      /\ Send(i, MsgsOf(out), {own})
  BY DEF lg, out
<1>. HIDE DEF own
<1>10. Moves(i, r, lg, {own} \cup MsgsOf(out))
  <2>1. net' = net /\ pend' = [pend EXCEPT ![i] = @ \cup ({own} \cup MsgsOf(out))]
    BY <1>1, <1>9, SyncSend
  <2>2. \A j \in Server : j # i => trk'[j] = trk[j]
    BY <1>1, <1>9 DEF TypeOK
  <2>. QED
    BY <1>9, <2>1, <2>2 DEF Moves
<1>11. MatchOf(MM, net, i, r.Term, trk'[i])
  <2>1. MatchOf(MM, net, i, T, prs)
    BY <1>3 DEF lg
  <2>2. trk'[i] = ProgressOf(out)
    BY <1>1, <1>9 DEF TypeOK
  <2>. QED
    BY <1>1, <1>7, <2>1, <2>2, MatchSame
<1>12. Elects(i, r, elected')
  BY <1>1 DEF Elects
<1>13. Facts(MM)' /\ SyncInv' /\ RangeInv'
  <2>1. ElectionInv /\ SyncInv /\ RangeInv
    BY DEF Valid
  <2>2. /\ raft' = [raft EXCEPT ![i] = r] /\ raftLog' = [raftLog EXCEPT ![i] = lg]
        /\ pend' = [pend EXCEPT ![i] = @ \cup ({own} \cup MsgsOf(out))]
        /\ UNCHANGED <<disk, appendQ, net>> /\ \A j \in Server : j # i => trk'[j] = trk[j]
    BY <1>10 DEF Moves
  <2>. QED
    BY <1>1, <1>3, <1>6, <1>8, <1>11, <1>12, <2>1, <2>2, MemStep
<1>14. LeadersOf(MM)'
  <2>1. \A j \in Server : raft'[j] = (IF j = i THEN r ELSE raft[j])
                          /\ raftLog'[j] = (IF j = i THEN lg ELSE raftLog[j])
    BY <1>1, <1>9 DEF TypeOK
  <2>2. ASSUME NEW j \in Server, raft'[j].state = "StateLeader"
        PROVE  raftLog'[j].ents = MM[raft'[j].Term]
    <3>1. CASE j = i
      BY <1>1, <1>3, <2>1, <3>1
    <3>2. CASE j # i
      <4>1. raft[j].Term \in Nat /\ raftLog[j].ents = LL[raft[j].Term]
        BY <1>1, <2>1, <2>2, <3>2, LogTypes DEF Valid, LeadersOf
      <4>2. <<raft[j].Term, j>> \in elected' /\ <<T, i>> \in elected'
        BY <2>1, <2>2, <3>2 DEF LeadInv, LeadRecord
      <4>3. raft[j].Term # T
        <5>1. \A e, f \in elected' : e[1] = f[1] => e[2] = f[2]
          BY DEF ElectionSafety
        <5>2. raft[j].Term = T => j = i
          BY <4>2, <5>1
        <5>. QED
          BY <3>2, <5>2
      <4>. QED
        BY <1>3, <2>1, <3>2, <4>1, <4>3
    <3>. QED
      BY <3>1, <3>2
  <2>3. ASSUME NEW t \in Nat
        PROVE  MM[t] # << >> <=> \E x \in Server : <<t, x>> \in elected'
    <3>1. CASE t = T
      BY <1>3, <3>1
    <3>2. CASE t # T
      <4>1. \A x : <<t, x>> \in elected' <=> <<t, x>> \in elected
        BY <3>2
      <4>2. LL[t] # << >> <=> \E x \in Server : <<t, x>> \in elected
        BY DEF Valid, LeadersOf
      <4>. QED
        BY <1>3, <3>2, <4>1, <4>2
    <3>. QED
      BY <3>1, <3>2
  <2>. QED
    BY <2>2, <2>3 DEF LeadersOf
<1>15. Complete(MM, RefutedBy(net, disk))'
  BY <1>3, <1>10 DEF Moves
<1>. QED
  BY <1>3, <1>13, <1>14, <1>15 DEF LogInv

\* A step that sends messages that say nothing, and changes nothing else.
LEMMA LogIdle ==
    ASSUME IndType', NEW LL \in LeaderLogs, Valid(LL), ~AsyncStorageWrites,
           NEW i \in Server, raft[i].state = "StateFollower", NEW m, Idle(m), Send(i, {m}, {}),
           UNCHANGED <<raft, trk, raftLog, disk, appendQ, elected>>
    PROVE  LogInv'
<1>. DEFINE new == {} \cup {m}
<1>1. IndType /\ TypeOK /\ raft[i].Term \in Nat
  BY LogTypes DEF Valid, IndType
<1>2. Moves(i, raft[i], raftLog[i], new)
  <2>1. net' = net /\ pend' = [pend EXCEPT ![i] = @ \cup new]
    BY <1>1, SyncSend
  <2>. HIDE DEF new
  <2>. QED
    BY <1>1, <2>1, SameLog DEF Moves
<1>3. \A n \in new : MaySend(LL, i, raft[i], raftLog[i], n)
  BY IdleMay
<1>4. raft[i].Term >= raft[i].Term
  BY <1>1
<1>. HIDE DEF new
<1>. QED
  BY <1>2, <1>3, <1>4, OtherIdles

\* MsgProp: the leader appends, a follower forwards.
LEMMA LogProp ==
    ASSUME IndType', ElectionSafety', LeadInv', NEW LL \in LeaderLogs, Valid(LL),
           ~AsyncStorageWrites,
           NEW i \in Server, NEW from, NEW v \in Value, StepProp(i, from, v)
    PROVE  LogInv'
<1>. DEFINE T == raft[i].Term
            lg == appendEntry(raftLog[i], T, v)
            out == bcastAppend(i, trk[i], lg)
<1>1. IndType /\ TypeOK /\ trk[i] \in [Server -> ProgressType] /\ T \in Nat
  BY ServerFacts, LogTypes DEF Valid, IndType, TypeOK
<1>2. UNCHANGED <<raft, disk, appendQ, elected>>
  BY DEF StepProp
<1>3. CASE /\ raft[i].state = "StateLeader" /\ raftLog' = [raftLog EXCEPT ![i] = lg]
           /\ trk' = [trk EXCEPT ![i] = ProgressOf(out)]
           /\ Send(i, MsgsOf(out), {AppResp(i, i, T, lastIndex(lg))})
  <2>1. /\ LL[T] # << >> /\ LL[T] \in Seq(Entry) /\ <<T, i>> \in elected
        /\ raftLog[i].ents = LL[T]
    BY <1>3, LeaderNow DEF Valid, LeadersOf
  <2>2. Agree(raftLog[i].ents, LL[T], Len(LL[T]))
    BY <2>1 DEF Agree
  <2>3. \A t \in Nat : t < T => Holds(LL, RefutedBy(net, disk), raftLog[i].ents, t, Len(LL[t]))
    BY <1>1, <2>1 DEF Valid, Complete
  <2>4. T <= disk[i].Term
    BY <2>1 DEF Valid, SyncInv, KnownFromDisk
  <2>5. elected' = elected \cup {<<T, i>>} /\ raft' = [raft EXCEPT ![i] = raft[i]]
    BY <1>1, <1>2, <2>1, SameLog
  <2>6. \A MM \in LeaderLogs : Facts(MM) => MatchOf(MM, net, i, T, trk[i])
    BY <1>3 DEF Facts, MatchTrue
  <2>7. v \in Value \cup {NoData} /\ raft[i].Term = T
    OBVIOUS
  <2>. HIDE DEF T
  <2>. QED
    BY <1>1, <1>2, <1>3, <2>2, <2>3, <2>4, <2>5, <2>6, <2>7, LeaderAppends
<1>4. CASE /\ raft[i].state = "StateFollower" /\ Send(i, {Prop(from, raft[i].lead, v)}, {})
           /\ UNCHANGED <<raftLog, trk>>
  <2>1. Idle(Prop(from, raft[i].lead, v))
    BY DEF Prop, Idle, LeaderTypes
  <2>. QED
    BY <1>2, <1>4, <2>1, LogIdle
<1>. QED
  BY <1>3, <1>4 DEF StepProp, Leads

\* RawNode.TransferLeader and forwarded requests.
LEMMA LogTransfers ==
    ASSUME IndType', NEW LL \in LeaderLogs, Valid(LL), ~AsyncStorageWrites,
           NEW i \in Server, NEW x \in Server, TransferLeader(i, x)
    PROVE  LogInv'
<1>1. CASE leaderTransfer(i, x)
  BY <1>1, LogTransfer
<1>2. CASE ~leaderTransfer(i, x)
  <2>1. Idle(Plain("MsgTransferLeader", x, raft[i].lead, raft[i].Term))
    BY DEF Plain, Idle, LeaderTypes
  <2>. QED
    BY <1>2, <2>1, LogIdle DEF TransferLeader
<1>. QED
  BY <1>1, <1>2

-----------------------------------------------------------------------------
(* Elections.                                                              *)

\* becomeFollower in our term or a later one, without a message.
LEMMA LogBecome ==
    ASSUME IndType', NEW LL \in LeaderLogs, Valid(LL), NEW i \in Server,
           NEW term \in Nat, term >= raft[i].Term, NEW lead, NEW through,
           Become(i, becomeFollower(raft[i], term, lead), through),
           UNCHANGED <<raftLog, disk, pend, appendQ, net, elected>>
    PROVE  LogInv'
<1>. DEFINE f == becomeFollower(raft[i], term, lead)
            new == {}
<1>1. TypeOK /\ IndType /\ raft[i] \in RaftType
  BY ServerFacts DEF Valid, IndType
<1>2. f.Term = term /\ f.state = "StateFollower"
  BY <1>1, BecomeForward
<1>. HIDE DEF f
<1>3. raft' = [raft EXCEPT ![i] = f] /\ \A j \in Server : j # i => trk'[j] = trk[j]
  BY <1>1 DEF Become, TypeOK, f
<1>4. Moves(i, f, raftLog[i], new)
  BY <1>1, <1>3, SameLog, NoSend DEF Moves
<1>5. \A m \in new : MaySend(LL, i, f, raftLog[i], m)
  OBVIOUS
<1>. HIDE DEF new
<1>. QED
  BY <1>2, <1>4, <1>5, OtherIdles

\* A candidate asks for votes with the end of its log.
LEMMA LogCampaign ==
    ASSUME IndType', NEW LL \in LeaderLogs, Valid(LL), ~AsyncStorageWrites, NEW i \in Server,
           NEW r \in RaftType, r.Term >= raft[i].Term, NEW pre \in BOOLEAN, NEW transfer,
           campaign(i, r, pre, transfer), UNCHANGED <<raftLog, disk, appendQ, elected>>
    PROVE  LogInv'
<1>. DEFINE c    == IF pre THEN becomePreCandidate(r) ELSE becomeCandidate(r, i)
            type == IF pre THEN "MsgPreVote" ELSE "MsgVote"
            own  == VoteResp(RespType(type), i, i, r.Term + 1, FALSE)
            asks == {Vote(type, i, j, r.Term + 1, raftLog[i], transfer) : j \in Voters \ {i}}
            new  == {own} \cup asks
<1>1. TypeOK /\ IndType /\ raft[i].Term \in Nat /\ r.Term \in Nat
  BY LogTypes DEF Valid, IndType, RaftType
<1>2. /\ raft' = [raft EXCEPT ![i] = c] /\ \A j \in Server : j # i => trk'[j] = trk[j]
      /\ Send(i, asks, {own})
  BY <1>1 DEF campaign, TypeOK
<1>3. /\ pre => c.state = "StatePreCandidate" /\ c.Term = r.Term
      /\ ~pre => c.state = "StateCandidate" /\ c.Term = r.Term + 1
  BY <1>1 DEF becomePreCandidate, becomeCandidate, reset, RaftType
<1>. HIDE DEF c
<1>4. c.Term >= raft[i].Term /\ (c.state = "StateCandidate" => c.Term > raft[i].Term)
      /\ c.state # "StateLeader"
  BY <1>1, <1>3
<1>5. \A m \in new : MaySend(LL, i, c, raftLog[i], m)
  <2>1. CASE pre
    <3>1. Idle(own) /\ \A m \in asks : Idle(m)
      BY <2>1 DEF Idle, LeaderTypes, Vote, VoteResp, RespType
    <3>. HIDE DEF own, asks
    <3>. QED
      BY <3>1, IdleMay
  <2>2. CASE ~pre
    <3>1. MaySend(LL, i, c, raftLog[i], own)
      BY <1>3, <2>2 DEF MaySend, MsgTrue, Ack, Grant, VoteResp, RespType
    <3>2. \A m \in asks : MaySend(LL, i, c, raftLog[i], m)
      BY <1>3, <2>2 DEF MaySend, MsgTrue, Ack, Grant, Vote
    <3>. HIDE DEF own, asks
    <3>. QED
      BY <3>1, <3>2
  <2>. QED
    BY <2>1, <2>2
<1>. HIDE DEF own, asks
<1>6. Moves(i, c, raftLog[i], new)
  <2>1. net' = net /\ pend' = [pend EXCEPT ![i] = @ \cup new]
    BY <1>1, <1>2, SyncSend
  <2>. HIDE DEF new
  <2>. QED
    BY <1>1, <1>2, <2>1, SameLog DEF Moves
<1>. HIDE DEF new
<1>. QED
  BY <1>4, <1>5, <1>6, OtherIdles

\* Campaign, and MsgTimeoutNow, which starts one in the term it is of.
LEMMA LogCampaigns ==
    ASSUME IndType', NEW LL \in LeaderLogs, Valid(LL), ~AsyncStorageWrites, NEW i \in Server,
           NEW m \in Message, Campaign(i) \/ PollPreVoteWon(i, m) \/ HandleTimeoutNow(i, m)
    PROVE  LogInv'
<1>1. raft[i] \in RaftType /\ raft[i].Term \in Nat /\ raft[i].Term >= raft[i].Term
  BY ServerFacts DEF Valid, IndType, RaftType
<1>2. CASE Campaign(i)
  BY <1>1, <1>2, LogCampaign, OptionAssumption DEF Campaign
<1>3. CASE PollPreVoteWon(i, m)
  <2>1. campaign(i, raft[i], FALSE, FALSE) /\ UNCHANGED <<raftLog, disk, appendQ, elected>>
        /\ FALSE \in BOOLEAN
    BY <1>3 DEF PollPreVoteWon
  <2>. QED
    BY <1>1, <2>1, LogCampaign, Zenon
<1>4. CASE HandleTimeoutNow(i, m)
  <2>. DEFINE higher == m.term > raft[i].Term
              r == IF higher THEN becomeFollower(raft[i], m.term, None) ELSE raft[i]
  <2>1. m.term \in Nat
    BY <1>4, MessageTerm DEF HandleTimeoutNow
  <2>2. r \in RaftType /\ r.Term >= raft[i].Term
    <3>1. CASE higher
      <4>1. m.term >= raft[i].Term
        BY <1>1, <2>1, <3>1
      <4>2. becomeFollower(raft[i], m.term, None) \in RaftType
        BY <1>1, <2>1, RecordTypes
      <4>. QED
        BY <1>1, <2>1, <3>1, <4>1, <4>2, BecomeForward
    <3>2. CASE ~higher
      BY <1>1, <3>2
    <3>. QED
      BY <3>1, <3>2
  <2>3. UNCHANGED <<raftLog, disk, appendQ, elected>>
    BY <1>4 DEF HandleTimeoutNow
  <2>4. CASE campaign(i, r, FALSE, TRUE)
    <3>1. FALSE \in BOOLEAN
      OBVIOUS
    <3>. HIDE DEF r
    <3>. QED
      BY <2>2, <2>3, <2>4, <3>1, LogCampaign, Zenon
  <2>5. CASE Become(i, r, higher) /\ UNCHANGED <<pend, net>>
    <3>1. CASE higher
      <4>1. m.term >= raft[i].Term /\ Become(i, becomeFollower(raft[i], m.term, None), higher)
        BY <1>1, <2>1, <2>5, <3>1
      <4>. HIDE DEF higher
      <4>. QED
        BY <2>1, <2>3, <2>5, <4>1, LogBecome
    <3>2. CASE ~higher
      <4>. DEFINE new == {}
      <4>1. raft[i].state = "StateFollower"
        BY <1>4, <3>2 DEF HandleTimeoutNow
      <4>2. Moves(i, raft[i], raftLog[i], new)
        <5>1. raft' = [raft EXCEPT ![i] = raft[i]] /\ trk' = trk
          BY <2>5, <3>2 DEF Become
        <5>. QED
          BY <2>3, <2>5, <5>1, SameLog, NoSend DEF Moves, Valid, IndType
      <4>3. \A n \in new : MaySend(LL, i, raft[i], raftLog[i], n)
        OBVIOUS
      <4>. HIDE DEF new
      <4>. QED
        BY <1>1, <2>3, <4>1, <4>2, <4>3, OtherIdles
    <3>. QED
      BY <3>1, <3>2
  <2>. QED
    BY <1>4, <2>4, <2>5 DEF HandleTimeoutNow
<1>. QED
  BY <1>2, <1>3, <1>4

\* Responses that end a candidacy, or show a later term.
LEMMA LogStepDown ==
    ASSUME IndType', NEW LL \in LeaderLogs, Valid(LL), NEW i \in Server, NEW m \in Message,
           PollPending(i, m) \/ PollLost(i, m) \/ StepDown(i, m)
    PROVE  LogInv'
<1>1. raft[i] \in RaftType /\ raft[i].Term \in Nat /\ raft[i].Term >= raft[i].Term /\ TypeOK
  BY ServerFacts DEF Valid, IndType, RaftType
<1>2. CASE PollPending(i, m)
  <2>. DEFINE new == {}
  <2>1. raft[i].state # "StateLeader" /\ UNCHANGED <<raft, trk, raftLog, disk, pend, appendQ, net, elected>>
    BY <1>2 DEF PollPending, IsPoll
  <2>2. Moves(i, raft[i], raftLog[i], new)
    BY <1>1, <2>1, SameLog, NoSend DEF Moves
  <2>3. \A n \in new : MaySend(LL, i, raft[i], raftLog[i], n)
    OBVIOUS
  <2>. HIDE DEF new
  <2>. QED
    BY <1>1, <2>1, <2>2, <2>3, OtherIdles
<1>3. CASE PollLost(i, m)
  <2>1. /\ Become(i, becomeFollower(raft[i], raft[i].Term, None), TRUE)
        /\ UNCHANGED <<raftLog, disk, pend, appendQ, net, elected>>
    BY <1>3 DEF PollLost
  <2>. QED
    BY <1>1, <2>1, LogBecome, Zenon
<1>4. CASE StepDown(i, m)
  <2>1. m.type # "MsgProp" /\ m.term > raft[i].Term
        /\ Become(i, becomeFollower(raft[i], m.term, None), TRUE)
        /\ UNCHANGED <<raftLog, disk, pend, appendQ, net, elected>>
    BY <1>4 DEF StepDown
  <2>2. m.term \in Nat
    BY <2>1, MessageTerm
  <2>3. m.term >= raft[i].Term
    BY <1>1, <2>1, <2>2
  <2>. QED
    BY <2>1, <2>2, <2>3, LogBecome, Zenon
<1>. QED
  BY <1>2, <1>3, <1>4

\* A vote is granted to a candidate whose log has what the voter acknowledged.
LEMMA LogVote ==
    ASSUME IndType', NEW LL \in LeaderLogs, Valid(LL), ~AsyncStorageWrites, NEW i \in Server,
           NEW m \in net, HandleVote(i, m)
    PROVE  LogInv'
<1>. DEFINE higher == m.term > raft[i].Term
            adopt == higher /\ m.type = "MsgVote"
            r     == IF adopt THEN becomeFollower(raft[i], m.term, None) ELSE raft[i]
            grant == canVote(r, m) /\ isUpToDate(raftLog[i], m.index, m.logTerm)
            v     == IF grant /\ m.type = "MsgVote"
                     THEN [r EXCEPT !.Vote = m.from, !.timedOut = FALSE] ELSE r
            resp  == VoteResp(RespType(m.type), i, m.from,
                              IF grant THEN m.term ELSE r.Term, ~grant)
            R     == RefutedBy(net, disk)
            new   == {resp} \cup {}
<1>1. /\ TypeOK /\ IndType /\ raft[i] \in RaftType /\ raft[i].Term \in Nat
      /\ m \in Message /\ m.term \in Nat /\ m.from \in Server
  <2>1. TypeOK /\ IndType /\ raft[i] \in RaftType /\ raft[i].Term \in Nat /\ m \in Message
    BY ServerFacts, LogTypes DEF Valid, IndType, TypeOK
  <2>. QED
    BY <2>1, MessageTerm DEF HandleVote
<1>2. /\ m.type \in {"MsgVote", "MsgPreVote"} /\ m.term >= raft[i].Term
      /\ Become(i, v, adopt) /\ Send(i, {}, {resp})
      /\ UNCHANGED <<raftLog, disk, appendQ, elected>>
  BY DEF HandleVote
<1>3. /\ r \in RaftType /\ r.Term \in Nat /\ r.Term >= raft[i].Term
      /\ m.type = "MsgVote" => r.Term = m.term
      /\ \/ r.state = "StateFollower"
         \/ ~adopt /\ r = raft[i]
  <2>1. CASE adopt
    <3>1. becomeFollower(raft[i], m.term, None) \in RaftType
      BY <1>1, RecordTypes
    <3>2. becomeFollower(raft[i], m.term, None).Term = m.term
          /\ becomeFollower(raft[i], m.term, None).state = "StateFollower"
      BY <1>1, <1>2, BecomeForward
    <3>. QED
      BY <1>1, <1>2, <2>1, <3>1, <3>2
  <2>2. CASE ~adopt
    BY <1>1, <1>2, <2>2
  <2>. QED
    BY <2>1, <2>2
<1>4. v.Term = r.Term /\ v.state = r.state
  <2>. HIDE DEF r, grant
  <2>. QED
    BY <1>3 DEF RaftType
<1>. HIDE DEF r, v, adopt, grant, resp
<1>5. /\ raft' = [raft EXCEPT ![i] = v] /\ \A j \in Server : j # i => trk'[j] = trk[j]
      /\ ~adopt => trk' = trk
  BY <1>1, <1>2 DEF Become, TypeOK
<1>6. Moves(i, v, raftLog[i], new)
  <2>1. net' = net /\ pend' = [pend EXCEPT ![i] = @ \cup new]
    BY <1>1, <1>2, SyncSend
  <2>. HIDE DEF new
  <2>. QED
    BY <1>1, <1>2, <1>5, <2>1, SameLog DEF Moves
<1>7. GoesOn(LL, i, v, raftLog[i])
  BY <1>3, <1>4, StaysSame
<1>8. v.state = "StateLeader" =>
        /\ raft[i].state = "StateLeader" /\ v.Term = raft[i].Term
        /\ MatchOf(LL, net, i, v.Term, trk'[i])
  <2>. HAVE v.state = "StateLeader"
  <2>1. ~adopt /\ r = raft[i] /\ raft[i].state = "StateLeader" /\ trk' = trk
    BY <1>3, <1>4, <1>5
  <2>. QED
    BY <1>4, <2>1, LeaderNow
<1>9. MaySend(LL, i, v, raftLog[i], resp)
  <2>1. CASE m.type = "MsgPreVote"
    <3>1. Idle(resp)
      BY <2>1 DEF resp, VoteResp, RespType, Idle, LeaderTypes
    <3>. QED
      BY <3>1, IdleMay
  <2>2. CASE m.type = "MsgVote" /\ ~grant
    <3>1. resp.type = "MsgVoteResp" /\ resp.reject
      BY <2>2 DEF resp, VoteResp, RespType
    <3>. QED
      BY <3>1, RejectMay
  <2>3. CASE m.type = "MsgVote" /\ grant
    <3>1. /\ resp.type = "MsgVoteResp" /\ resp.from = i /\ resp.to = m.from
          /\ resp.term = m.term
      BY <2>3 DEF resp, VoteResp, RespType
    <3>2. m.term = v.Term /\ m.term <= disk[m.from].Term
      BY <1>3, <1>4, <2>3 DEF Valid, SyncInv, KnownFromDisk
    <3>3. ASSUME raft[m.from].state = "StateCandidate", raft[m.from].Term = m.term,
                 NEW a \in Acks(Made(i), i)
          PROVE  Holds(LL, R, raftLog[m.from].ents, a.term, a.index)
      <4>1. m.index = lastIndex(raftLog[m.from]) /\ m.logTerm = lastTerm(raftLog[m.from])
        <5>1. AsksOnce(m.from) /\ m \in Made(m.from)
          BY <1>1 DEF Valid, SyncInv, Made
        <5>. QED
          BY <2>3, <3>3, <5>1 DEF AsksOnce
      <4>2. isUpToDate(raftLog[i], lastIndex(raftLog[m.from]), lastTerm(raftLog[m.from]))
        BY <2>3, <4>1 DEF grant
      <4>3. /\ a.term \in Nat /\ a.index \in Nat /\ a.index <= Len(LL[a.term])
            /\ Holds(LL, R, raftLog[i].ents, a.term, a.index)
        BY <1>1, <3>3, MadeTypes DEF Valid, Facts, AcksKept, Kept
      <4>4. /\ Complete(LL, R) /\ \A u \in Nat : Sound(LL, u, LL[u])
            /\ Sound(LL, raft[i].Term, raftLog[i].ents)
            /\ Sound(LL, raft[m.from].Term, raftLog[m.from].ents)
        BY <1>1 DEF Valid, Facts, LeadersSound, LogsTrue, LogTrue
      <4>5. /\ raftLog[i] \in LogType /\ raftLog[m.from] \in LogType
            /\ raft[m.from].Term \in Nat
        BY <1>1, LogTypes
      <4>. HIDE DEF R
      <4>. QED
        BY <1>1, <4>2, <4>3, <4>4, <4>5, VoterInforms
    <3>4. ~Ack(resp) /\ resp.type # "MsgVote" /\ MsgTrue(LL, net, resp)
      BY <3>1 DEF Ack, MsgTrue
    <3>. QED
      BY <3>1, <3>2, <3>3, <3>4 DEF MaySend
  <2>. QED
    BY <1>2, <2>1, <2>2, <2>3
<1>10. \A n \in new : MaySend(LL, i, v, raftLog[i], n)
  BY <1>9
<1>. HIDE DEF new
<1>. QED
  BY <1>2, <1>6, <1>7, <1>8, <1>10, MemKeeps

(***************************************************************************)
(* The log of a candidate that wins has everything that earlier leaders    *)
(* made and that can be committed: of the quorum that elected it, someone  *)
(* acknowledged an entry and told with its vote that the candidate has it, *)
(* or all of them left the entry's term without it.                        *)
(***************************************************************************)
LEMMA WinnerHolds ==
    ASSUME NEW LL \in LeaderLogs, Valid(LL), NEW i \in Server,
           raft[i].state = "StateCandidate",
           IsJointQuorum(Config, Granters(raft[i].Term, i)),
           NEW t \in Nat, t < raft[i].Term
    PROVE  Holds(LL, RefutedBy(net, disk), raftLog[i].ents, t, Len(LL[t]))
<1>. DEFINE T == raft[i].Term
            R == RefutedBy(net, disk)
<1>1. IndType /\ ElectionInv /\ T \in Nat /\ LL[t] \in Seq(Entry)
  BY LogTypes DEF Valid, LeaderLogs
<1>. SUFFICES ASSUME NEW k \in 1..Len(LL[t]), LL[t][k].term = t, <<t, k>> \notin R
              PROVE  Agree(raftLog[i].ents, LL[t], k)
  BY DEF Holds
<1>2. ASSUME NEW j \in Granters(T, i) PROVE disk[j].Term > t
  <2>1. PICK g \in net : Grant(g) /\ g.from = j /\ g.to = i /\ g.term = T
    BY <1>2 DEF Granters
  <2>2. Backs(disk[j], g) /\ j \in Server
    BY <1>1, <1>2, <2>1 DEF ElectionInv, GrantsBacked, Granters
  <2>3. disk[j].Term \in Nat
    BY <1>1, <2>2, LogTypes
  <2>. QED
    BY <1>1, <2>1, <2>2, <2>3 DEF Backs
<1>3. PICK j \in Granters(T, i) : j \in AckedAt(net, t, k)
  <2>. SUFFICES ASSUME \A j \in Granters(T, i) : j \notin AckedAt(net, t, k) PROVE FALSE
    OBVIOUS
  <2>1. Granters(T, i) \in SUBSET Server /\ <<t, k>> \in Nat \X Nat
    BY DEF Granters
  <2>. QED
    BY <1>2, <2>1 DEF RefutedBy
<1>4. PICK g \in net : Grant(g) /\ g.from = j /\ g.to = i /\ g.term = T
  BY DEF Granters
<1>5. PICK a \in net : Ack(a) /\ a.from = j /\ a.term = t /\ a.index >= k
  BY <1>3 DEF AckedAt
<1>6. j \in Server /\ g \in Granted(j) /\ a \in Acks(Made(j), j)
  BY <1>4, <1>5 DEF Granters, Granted, Acks, Made
<1>7. Holds(LL, R, raftLog[i].ents, a.term, a.index)
  BY <1>4, <1>5, <1>6 DEF Valid, Facts, Informed
<1>8. k \in 1..a.index
  <2>1. a.index \in Nat
    BY <1>1, <1>6, MadeTypes
  <2>. QED
    BY <1>5, <2>1
<1>. QED
  BY <1>5, <1>7, <1>8 DEF Holds

\* becomeLeader: the new leader's log starts the history of its term.
LEMMA LogPollWon ==
    ASSUME IndType', ElectionInv', ElectionSafety', LeadInv', NEW LL \in LeaderLogs, Valid(LL),
           ~AsyncStorageWrites, NEW i \in Server, NEW m \in Message, PollWon(i, m)
    PROVE  LogInv'
<1>. DEFINE T == raft[i].Term
            s == raftLog[i].ents
            r == becomeLeader(raft[i], i)
            prs == leaderProgress(i, raftLog[i])
            lg == appendEntry(raftLog[i], T, NoData)
            out == bcastAppend(i, prs, lg)
<1>1. /\ IndType /\ TypeOK /\ T \in Nat /\ raft[i] \in RaftType /\ raftLog[i] \in LogType
      /\ s \in Seq(Entry) /\ LL[T] \in Seq(Entry) /\ disk[i].Term \in Nat /\ ElectionInv
  <2>1. IndType /\ TypeOK /\ T \in Nat /\ ElectionInv /\ raft[i] \in RaftType
        /\ raftLog[i] \in LogType /\ s \in Seq(Entry) /\ disk[i].Term \in Nat
    BY ServerFacts, LogTypes DEF Valid, IndType
  <2>. QED
    BY <2>1 DEF LeaderLogs
<1>2. /\ raft[i].state = "StateCandidate" /\ raft' = [raft EXCEPT ![i] = r]
      /\ trk' = [trk EXCEPT ![i] = ProgressOf(out)] /\ raftLog' = [raftLog EXCEPT ![i] = lg]
      /\ elected' = elected \cup {<<T, i>>} /\ UNCHANGED <<disk, appendQ>>
      /\ Send(i, MsgsOf(out), {AppResp(i, i, T, lastIndex(lg))})
  BY DEF PollWon
<1>3. r.Term = T /\ r.state = "StateLeader"
  BY <1>1 DEF becomeLeader, reset, RaftType
<1>4. IsJointQuorum(Config, Granters(T, i))
  <2>1. net' = net
    BY <1>1, <1>2, SyncSend
  <2>2. \A e \in elected' : IsJointQuorum(Config, Granters(e[1], e[2])')
    BY DEF ElectionInv, ElectedByQuorum
  <2>3. \A t, x : Granters(t, x)' = Granters(t, x)
    BY <2>1 DEF Granters
  <2>. HIDE DEF T, r, out, lg
  <2>4. PICK e \in elected' : e[1] = T /\ e[2] = i
    <3>1. <<T, i>> \in elected'
      BY <1>2
    <3>. QED
      BY <3>1
  <2>5. IsJointQuorum(Config, Granters(e[1], e[2]))
    BY <2>2, <2>3
  <2>. QED
    BY <2>4, <2>5
<1>5. LL[T] = << >>
  <2>1. <<T, i>> \notin elected
    BY <1>2 DEF Valid, SyncInv, AsksOnce
  <2>2. ASSUME NEW x \in Server, <<T, x>> \in elected PROVE FALSE
    <3>1. \A e, f \in elected' : e[1] = f[1] => e[2] = f[2]
      BY DEF ElectionSafety
    <3>2. <<T, x>> \in elected' /\ <<T, i>> \in elected'
      BY <1>2, <2>2
    <3>3. x = i
      BY <3>1, <3>2
    <3>. QED
      BY <2>1, <2>2, <3>3
  <2>. QED
    BY <1>1, <2>2 DEF Valid, LeadersOf
<1>6. Agree(s, LL[T], Len(LL[T]))
  BY <1>1, <1>5 DEF Agree
<1>7. \A t \in Nat : t < T => Holds(LL, RefutedBy(net, disk), s, t, Len(LL[t]))
  BY <1>2, <1>4, WinnerHolds
<1>8. T <= disk[i].Term
  <2>1. PICK j \in Server : j \in Granters(T, i)
    <3>1. IsMajority(Incoming, Granters(T, i)) /\ IsFiniteSet(Incoming)
      BY <1>4, FS_Subset DEF IsJointQuorum, Config
    <3>2. \E j \in Incoming : j \in Granters(T, i) /\ j \in Granters(T, i)
      BY <3>1, MajoritiesMeet, Zenon
    <3>. QED
      BY <3>2
  <2>2. PICK g \in net : Grant(g) /\ g.from = j /\ g.to = i /\ g.term = T
    BY <2>1 DEF Granters
  <2>3. CASE j = i
    <3>1. Backs(disk[i], g)
      BY <1>1, <2>2, <2>3 DEF ElectionInv, GrantsBacked
    <3>. QED
      BY <1>1, <2>2, <3>1 DEF Backs
  <2>4. CASE j # i
    <3>1. g \in Granted(j)
      BY <2>2 DEF Granted
    <3>. QED
      BY <2>2, <2>4, <3>1 DEF Valid, SyncInv, KnownFromDisk
  <2>. QED
    BY <2>3, <2>4
<1>9. ASSUME NEW MM \in LeaderLogs, MM[T] = lg.ents PROVE MatchOf(MM, net, i, T, prs)
  <2>1. prs[i].Match = Len(s) /\ \A j \in Server : j # i => prs[j].Match = 0
    BY <1>1 DEF leaderProgress, resetProgress, NewProgress, BecomeReplicate, ResetState, lastIndex
  <2>2. Len(lg.ents) = Len(s) + 1 /\ \A n \in 1..Len(s) : lg.ents[n] = s[n]
    <3>1. lg.ents = Append(s, [term |-> T, data |-> NoData])
      BY <1>1 DEF appendEntry, LogType
    <3>2. [term |-> T, data |-> NoData] \in Entry
      BY <1>1 DEF Entry
    <3>. HIDE DEF s, lg
    <3>. QED
      BY <1>1, <3>1, <3>2, AppendProperties
  <2>3. \A n \in 1..Len(s) : s[n].term < T
    <3>. TAKE n \in 1..Len(s)
    <3>1. s[n].term \in Nat /\ s[n].term <= T /\ Agree(s, LL[s[n].term], n)
      BY <1>1, EntryTerm DEF Valid, Facts, LogsTrue, LogTrue, Sound
    <3>2. s[n].term # T
      <4>. SUFFICES ASSUME s[n].term = T PROVE FALSE
        OBVIOUS
      <4>1. n <= Len(LL[T]) /\ Len(LL[T]) = 0
        BY <1>5, <3>1 DEF Agree
      <4>. QED
        BY <4>1
    <3>. QED
      BY <1>1, <3>1, <3>2
  <2>. HIDE DEF prs, lg, s
  <2>4. Len(s) <= Len(lg.ents)
    BY <1>1, <2>2
  <2>. QED
    BY <1>9, <2>1, <2>2, <2>3, <2>4 DEF MatchOf
<1>10. prs \in [Server -> ProgressType] /\ NoData \in Value \cup {NoData}
  BY <1>1, ProgressMapTypes
<1>11. \A MM \in LeaderLogs : MM[T] = lg.ents /\ Facts(MM) => MatchOf(MM, net, i, T, prs)
  BY <1>9
<1>. HIDE DEF prs, r
<1>. QED
  BY <1>1, <1>2, <1>3, <1>6, <1>7, <1>8, <1>10, <1>11, LeaderAppends

-----------------------------------------------------------------------------
(* The messages of a leader at a follower.                                 *)

\* Steps that leave the record of i alone, except for where its log begins,
\* and send one message.
LEMMA LogSays ==
    ASSUME IndType', NEW LL \in LeaderLogs, Valid(LL), NEW i \in Server,
           NEW lg \in LogType, lg.ents = raftLog[i].ents, lg.committed = raftLog[i].committed,
           lg.first <= lg.committed + 1,
           NEW new, Moves(i, raft[i], lg, new), UNCHANGED <<trk, elected>>,
           \A m \in new : MaySend(LL, i, raft[i], lg, m)
    PROVE  LogInv'
<1>1. raft[i].Term \in Nat /\ raftLog[i].committed \in Nat
  BY LogTypes DEF Valid
<1>2. raft[i].Term >= raft[i].Term /\ lg.committed >= raftLog[i].committed
  BY <1>1
<1>3. GoesOn(LL, i, raft[i], lg)
  BY <1>1, <1>2, StaysOn
<1>4. raft[i].state = "StateLeader" => MatchOf(LL, net, i, raft[i].Term, trk'[i])
  BY LeaderNow
<1>. QED
  BY <1>3, <1>4, MemKeeps

\* Messages of lower terms that are answered.
LEMMA LogLowerTerm ==
    ASSUME IndType', NEW LL \in LeaderLogs, Valid(LL), ~AsyncStorageWrites,
           NEW i \in Server, NEW m, StepLowerTerm(i, m)
    PROVE  LogInv'
<1>. DEFINE resp == IF m.type = "MsgPreVote"
                    THEN VoteResp("MsgPreVoteResp", i, m.from, raft[i].Term, TRUE)
                    ELSE AppResp(i, m.from, raft[i].Term, 0)
            new == {resp} \cup {}
<1>1. /\ Send(i, {}, {resp}) /\ UNCHANGED <<raft, trk, raftLog, disk, appendQ, elected>>
  BY DEF StepLowerTerm
<1>2. /\ TypeOK /\ raftLog[i] \in LogType /\ raftLog[i].ents \in Seq(Entry)
      /\ LL[raft[i].Term] \in Seq(Entry) /\ raftLog[i].first <= raftLog[i].committed + 1
  <2>1. /\ TypeOK /\ raftLog[i] \in LogType /\ raftLog[i].ents \in Seq(Entry)
        /\ raft[i].Term \in Nat /\ raftLog[i].first <= raftLog[i].committed + 1
    BY LogTypes DEF Valid, IndType, RangeInv
  <2>. QED
    BY <2>1 DEF LeaderLogs
<1>3. MaySend(LL, i, raft[i], raftLog[i], resp)
  <2>1. Idle(VoteResp("MsgPreVoteResp", i, m.from, raft[i].Term, TRUE))
    BY DEF VoteResp, Idle, LeaderTypes
  <2>2. MaySend(LL, i, raft[i], raftLog[i],
                VoteResp("MsgPreVoteResp", i, m.from, raft[i].Term, TRUE))
    BY <2>1, IdleMay, Zenon
  <2>3. Agree(raftLog[i].ents, LL[raft[i].Term], 0)
    BY <1>2 DEF Agree
  <2>4. MaySend(LL, i, raft[i], raftLog[i], AppResp(i, m.from, raft[i].Term, 0))
    BY <2>3, AckMay
  <2>. QED
    BY <2>2, <2>4
<1>. HIDE DEF resp
<1>4. Moves(i, raft[i], raftLog[i], new)
  <2>1. net' = net /\ pend' = [pend EXCEPT ![i] = @ \cup new]
    BY <1>1, <1>2, SyncSend
  <2>. HIDE DEF new
  <2>. QED
    BY <1>1, <1>2, <2>1, SameLog DEF Moves
<1>5. \A n \in new : MaySend(LL, i, raft[i], raftLog[i], n)
  BY <1>3
<1>. HIDE DEF new
<1>. QED
  BY <1>1, <1>2, <1>4, <1>5, LogSays

\* appliedSnap: the log begins where Storage says.
LEMMA LogStorageResp ==
    ASSUME IndType', NEW LL \in LeaderLogs, Valid(LL), NEW i \in Server, NEW m,
           HandleStorageAppendResp(i, m)
    PROVE  LogInv'
<1>. DEFINE lg == [raftLog[i] EXCEPT !.snap = 0, !.first = disk[i].first]
            new == {}
<1>1. /\ TypeOK /\ raftLog[i] \in LogType /\ disk[i].first \in Nat \ {0}
      /\ disk[i].committed \in Nat /\ raftLog[i].committed \in Nat
      /\ disk[i].first <= disk[i].committed + 1 /\ disk[i].committed <= raftLog[i].committed
  BY LogTypes DEF Valid, IndType, RangeInv, TypeOK, DiskType
<1>2. /\ raftLog' = [raftLog EXCEPT ![i].snap = 0, ![i].first = disk[i].first]
      /\ UNCHANGED <<raft, trk, disk, pend, appendQ, net, elected>>
  BY DEF HandleStorageAppendResp
<1>6. raftLog' = [raftLog EXCEPT ![i] = lg]
  BY <1>1, <1>2 DEF TypeOK
<1>3. /\ lg \in LogType /\ lg.ents = raftLog[i].ents /\ lg.committed = raftLog[i].committed
      /\ lg.first <= lg.committed + 1
  <2>1. /\ lg.ents = raftLog[i].ents /\ lg.committed = raftLog[i].committed
        /\ lg.first = disk[i].first
    BY <1>1 DEF LogType
  <2>2. lg \in LogType
    BY <1>1 DEF LogType
  <2>3. disk[i].first <= raftLog[i].committed + 1
    BY <1>1
  <2>. QED
    BY <2>1, <2>2, <2>3
<1>. HIDE DEF lg
<1>4. Moves(i, raft[i], lg, new)
  BY <1>1, <1>2, <1>6, SameLog, NoSend DEF Moves
<1>5. \A n \in new : MaySend(LL, i, raft[i], lg, n)
  OBVIOUS
<1>. HIDE DEF new
<1>. QED
  BY <1>2, <1>3, <1>4, <1>5, LogSays

\* A follower goes on with a log that keeps what it has in common with the
\* leader's.
LEMMA FollowerKeeps ==
    ASSUME IndType', NEW LL \in LeaderLogs, Valid(LL), NEW i \in Server,
           NEW r, r.state = "StateFollower", r.Term \in Nat, r.Term >= raft[i].Term,
           LL[r.Term] # << >>, NEW lg \in LogType,
           Sound(LL, r.Term, lg.ents), KeepsCommon(raftLog[i].ents, LL[r.Term], lg.ents),
           Backed(LL, CertifiedBy(net), r.Term, lg.ents, lg.committed),
           lg.committed >= raftLog[i].committed, lg.first <= lg.committed + 1,
           NEW new, Moves(i, r, lg, new), elected' = elected,
           \A m \in new : MaySend(LL, i, r, lg, m)
    PROVE  LogInv'
<1>. DEFINE R == RefutedBy(net, disk)
            s == raftLog[i].ents
<1>1. /\ IndType /\ s \in Seq(Entry) /\ lg.ents \in Seq(Entry) /\ raft[i].Term \in Nat
      /\ raft[i].Term <= r.Term /\ Complete(LL, R)
  BY LogTypes DEF Valid, LogType
<1>2. \A m \in Acks(Made(i), i) :
        m.term \in Nat /\ m.index \in Nat /\ Kept(LL, R, raft[i].Term, s, m)
  BY <1>1, MadeTypes DEF Valid, Facts, AcksKept
<1>. HIDE DEF R
<1>3. \A m \in Acks(Made(i), i) : Kept(LL, R, r.Term, lg.ents, m)
  <2>. TAKE m \in Acks(Made(i), i)
  <2>1. m.term \in Nat /\ m.index \in Nat /\ Kept(LL, R, raft[i].Term, s, m)
    BY <1>2
  <2>2. KeepsCommon(s, LL[r.Term], lg.ents)
    OBVIOUS
  <2>. HIDE DEF s
  <2>. QED
    BY <1>1, <2>1, <2>2, KeptAfter
<1>4. GoesOn(LL, i, r, lg)
  BY <1>3 DEF GoesOn, LogTrue, R
<1>. QED
  BY <1>4, MemKeeps

\* The record of a follower, and the log of the leader that it follows.
LEMMA FollowsLeader ==
    ASSUME NEW LL \in LeaderLogs, Valid(LL), NEW i \in Server, NEW m \in net,
           m.type \in LeaderTypes, FromLeader(i, m)
    PROVE  /\ Followed(i, m).Term = m.term /\ Followed(i, m).state = "StateFollower"
           /\ m \in Message /\ m.term \in Nat /\ m.term >= raft[i].Term
           /\ m.from \in Server
           /\ LL[m.term] # << >> /\ LL[m.term] \in Seq(Entry)
           /\ MsgTrue(LL, net, m)
           /\ Agree(raftLog[i].ents, LL[m.term], raftLog[i].committed)
<1>1. IndType /\ m \in Message /\ raft[i] \in RaftType /\ raft[i].Term \in Nat
  BY ServerFacts, LogTypes DEF Valid, IndType, TypeOK
<1>2. m.term \in Nat /\ m.from \in Server /\ m.term >= raft[i].Term
  BY <1>1, MessageTerm DEF LeaderTypes, FromLeader
<1>3. Followed(i, m).Term = m.term /\ Followed(i, m).state = "StateFollower"
  <2>1. CASE Follows(i, m)
    BY <1>1, <2>1 DEF Followed, Follows, RaftType
  <2>2. CASE ~Follows(i, m)
    BY <1>1, <1>2, <2>2, BecomeForward DEF Followed
  <2>. QED
    BY <2>1, <2>2
<1>4. <<m.term, m.from>> \in elected
  BY DEF Valid, LeadInv, LeadMsg
<1>5. LL[m.term] # << >> /\ LL[m.term] \in Seq(Entry)
  BY <1>2, <1>4 DEF Valid, LeadersOf, LeaderLogs
<1>6. MsgTrue(LL, net, m)
  BY DEF Valid, Facts, MsgsTrue
<1>7. Agree(raftLog[i].ents, LL[m.term], raftLog[i].committed)
  <2>1. /\ Complete(LL, RefutedBy(net, disk)) /\ raftLog[i].ents \in Seq(Entry)
        /\ raftLog[i].committed \in Nat /\ raft[i].Term <= m.term
        /\ Backed(LL, CertifiedBy(net), raft[i].Term, raftLog[i].ents, raftLog[i].committed)
    BY <1>1, <1>2, LogTypes DEF Valid, Facts, LogsTrue, LogTrue
  <2>. QED
    BY <1>1, <1>2, <1>5, <2>1, LeaderHas
<1>. QED
  BY <1>1, <1>2, <1>3, <1>5, <1>6, <1>7

\* A follower answers the leader, and keeps its log.
LEMMA FollowedSame ==
    ASSUME IndType', NEW LL \in LeaderLogs, Valid(LL), ~AsyncStorageWrites, NEW i \in Server,
           NEW m \in net, m.type \in LeaderTypes, FromLeader(i, m),
           Become(i, Followed(i, m), ~Follows(i, m)),
           NEW resp, MaySend(LL, i, Followed(i, m), raftLog[i], resp), Send(i, {}, {resp}),
           UNCHANGED <<raftLog, disk, appendQ, elected>>
    PROVE  LogInv'
<1>. DEFINE r == Followed(i, m)
            new == {resp} \cup {}
<1>1. r.state = "StateFollower" /\ r.Term >= raft[i].Term /\ TypeOK
  BY FollowsLeader DEF Valid, IndType
<1>2. raft' = [raft EXCEPT ![i] = r] /\ \A j \in Server : j # i => trk'[j] = trk[j]
  BY <1>1 DEF Become, TypeOK
<1>. HIDE DEF r
<1>3. Moves(i, r, raftLog[i], new)
  <2>1. net' = net /\ pend' = [pend EXCEPT ![i] = @ \cup new]
    BY <1>1, SyncSend
  <2>. HIDE DEF new
  <2>. QED
    BY <1>1, <1>2, <2>1, SameLog DEF Moves
<1>4. \A n \in new : MaySend(LL, i, r, raftLog[i], n)
  BY DEF r
<1>. HIDE DEF new
<1>. QED
  BY <1>1, <1>3, <1>4, OtherIdles

\* A message below the commit index is answered with the commit index.
LEMMA FollowedStale ==
    ASSUME IndType', NEW LL \in LeaderLogs, Valid(LL), ~AsyncStorageWrites, NEW i \in Server,
           NEW m \in net, m.type \in LeaderTypes, FromLeader(i, m),
           Become(i, Followed(i, m), ~Follows(i, m)),
           Send(i, {}, {AppResp(i, m.from, m.term, raftLog[i].committed)}),
           UNCHANGED <<raftLog, disk, appendQ, elected>>
    PROVE  LogInv'
<1>. DEFINE resp == AppResp(i, m.from, m.term, raftLog[i].committed)
<1>1. /\ Followed(i, m).Term = m.term
      /\ Agree(raftLog[i].ents, LL[m.term], raftLog[i].committed)
  BY FollowsLeader
<1>2. MaySend(LL, i, Followed(i, m), raftLog[i], resp)
  BY <1>1, AckMay
<1>3. Send(i, {}, {resp})
  OBVIOUS
<1>. HIDE DEF resp
<1>. QED
  BY <1>2, <1>3, FollowedSame

\* handleAppendEntries.
LEMMA LogAppend ==
    ASSUME IndType', NEW LL \in LeaderLogs, Valid(LL), ~AsyncStorageWrites, NEW i \in Server,
           NEW m \in net, HandleAppendEntries(i, m)
    PROVE  LogInv'
<1>. DEFINE lg == raftLog[i]
            r == Followed(i, m)
            T == m.term
            C == CertifiedBy(net)
            new == maybeAppend(lg, m.index, m.entries, m.commit)
            hint == findConflictByTerm(lg, Least(m.index, lastIndex(lg)), m.logTerm)
            end == m.index + Len(m.entries)
            bad == [AppResp(i, m.from, m.term, m.index) EXCEPT
                        !.reject = TRUE, !.rejectHint = hint, !.logTerm = KnownTerm(lg, hint)]
<1>1. /\ m.type = "MsgApp" /\ m.type \in LeaderTypes /\ FromLeader(i, m)
      /\ Become(i, r, ~Follows(i, m)) /\ UNCHANGED <<disk, appendQ, elected>>
  BY DEF HandleAppendEntries, LeaderTypes
<1>2. CASE Send(i, {}, {AppResp(i, m.from, m.term, lg.committed)}) /\ UNCHANGED raftLog
  BY <1>1, <1>2, FollowedStale
<1>3. CASE Send(i, {}, {bad}) /\ UNCHANGED raftLog
  <2>1. bad.type = "MsgAppResp" /\ bad.reject
    BY DEF AppResp
  <2>. HIDE DEF bad
  <2>2. MaySend(LL, i, r, raftLog[i], bad)
    BY <2>1, RejectMay
  <2>. QED
    BY <1>1, <1>3, <2>2, FollowedSame
<1>4. CASE /\ m.index >= lg.committed /\ matchTerm(lg, m.index, m.logTerm)
           /\ raftLog' = [raftLog EXCEPT ![i] = new]
           /\ Send(i, {}, {AppResp(i, m.from, m.term, end)})
  <2>1. /\ r.Term = T /\ r.state = "StateFollower" /\ m \in Message /\ T \in Nat
        /\ T >= raft[i].Term /\ LL[T] # << >> /\ LL[T] \in Seq(Entry) /\ MsgTrue(LL, net, m)
        /\ Agree(lg.ents, LL[T], lg.committed)
    BY <1>1, FollowsLeader
  <2>2. /\ m.index \in Nat /\ m.logTerm \in Nat /\ m.entries \in Seq(Entry) /\ m.commit \in Nat
    BY <1>1, <2>1, LeaderFields
  <2>3. /\ end <= Len(LL[T]) /\ m.logTerm = TermAt(LL[T], m.index)
        /\ \A n \in 1..Len(m.entries) : m.entries[n] = LL[T][m.index + n]
        /\ Backed(LL, C, T, LL[T], m.commit)
    BY <1>1, <2>1 DEF MsgTrue, AppTrue
  <2>4. /\ TypeOK /\ lg \in LogType /\ lg.ents \in Seq(Entry) /\ lg.committed \in Nat
        /\ lg.first \in Nat /\ lg.first <= lg.committed + 1
        /\ raft[i].Term \in Nat /\ raft[i].Term <= T
        /\ Sound(LL, raft[i].Term, lg.ents) /\ Sound(LL, T, LL[T])
        /\ Backed(LL, C, raft[i].Term, lg.ents, lg.committed)
    BY <2>1, LogTypes DEF Valid, IndType, RangeInv, Facts, LogsTrue, LogTrue, LeadersSound
  <2>5. HasTerm(lg, m.index) /\ TermAt(lg.ents, m.index) = TermAt(LL[T], m.index)
    BY <1>4, <2>3 DEF matchTerm
  <2>6. /\ new.ents \in Seq(Entry) /\ Sound(LL, T, new.ents) /\ Agree(new.ents, LL[T], end)
        /\ KeepsCommon(lg.ents, LL[T], new.ents)
        /\ new.committed \in {lg.committed, Least(m.commit, end)} /\ new.first = lg.first
    <3>1. m.index >= lg.committed
      BY <1>4
    <3>2. PICK p \in Nat, e \in Seq(Entry), c \in Nat, a \in Nat :
            p = m.index /\ e = m.entries /\ c = m.commit /\ a = raft[i].Term
      BY <2>2, <2>4
    <3>3. /\ p + Len(e) <= Len(LL[T]) /\ \A n \in 1..Len(e) : e[n] = LL[T][p + n]
          /\ HasTerm(lg, p) /\ TermAt(lg.ents, p) = TermAt(LL[T], p)
          /\ p >= lg.committed /\ a <= T /\ Sound(LL, a, lg.ents)
      BY <2>3, <2>4, <2>5, <3>1, <3>2
    <3>. HIDE DEF lg, T
    <3>4. LET x == maybeAppend(lg, p, e, c)
          IN  /\ x.ents \in Seq(Entry) /\ Sound(LL, T, x.ents)
              /\ Agree(x.ents, LL[T], p + Len(e))
              /\ KeepsCommon(lg.ents, LL[T], x.ents)
              /\ x.committed \in {lg.committed, Least(c, p + Len(e))}
              /\ x.first = lg.first
      <4>1. /\ LL \in LeaderLogs /\ T \in Nat /\ Sound(LL, T, LL[T]) /\ lg \in LogType
            /\ lg.first <= lg.committed + 1
        BY <2>1, <2>4
      <4>. QED
        BY <3>3, <4>1, AppendAgrees, SMTT(60)
    <3>. QED
      BY <3>2, <3>4
  <2>7. new \in LogType /\ new.committed >= lg.committed /\ new.committed \in Nat
    <3>1. new \in LogType /\ new.committed >= lg.committed
      BY <2>2, <2>4, <2>5, MaybeAppendType
    <3>. QED
      BY <3>1 DEF LogType
  <2>. HIDE DEF new
  <2>8. Backed(LL, C, T, new.ents, new.committed)
    <3>1. CASE new.committed = lg.committed
      <4>1. Agree(new.ents, lg.ents, lg.committed) /\ lg.committed <= lg.committed
        BY <2>1, <2>4, <2>6 DEF KeepsCommon
      <4>. HIDE DEF lg, T, C
      <4>. QED
        BY <2>1, <2>4, <2>6, <3>1, <4>1, BackedMoves
    <3>2. CASE new.committed = Least(m.commit, end)
      <4>1. new.committed <= m.commit /\ new.committed <= end /\ end \in Nat
        BY <2>2, <2>7, <3>2 DEF Least
      <4>2. Agree(new.ents, LL[T], new.committed) /\ T <= T
        BY <2>1, <2>6, <2>7, <4>1 DEF Agree
      <4>. HIDE DEF T, C
      <4>. QED
        BY <2>1, <2>2, <2>3, <2>6, <2>7, <4>1, <4>2, BackedMoves
    <3>. QED
      BY <2>6, <3>1, <3>2
  <2>9. new.first <= new.committed + 1
    BY <2>4, <2>6, <2>7
  <2>. DEFINE resp == AppResp(i, m.from, m.term, end)
              out == {resp} \cup {}
  <2>10. MaySend(LL, i, r, new, resp)
    BY <2>1, <2>6, AckMay
  <2>11. /\ raft' = [raft EXCEPT ![i] = r] /\ \A j \in Server : j # i => trk'[j] = trk[j]
    BY <1>1, <2>4 DEF Become, TypeOK
  <2>. HIDE DEF r, resp
  <2>12. Moves(i, r, new, out)
    <3>1. Send(i, {}, {resp})
      BY <1>4 DEF resp
    <3>2. net' = net /\ pend' = [pend EXCEPT ![i] = @ \cup out]
      BY <2>4, <3>1, SyncSend
    <3>. HIDE DEF out
    <3>. QED
      BY <1>1, <1>4, <2>11, <3>2 DEF Moves
  <2>13. \A n \in out : MaySend(LL, i, r, new, n)
    BY <2>10
  <2>14. /\ r.Term \in Nat /\ r.Term >= raft[i].Term /\ LL[r.Term] # << >>
         /\ Sound(LL, r.Term, new.ents) /\ KeepsCommon(raftLog[i].ents, LL[r.Term], new.ents)
         /\ Backed(LL, C, r.Term, new.ents, new.committed)
    BY <2>1, <2>6, <2>8
  <2>. HIDE DEF out
  <2>. QED
    BY <1>1, <2>1, <2>7, <2>9, <2>12, <2>13, <2>14, FollowerKeeps
<1>. QED
  BY <1>2, <1>3, <1>4 DEF HandleAppendEntries

\* handleHeartbeat: the commit index is one that we have acknowledged.
LEMMA LogHeartbeat ==
    ASSUME IndType', NEW LL \in LeaderLogs, Valid(LL), ~AsyncStorageWrites, NEW i \in Server,
           NEW m \in net, m.to = i, HandleHeartbeat(i, m)
    PROVE  LogInv'
<1>. DEFINE lg == raftLog[i]
            r == Followed(i, m)
            T == m.term
            C == CertifiedBy(net)
            new == commitTo(lg, m.commit)
            resp == Plain("MsgHeartbeatResp", i, m.from, m.term)
            out == {} \cup {resp}
<1>1. /\ m.type = "MsgHeartbeat" /\ m.type \in LeaderTypes /\ FromLeader(i, m)
      /\ Become(i, r, ~Follows(i, m)) /\ UNCHANGED <<disk, appendQ, elected>>
      /\ raftLog' = [raftLog EXCEPT ![i] = new] /\ Send(i, {resp}, {})
  BY DEF HandleHeartbeat, LeaderTypes
<1>2. /\ r.Term = T /\ r.state = "StateFollower" /\ m \in Message /\ T \in Nat
      /\ T >= raft[i].Term /\ LL[T] # << >> /\ LL[T] \in Seq(Entry) /\ MsgTrue(LL, net, m)
  BY <1>1, FollowsLeader
<1>3. m.commit \in Nat
  BY <1>1, <1>2, LeaderFields
<1>4. /\ TypeOK /\ IndType /\ lg \in LogType /\ lg.ents \in Seq(Entry) /\ lg.committed \in Nat
      /\ lg.first \in Nat /\ lg.first <= lg.committed + 1 /\ raft[i].Term \in Nat
  BY LogTypes DEF Valid, IndType, RangeInv
<1>5. /\ new \in LogType /\ new.ents = lg.ents /\ new.first = lg.first
      /\ new.committed = IF lg.committed < m.commit THEN m.commit ELSE lg.committed
  BY <1>3, <1>4, CommitToType DEF commitTo, LogType
<1>6. new.committed >= lg.committed /\ new.first <= new.committed + 1
  BY <1>3, <1>4, <1>5
<1>7. new.committed = lg.committed \/ Backed(LL, C, T, new.ents, new.committed)
  <2>. SUFFICES ASSUME lg.committed < m.commit PROVE Backed(LL, C, T, lg.ents, m.commit)
    BY <1>5
  <2>1. m.commit > 0
    BY <1>3, <1>4
  <2>2. i \in AckedAt(net, T, m.commit) /\ Backed(LL, C, T, LL[T], m.commit)
    BY <1>1, <1>2, <2>1 DEF MsgTrue, HeartTrue
  <2>3. PICK a \in net : Ack(a) /\ a.from = i /\ a.term = T /\ a.index >= m.commit
    BY <2>2 DEF AckedAt
  <2>4. a \in Acks(Made(i), i)
    BY <2>3 DEF Acks, Made
  <2>5. a.index \in Nat /\ Kept(LL, RefutedBy(net, disk), raft[i].Term, lg.ents, a)
    BY <1>4, <2>4, MadeTypes DEF Valid, Facts, AcksKept
  <2>6. T <= raft[i].Term
    BY <2>3, <2>5 DEF Kept
  <2>7. T = raft[i].Term
    BY <1>2, <1>4, <2>6
  <2>8. Agree(lg.ents, LL[T], a.index)
    BY <2>3, <2>5, <2>7 DEF Kept
  <2>9. Agree(lg.ents, LL[T], m.commit) /\ m.commit <= m.commit /\ T <= T
    BY <1>2, <1>3, <1>4, <2>3, <2>5, <2>8 DEF Agree
  <2>. HIDE DEF lg, T, C
  <2>. QED
    BY <1>2, <1>3, <1>4, <2>2, <2>9, BackedMoves
<1>8. MaySend(LL, i, r, new, resp)
  <2>1. Idle(resp)
    BY DEF Plain, Idle, LeaderTypes
  <2>. QED
    BY <2>1, IdleMay
<1>9. /\ raft' = [raft EXCEPT ![i] = r] /\ \A j \in Server : j # i => trk'[j] = trk[j]
  BY <1>1, <1>4 DEF Become, TypeOK
<1>. HIDE DEF r, resp, new
<1>10. Moves(i, r, new, out)
  <2>1. net' = net /\ pend' = [pend EXCEPT ![i] = @ \cup out]
    BY <1>1, <1>4, SyncSend
  <2>. HIDE DEF out
  <2>. QED
    BY <1>1, <1>9, <2>1 DEF Moves
<1>11. \A n \in out : MaySend(LL, i, r, new, n)
  BY <1>8
<1>12. GoesOn(LL, i, r, new)
  <2>1. /\ r.Term \in Nat /\ r.Term >= raft[i].Term /\ r.state # "StateCandidate"
        /\ \/ new.committed = raftLog[i].committed
           \/ Backed(LL, CertifiedBy(net), r.Term, new.ents, new.committed)
    BY <1>2, <1>7
  <2>. QED
    BY <1>5, <1>6, <2>1, StaysOn
<1>. HIDE DEF out
<1>. QED
  BY <1>1, <1>2, <1>10, <1>11, <1>12, MemKeeps

\* handleSnapshot: obsolete, matched by the log, or restored in its place.
LEMMA LogSnapshot ==
    ASSUME IndType', NEW LL \in LeaderLogs, Valid(LL), ~AsyncStorageWrites, NEW i \in Server,
           NEW m \in net, HandleSnapshot(i, m)
    PROVE  LogInv'
<1>. DEFINE lg == raftLog[i]
            r == Followed(i, m)
            T == m.term
            C == CertifiedBy(net)
            snap == m.snapshot
            index == Len(snap)
            resp == AppResp(i, m.from, m.term, index)
            out == {resp} \cup {}
<1>1. /\ m.type = "MsgSnap" /\ m.type \in LeaderTypes /\ FromLeader(i, m)
      /\ UNCHANGED <<disk, appendQ, elected>>
  BY DEF HandleSnapshot, LeaderTypes
<1>2. /\ r.Term = T /\ r.state = "StateFollower" /\ m \in Message /\ T \in Nat
      /\ T >= raft[i].Term /\ LL[T] # << >> /\ LL[T] \in Seq(Entry) /\ MsgTrue(LL, net, m)
      /\ Agree(lg.ents, LL[T], lg.committed)
  BY <1>1, FollowsLeader
<1>3. /\ snap \in Seq(Entry) /\ index \in Nat /\ Agree(snap, LL[T], index)
      /\ Backed(LL, C, T, snap, index)
  <2>1. snap \in Seq(Entry) /\ Agree(snap, LL[T], index) /\ Backed(LL, C, T, snap, index)
    BY <1>1, <1>2, LeaderFields DEF MsgTrue, SnapTrue
  <2>. QED
    BY <2>1
<1>4. /\ TypeOK /\ lg \in LogType /\ lg.ents \in Seq(Entry) /\ lg.committed \in Nat
      /\ lg.first \in Nat /\ lg.first <= lg.committed + 1
      /\ Sound(LL, raft[i].Term, lg.ents) /\ Sound(LL, T, LL[T])
  BY <1>2, LogTypes DEF Valid, IndType, RangeInv, Facts, LogsTrue, LogTrue, LeadersSound
<1>5. CASE /\ Become(i, r, ~Follows(i, m))
           /\ Send(i, {}, {AppResp(i, m.from, m.term, lg.committed)}) /\ UNCHANGED raftLog
  BY <1>1, <1>5, FollowedStale
<1>6. ASSUME NEW new \in LogType, raft' = [raft EXCEPT ![i] = r],
             \A j \in Server : j # i => trk'[j] = trk[j],
             raftLog' = [raftLog EXCEPT ![i] = new], Send(i, {}, {resp}),
             Agree(new.ents, LL[T], index)
      PROVE  Moves(i, r, new, out) /\ \A n \in out : MaySend(LL, i, r, new, n)
  <2>1. MaySend(LL, i, r, new, resp)
    BY <1>2, <1>6, AckMay
  <2>. HIDE DEF r, resp
  <2>2. net' = net /\ pend' = [pend EXCEPT ![i] = @ \cup out]
    BY <1>4, <1>6, SyncSend
  <2>3. \A n \in out : MaySend(LL, i, r, new, n)
    BY <2>1
  <2>. HIDE DEF out
  <2>. QED
    BY <1>1, <1>6, <2>2, <2>3 DEF Moves
<1>7. CASE /\ index > lg.committed /\ matchTerm(lg, index, TermAt(snap, index))
           /\ Become(i, r, ~Follows(i, m)) /\ raftLog' = [raftLog EXCEPT ![i] = commitTo(lg, index)]
           /\ Send(i, {}, {resp})
  <2>. DEFINE new == commitTo(lg, index)
  <2>1. /\ new \in LogType /\ new.ents = lg.ents /\ new.first = lg.first /\ new.committed = index
    BY <1>3, <1>4, <1>7, CommitToType DEF commitTo, LogType
  <2>. HIDE DEF new
  <2>2. index <= Len(lg.ents) /\ index <= Len(LL[T]) /\ TermAt(lg.ents, index) = TermAt(LL[T], index)
    <3>1. /\ index <= Len(lg.ents) /\ TermAt(lg.ents, index) = TermAt(snap, index)
      BY <1>7 DEF matchTerm, HasTerm, lastIndex
    <3>2. index \in 1..index /\ index # 0
      BY <1>3, <1>4, <1>7
    <3>. HIDE DEF index, snap, T
    <3>3. index <= Len(LL[T]) /\ snap[index] = LL[T][index]
      BY <1>3, <3>2 DEF Agree
    <3>. QED
      BY <3>1, <3>2, <3>3 DEF TermAt
  <2>3. Agree(lg.ents, LL[T], index)
    <3>. HIDE DEF lg, T, index
    <3>. QED
      BY <1>2, <1>3, <1>4, <2>2, PrevAgrees
  <2>4. Backed(LL, C, T, lg.ents, index)
    <3>1. Agree(lg.ents, snap, index) /\ index <= index /\ T <= T
      BY <1>2, <1>3, <1>4, <2>3 DEF Agree
    <3>. HIDE DEF lg, T, C, snap, index
    <3>. QED
      BY <1>2, <1>3, <1>4, <3>1, BackedMoves
  <2>5. raft' = [raft EXCEPT ![i] = r] /\ \A j \in Server : j # i => trk'[j] = trk[j]
    BY <1>4, <1>7 DEF Become, TypeOK
  <2>. HIDE DEF r
  <2>6. Moves(i, r, new, out) /\ \A n \in out : MaySend(LL, i, r, new, n)
    BY <1>6, <1>7, <2>1, <2>3, <2>5 DEF new
  <2>7. new.committed >= raftLog[i].committed /\ new.first <= new.committed + 1
    BY <1>3, <1>4, <1>7, <2>1
  <2>8. /\ r.Term \in Nat /\ r.Term >= raft[i].Term /\ r.state # "StateCandidate"
        /\ Backed(LL, CertifiedBy(net), r.Term, new.ents, new.committed)
    BY <1>2, <2>1, <2>4
  <2>9. GoesOn(LL, i, r, new)
    BY <2>1, <2>7, <2>8, StaysOn
  <2>. HIDE DEF out
  <2>. QED
    BY <1>1, <1>2, <2>6, <2>9, MemKeeps
<1>8. CASE /\ index > lg.committed /\ ~matchTerm(lg, index, TermAt(snap, index))
           /\ raft' = [raft EXCEPT ![i] = r]
           /\ trk'  = [trk EXCEPT ![i] = [j \in Server |-> NewProgress(0, index, TRUE)]]
           /\ raftLog' = [raftLog EXCEPT ![i] = restoreLog(snap)] /\ Send(i, {}, {resp})
  <2>. DEFINE new == restoreLog(snap)
  <2>1. /\ new \in LogType /\ new.ents = snap /\ new.first = index + 1 /\ new.committed = index
    BY <1>3 DEF restoreLog, LogType
  <2>. HIDE DEF new
  <2>2. Sound(LL, T, snap) /\ KeepsCommon(lg.ents, LL[T], snap)
    <3>. HIDE DEF lg, T, snap
    <3>. QED
      BY <1>2, <1>3, <1>4, <1>8, RestoreAgrees
  <2>3. \A j \in Server : j # i => trk'[j] = trk[j]
    BY <1>4, <1>8 DEF TypeOK
  <2>. HIDE DEF r
  <2>4. Moves(i, r, new, out) /\ \A n \in out : MaySend(LL, i, r, new, n)
    BY <1>3, <1>6, <1>8, <2>1, <2>3 DEF new
  <2>5. new.committed >= raftLog[i].committed /\ new.first <= new.committed + 1
    BY <1>3, <1>4, <1>8, <2>1
  <2>6. /\ r.Term \in Nat /\ r.Term >= raft[i].Term /\ LL[r.Term] # << >>
        /\ Sound(LL, r.Term, new.ents) /\ KeepsCommon(raftLog[i].ents, LL[r.Term], new.ents)
        /\ Backed(LL, CertifiedBy(net), r.Term, new.ents, new.committed)
    BY <1>2, <1>3, <2>1, <2>2
  <2>. HIDE DEF out
  <2>. QED
    BY <1>1, <1>2, <2>1, <2>4, <2>5, <2>6, FollowerKeeps
<1>. QED
  BY <1>5, <1>7, <1>8 DEF HandleSnapshot

-----------------------------------------------------------------------------
(* The way to the disk and back.                                           *)

\* A forwarded transfer request and a forwarded proposal.
LEMMA LogForwarded ==
    ASSUME IndType', ElectionSafety', LeadInv', NEW LL \in LeaderLogs, Valid(LL),
           ~AsyncStorageWrites, NEW i \in Server, NEW m \in Message,
           HandleTransferLeader(i, m) \/ HandleProp(i, m)
    PROVE  LogInv'
<1>1. CASE HandleTransferLeader(i, m)
  <2>1. m.from \in Server
    BY <1>1, MessageKinds DEF HandleTransferLeader, PlainMsg
  <2>. QED
    BY <1>1, <2>1, LogTransfer DEF HandleTransferLeader
<1>2. CASE HandleProp(i, m)
  <2>1. m.data \in Value
    BY <1>2, MessageKinds DEF HandleProp, PropMsg
  <2>. QED
    BY <1>2, <2>1, LogProp DEF HandleProp
<1>. QED
  BY <1>1, <1>2

\* A step to or from the disk makes no message that was not made before, and
\* leaves the leaders and the candidates that it does not stop as they are.
\* Then the logs and the acknowledgements are what remains to be shown.
LEMMA DiskKeeps ==
    ASSUME IndType', NEW LL \in LeaderLogs, Valid(LL), elected' = elected, net \subseteq net',
           RefutedBy(net, disk) \subseteq RefutedBy(net', disk'),
           \A j \in Server : Acks(Made(j)', j) \subseteq Acks(Made(j), j),
           \A j \in Server : Granted(j)' \subseteq Granted(j),
           \A j \in Server :
                \/ raft'[j].state = "StateFollower"
                \/ /\ raft'[j] = raft[j] /\ raftLog'[j].ents = raftLog[j].ents
                   /\ trk'[j] = trk[j],
           \A n \in net' : MsgTrue(LL, net, n),
           \A j \in Server : \A n \in Queued(j)' \cup pend'[j] : MsgTrue(LL, net, n),
           LogsTrue(LL)', AcksKept(LL)', SyncInv', RangeInv'
    PROVE  LogInv'
<1>. DEFINE R == RefutedBy(net, disk)
            W == RefutedBy(net', disk')
<1>. HIDE DEF R, W
<1>0. R \subseteq W
  BY DEF R, W
<1>1. LeadersSound(LL)'
  BY DEF Valid, Facts, LeadersSound
<1>2. MsgsTrue(LL)'
  <2>1. \A m : MsgTrue(LL, net, m) => MsgTrue(LL, net', m)
    BY SentGrows
  <2>. QED
    BY <2>1 DEF MsgsTrue
<1>3. Informed(LL)'
  <2>. SUFFICES ASSUME NEW x \in Server, NEW j \in Server, raft'[x].state = "StateCandidate",
                       NEW g \in Granted(j)', g.to = x, g.term = raft'[x].Term,
                       NEW m \in Acks(Made(j)', j), m.term < g.term
                PROVE  Holds(LL, W, raftLog'[x].ents, m.term, m.index)
    BY DEF Informed, W
  <2>1. raft'[x] = raft[x] /\ raftLog'[x].ents = raftLog[x].ents
    OBVIOUS
  <2>2. g \in Granted(j) /\ m \in Acks(Made(j), j)
    OBVIOUS
  <2>3. Holds(LL, R, raftLog[x].ents, m.term, m.index)
    BY <2>1, <2>2 DEF Valid, Facts, Informed, R
  <2>. QED
    BY <1>0, <2>1, <2>3, RefutedGrows
<1>4. MatchTrue(LL)'
  <2>. SUFFICES ASSUME NEW j \in Server, raft'[j].state = "StateLeader"
                PROVE  MatchOf(LL, net', j, raft'[j].Term, trk'[j])
    BY DEF MatchTrue
  <2>1. raft'[j] = raft[j] /\ trk'[j] = trk[j]
    OBVIOUS
  <2>2. MatchOf(LL, net, j, raft[j].Term, trk[j])
    BY <2>1 DEF Valid, Facts, MatchTrue
  <2>3. \A t, k : AckedAt(net, t, k) \subseteq AckedAt(net', t, k)
    BY SentGrows
  <2>. QED
    BY <2>1, <2>2, <2>3 DEF MatchOf
<1>5. LeadersOf(LL)'
  <2>1. \A j \in Server : raft'[j].state = "StateLeader" => raftLog'[j].ents = LL[raft'[j].Term]
    BY DEF Valid, LeadersOf
  <2>. QED
    BY <2>1 DEF Valid, LeadersOf
<1>6. Complete(LL, RefutedBy(net, disk))'
  BY RefutedGrows DEF Valid
<1>. QED
  BY <1>1, <1>2, <1>3, <1>4, <1>5, <1>6 DEF LogInv, Facts

\* A crash: what is on disk is true by itself, and is all that is left.
LEMMA LogRestart ==
    ASSUME IndType', NEW LL \in LeaderLogs, Valid(LL), NEW i \in Server, Restart(i)
    PROVE  LogInv'
<1>1. /\ raft \in [Server -> RaftType] /\ raftLog \in [Server -> LogType]
      /\ trk \in [Server -> [Server -> ProgressType]]
      /\ appendQ \in [Server -> Seq(AppendItem)] /\ pend \in [Server -> SUBSET Message]
  BY DEF Valid, IndType, TypeOK
<1>2. /\ \A j \in Server \ {i} : /\ raft'[j] = raft[j] /\ raftLog'[j] = raftLog[j]
                                 /\ trk'[j] = trk[j]
                                 /\ pend'[j] = pend[j] /\ appendQ'[j] = appendQ[j]
      /\ raft'[i].Term = disk[i].Term /\ raft'[i].state = "StateFollower"
      /\ raftLog'[i].ents = disk[i].ents /\ raftLog'[i].committed = disk[i].committed
      /\ raftLog'[i].first = disk[i].first
      /\ pend'[i] = {} /\ appendQ'[i] = << >> /\ Len(appendQ'[i]) = 0
      /\ disk' = disk /\ net' = net /\ elected' = elected
  BY <1>1 DEF Restart
<1>3. \A j \in Server : /\ Queued(j)' = IF j = i THEN {} ELSE Queued(j)
                        /\ Made(j)' \subseteq Made(j) /\ Granted(j)' \subseteq Granted(j)
  <2>1. Queued(i)' = {}
    BY <1>2 DEF Queued
  <2>2. \A j \in Server \ {i} : Queued(j)' = Queued(j)
    BY <1>2 DEF Queued
  <2>3. \A j \in Server : Made(j)' \subseteq Made(j)
    BY <1>2, <2>1, <2>2 DEF Made
  <2>4. \A j \in Server : Granted(j)' \subseteq Granted(j)
    BY <1>2 DEF Granted
  <2>. QED
    BY <2>1, <2>2, <2>3, <2>4
<1>4. \A j \in Server : Acks(Made(j)', j) \subseteq Acks(Made(j), j)
  BY <1>3 DEF Acks
<1>5. LogsTrue(LL)'
  BY <1>2 DEF Valid, Facts, LogsTrue, SavedTrue
<1>6. AcksKept(LL)'
  <2>. SUFFICES ASSUME NEW j \in Server
                PROVE  /\ \A m \in Acks(net', j) :
                            Kept(LL, RefutedBy(net', disk'), disk'[j].Term, disk'[j].ents, m)
                       /\ \A m \in Acks(net' \cup Queued(j)', j) : \A k \in 1..Len(appendQ'[j]) :
                            Kept(LL, RefutedBy(net', disk'), appendQ'[j][k].Term, appendQ'[j][k].ents, m)
                       /\ \A m \in Acks(Made(j)', j) :
                            Kept(LL, RefutedBy(net', disk'), raft'[j].Term, raftLog'[j].ents, m)
    BY DEF AcksKept
  <2>1. /\ \A m \in Acks(net, j) : Kept(LL, RefutedBy(net, disk), disk[j].Term, disk[j].ents, m)
        /\ \A m \in Acks(net \cup Queued(j), j) : \A k \in 1..Len(appendQ[j]) :
            Kept(LL, RefutedBy(net, disk), appendQ[j][k].Term, appendQ[j][k].ents, m)
        /\ \A m \in Acks(Made(j), j) :
            Kept(LL, RefutedBy(net, disk), raft[j].Term, raftLog[j].ents, m)
    BY DEF Valid, Facts, AcksKept
  <2>2. CASE j # i
    <3>1. raft'[j] = raft[j] /\ raftLog'[j] = raftLog[j] /\ appendQ'[j] = appendQ[j]
          /\ Queued(j)' = Queued(j)
      BY <1>2, <1>3, <2>2
    <3>. QED
      BY <1>2, <1>4, <2>1, <3>1
  <2>3. CASE j = i
    <3>1. Made(i)' = net
      BY <1>2, <1>3 DEF Made
    <3>2. 1..Len(appendQ'[i]) = {}
      BY <1>2
    <3>. QED
      BY <1>2, <2>1, <2>3, <3>1, <3>2
  <2>. QED
    BY <2>2, <2>3
<1>7. SyncInv'
  <2>1. ASSUME NEW j \in Server PROVE OwnedBy(j)'
    <3>1. OwnedBy(j)
      BY DEF Valid, SyncInv
    <3>2. CASE j # i
      BY <1>2, <1>3, <3>1, <3>2 DEF OwnedBy
    <3>3. CASE j = i
      BY <1>2, <1>3, <3>3 DEF OwnedBy
    <3>. QED
      BY <3>2, <3>3
  <2>2. ASSUME NEW j \in Server PROVE AsksOnce(j)'
    <3>1. AsksOnce(j)
      BY DEF Valid, SyncInv
    <3>. QED
      BY <1>2, <1>3, <3>1 DEF AsksOnce
  <2>3. KnownFromDisk'
    BY <1>2, <1>3 DEF Valid, SyncInv, KnownFromDisk
  <2>. QED
    BY <2>1, <2>2, <2>3 DEF SyncInv
<1>8. RangeInv'
  <2>. SUFFICES ASSUME NEW j \in Server
                PROVE  /\ raftLog'[j].first <= raftLog'[j].committed + 1
                       /\ disk'[j].first <= disk'[j].committed + 1
                       /\ disk'[j].committed <= raftLog'[j].committed
                       /\ Len(disk'[j].snapshot) <= disk'[j].committed
                       /\ \A k \in 1..Len(appendQ'[j]) :
                            /\ disk'[j].committed <= appendQ'[j][k].committed
                            /\ appendQ'[j][k].committed <= raftLog'[j].committed
                            /\ Len(appendQ'[j][k].snapshot) <= appendQ'[j][k].committed
    BY DEF RangeInv
  <2>1. CASE j # i
    BY <1>2, <2>1 DEF Valid, RangeInv
  <2>2. CASE j = i
    <3>1. disk[i].committed \in Nat
      BY LogTypes DEF Valid
    <3>. QED
      BY <1>2, <2>2, <3>1 DEF Valid, RangeInv
  <2>. QED
    BY <2>1, <2>2
<1>9. /\ \A n \in net' : MsgTrue(LL, net, n)
      /\ \A j \in Server : \A n \in Queued(j)' \cup pend'[j] : MsgTrue(LL, net, n)
  BY <1>2, <1>3 DEF Valid, Facts, MsgsTrue
<1>10. \A j \in Server : \/ raft'[j].state = "StateFollower"
                         \/ /\ raft'[j] = raft[j] /\ raftLog'[j].ents = raftLog[j].ents
                            /\ trk'[j] = trk[j]
  BY <1>2
<1>. QED
  BY <1>2, <1>3, <1>4, <1>5, <1>6, <1>7, <1>8, <1>9, <1>10, DiskKeeps

\* Those whose candidacies and victories are known.
LEMMA KnownTypes ==
    ASSUME IndType, ElectionInv
    PROVE  /\ \A m \in Message : m.type = "MsgVote" => m.from \in Server /\ m.term \in Nat
           /\ \A m \in net : m \in Message
           /\ \A e \in elected : e[1] \in Nat /\ e[2] \in Server
           /\ \A j \in Server : \A g \in Granted(j) : g.to \in Server /\ g.term \in Nat
<1>1. \A m \in Message : m.type = "MsgVote" => m.from \in Server /\ m.term \in Nat
  BY MessageKinds DEF VoteMsg
<1>2. (\A e \in elected : e[1] \in Nat /\ e[2] \in Server) /\ \A m \in net : m \in Message
  BY DEF IndType, TypeOK
<1>. QED
  BY <1>1, <1>2, GrantTerm

\* A step of the storage alone: terms, votes, logs and messages stay.
LEMMA StorageStep ==
    ASSUME IndType', NEW LL \in LeaderLogs, Valid(LL),
           UNCHANGED <<raft, trk, pend, appendQ, net, elected>>, RangeInv',
           \A j \in Server :
                /\ disk'[j].Term = disk[j].Term /\ disk'[j].ents = disk[j].ents
                /\ disk'[j].committed = disk[j].committed
                /\ raftLog'[j].ents = raftLog[j].ents /\ raftLog'[j].committed = raftLog[j].committed
                /\ Backed(LL, CertifiedBy(net), disk'[j].Term, disk'[j].snapshot, Len(disk'[j].snapshot))
    PROVE  LogInv'
<1>1. RefutedBy(net', disk') = RefutedBy(net, disk)
  BY DEF RefutedBy
<1>2. \A j \in Server : /\ Queued(j)' = Queued(j) /\ Made(j)' = Made(j)
                        /\ Granted(j)' = Granted(j)
  <2>1. \A j \in Server : Queued(j)' = Queued(j)
    BY DEF Queued
  <2>2. \A j \in Server : Made(j)' = Made(j)
    BY <2>1 DEF Made
  <2>3. \A j \in Server : Granted(j)' = Granted(j)
    BY DEF Granted
  <2>. QED
    BY <2>1, <2>2, <2>3
<1>3. LogsTrue(LL)'
  <2>. SUFFICES ASSUME NEW j \in Server
                PROVE  /\ LogTrue(LL, CertifiedBy(net'), raft'[j].Term, raftLog'[j].ents,
                                  raftLog'[j].committed)
                       /\ SavedTrue(LL, CertifiedBy(net'), disk'[j])
                       /\ \A k \in 1..Len(appendQ'[j]) :
                            SavedTrue(LL, CertifiedBy(net'), appendQ'[j][k])
    BY DEF LogsTrue
  <2>1. SavedTrue(LL, CertifiedBy(net), disk'[j])
    BY DEF Valid, Facts, LogsTrue, SavedTrue
  <2>. QED
    BY <2>1 DEF Valid, Facts, LogsTrue
<1>4. AcksKept(LL)'
  <2>. SUFFICES ASSUME NEW j \in Server
                PROVE  /\ \A m \in Acks(net', j) :
                            Kept(LL, RefutedBy(net', disk'), disk'[j].Term, disk'[j].ents, m)
                       /\ \A m \in Acks(net' \cup Queued(j)', j) : \A k \in 1..Len(appendQ'[j]) :
                            Kept(LL, RefutedBy(net', disk'), appendQ'[j][k].Term, appendQ'[j][k].ents, m)
                       /\ \A m \in Acks(Made(j)', j) :
                            Kept(LL, RefutedBy(net', disk'), raft'[j].Term, raftLog'[j].ents, m)
    BY DEF AcksKept
  <2>1. /\ \A m \in Acks(net, j) : Kept(LL, RefutedBy(net, disk), disk[j].Term, disk[j].ents, m)
        /\ \A m \in Acks(net \cup Queued(j), j) : \A k \in 1..Len(appendQ[j]) :
            Kept(LL, RefutedBy(net, disk), appendQ[j][k].Term, appendQ[j][k].ents, m)
        /\ \A m \in Acks(Made(j), j) :
            Kept(LL, RefutedBy(net, disk), raft[j].Term, raftLog[j].ents, m)
    BY DEF Valid, Facts, AcksKept
  <2>. QED
    BY <1>1, <1>2, <2>1
<1>5. SyncInv'
  <2>1. ASSUME NEW j \in Server PROVE OwnedBy(j)'
    <3>1. OwnedBy(j)
      BY DEF Valid, SyncInv
    <3>. QED
      BY <1>2, <3>1 DEF OwnedBy
  <2>2. ASSUME NEW j \in Server PROVE AsksOnce(j)'
    <3>1. AsksOnce(j)
      BY DEF Valid, SyncInv
    <3>. QED
      BY <1>2, <3>1 DEF AsksOnce, lastIndex, lastTerm
  <2>3. KnownFromDisk'
    BY <1>2, KnownTypes DEF Valid, SyncInv, KnownFromDisk
  <2>. QED
    BY <2>1, <2>2, <2>3 DEF SyncInv
<1>6. /\ \A n \in net' : MsgTrue(LL, net, n)
      /\ \A j \in Server : \A n \in Queued(j)' \cup pend'[j] : MsgTrue(LL, net, n)
  BY <1>2 DEF Valid, Facts, MsgsTrue
<1>7. \A j \in Server : Acks(Made(j)', j) \subseteq Acks(Made(j), j)
  BY <1>2
<1>. QED
  BY <1>1, <1>2, <1>3, <1>4, <1>5, <1>6, <1>7, DiskKeeps

\* CreateSnapshot: the snapshot is a committed prefix of the log on disk.
LEMMA LogCreateSnapshot ==
    ASSUME IndType', NEW LL \in LeaderLogs, Valid(LL), NEW i \in Server, NEW k \in Nat,
           CreateSnapshot(i, k)
    PROVE  LogInv'
<1>. DEFINE C == CertifiedBy(net)
            T == disk[i].Term
            s == disk[i].ents
            c == disk[i].committed
            v == SubSeq(s, 1, k)
<1>1. /\ T \in Nat /\ s \in Seq(Entry) /\ c \in Nat /\ disk \in [Server -> DiskType]
      /\ disk[i] \in DiskType
  BY LogTypes DEF Valid, IndType, TypeOK
<1>2. k <= c /\ k <= Len(s)
  BY DEF CreateSnapshot
<1>3. UNCHANGED <<raft, trk, raftLog, pend, appendQ, net, elected>>
  BY DEF CreateSnapshot
<1>4. v \in Seq(Entry) /\ Len(v) = k /\ \A n \in 1..k : v[n] = s[n]
  BY <1>1, <1>2, SubSeqProperties
<1>5. \A j \in Server : /\ disk'[j].Term = disk[j].Term /\ disk'[j].ents = disk[j].ents
                        /\ disk'[j].committed = disk[j].committed
                        /\ disk'[j].first = disk[j].first
                        /\ disk'[j].snapshot = IF j = i THEN v ELSE disk[j].snapshot
  BY <1>1 DEF CreateSnapshot, DiskType
<1>6. Backed(LL, C, T, s, c)
  BY DEF Valid, Facts, LogsTrue, SavedTrue, LogTrue
<1>. HIDE DEF v, s, c, T, C
<1>7. Agree(v, s, k)
  BY <1>1, <1>2, <1>4 DEF Agree
<1>8. Backed(LL, C, T, v, Len(v))
  <2>1. T <= T
    BY <1>1
  <2>2. Backed(LL, C, T, v, k)
    BY <1>1, <1>2, <1>4, <1>6, <1>7, <2>1, BackedMoves
  <2>. QED
    BY <1>4, <2>2
<1>9. RangeInv'
  BY <1>2, <1>3, <1>4, <1>5 DEF Valid, RangeInv, c
<1>10. \A j \in Server : Backed(LL, C, disk[j].Term, disk[j].snapshot, Len(disk[j].snapshot))
  BY DEF Valid, Facts, LogsTrue, SavedTrue, C
<1>11. \A j \in Server : Backed(LL, C, disk'[j].Term, disk'[j].snapshot, Len(disk'[j].snapshot))
  BY <1>5, <1>8, <1>10 DEF T
<1>. QED
  BY <1>3, <1>5, <1>9, <1>11, StorageStep DEF C

\* Compact: the log begins at the snapshot at the latest.
LEMMA LogCompact ==
    ASSUME IndType', NEW LL \in LeaderLogs, Valid(LL), NEW i \in Server, NEW k \in Nat,
           Compact(i, k)
    PROVE  LogInv'
<1>1. /\ disk \in [Server -> DiskType] /\ raftLog \in [Server -> LogType]
      /\ disk[i] \in DiskType /\ raftLog[i] \in LogType
  BY DEF Valid, IndType, TypeOK
<1>2. UNCHANGED <<raft, trk, pend, appendQ, net, elected>> /\ k <= Len(disk[i].snapshot)
  BY DEF Compact
<1>3. \A j \in Server : /\ disk'[j].Term = disk[j].Term /\ disk'[j].ents = disk[j].ents
                        /\ disk'[j].committed = disk[j].committed
                        /\ disk'[j].first = (IF j = i THEN k + 1 ELSE disk[j].first)
                        /\ disk'[j].snapshot = disk[j].snapshot
  BY <1>1 DEF Compact, DiskType
<1>4. \A j \in Server : /\ raftLog'[j].ents = raftLog[j].ents
                        /\ raftLog'[j].committed = raftLog[j].committed
                        /\ \/ raftLog'[j].first = raftLog[j].first
                           \/ j = i /\ raftLog'[j].first = k + 1
  BY <1>1 DEF Compact, LogType
<1>5. RangeInv'
  <2>1. \A j \in Server : /\ raftLog[j].first \in Nat /\ raftLog[j].committed \in Nat
                          /\ disk[j].committed \in Nat /\ Len(disk[j].snapshot) \in Nat
    BY LogTypes DEF Valid
  <2>2. k + 1 <= disk[i].committed + 1 /\ k + 1 <= raftLog[i].committed + 1
    BY <1>2, <2>1 DEF Valid, RangeInv
  <2>. QED
    BY <1>2, <1>3, <1>4, <2>2, SMTT(30) DEF Valid, RangeInv
<1>6. \A j \in Server :
        Backed(LL, CertifiedBy(net), disk'[j].Term, disk'[j].snapshot, Len(disk'[j].snapshot))
  BY <1>3 DEF Valid, Facts, LogsTrue, SavedTrue
<1>. QED
  BY <1>2, <1>3, <1>4, <1>5, <1>6, StorageStep

\* What a Ready hands to the append thread is what raft has in memory.
LEMMA ReadyItem ==
    ASSUME NEW LL \in LeaderLogs, Valid(LL), NEW i \in Server
    PROVE  LET item == StorageAppend(i)
           IN  /\ item \in AppendItem /\ item.Term = raft[i].Term
               /\ item.ents = raftLog[i].ents /\ item.committed = raftLog[i].committed
               /\ Len(item.snapshot) <= item.committed
               /\ SavedTrue(LL, CertifiedBy(net), item)
               /\ pend[i] \subseteq item.resps
               /\ \A m \in item.resps : m \in pend[i] \/ Idle(m)
<1>. DEFINE item == StorageAppend(i)
            C == CertifiedBy(net)
            T == raft[i].Term
            s == raftLog[i].ents
            c == raftLog[i].committed
            n == raftLog[i].snap
            v == SubSeq(s, 1, n)
<1>1. /\ T \in Nat /\ s \in Seq(Entry) /\ c \in Nat /\ n \in Nat
      /\ IndType /\ n <= c /\ n <= Len(s)
  BY LogTypes DEF Valid, IndType, LogOK
<1>2. /\ item \in AppendItem
  BY <1>1, StorageAppendType
<1>3. /\ item.Term = T /\ item.ents = s /\ item.committed = c
      /\ item.snapshot \in {<< >>, v}
      /\ pend[i] \subseteq item.resps
      /\ \A m \in item.resps : m \in pend[i] \/ m = StorageAppendResp(i, T, Len(item.snapshot))
  BY DEF StorageAppend, nextUnstableSnapshot
<1>4. \A m \in item.resps : m \in pend[i] \/ Idle(m)
  BY <1>3 DEF StorageAppendResp, Idle, LeaderTypes
<1>5. LogTrue(LL, C, T, s, c)
  BY DEF Valid, Facts, LogsTrue
<1>. HIDE DEF item, v, s, c, n, T, C
<1>6. v \in Seq(Entry) /\ Len(v) = n /\ Agree(v, s, n)
  <2>1. v \in Seq(Entry) /\ Len(v) = n /\ \A k \in 1..n : v[k] = s[k]
    BY <1>1, SubSeqProperties DEF v
  <2>. QED
    BY <1>1, <2>1 DEF Agree
<1>7. Backed(LL, C, T, item.snapshot, Len(item.snapshot)) /\ Len(item.snapshot) <= c
  <2>1. CASE item.snapshot = << >>
    <3>1. Len(item.snapshot) = 0
      BY <2>1
    <3>. QED
      BY <1>1, <3>1 DEF Backed
  <2>2. CASE item.snapshot = v
    <3>1. T <= T /\ Backed(LL, C, T, s, c)
      BY <1>1, <1>5 DEF LogTrue
    <3>2. Backed(LL, C, T, v, n)
      BY <1>1, <1>6, <3>1, BackedMoves
    <3>. QED
      BY <1>1, <1>6, <2>2, <3>2
  <2>. QED
    BY <1>3, <2>1, <2>2
<1>8. SavedTrue(LL, C, item)
  BY <1>3, <1>5, <1>7 DEF SavedTrue
<1>. QED
  BY <1>2, <1>3, <1>4, <1>7, <1>8 DEF item, C, T, s, c

\* Ready: the write holds what its messages say.
LEMMA LogReady ==
    ASSUME IndType', NEW LL \in LeaderLogs, Valid(LL), ~AsyncStorageWrites,
           NEW i \in Server, Ready(i)
    PROVE  LogInv'
<1>. DEFINE item == StorageAppend(i)
<1>1. /\ item \in AppendItem /\ item.Term = raft[i].Term
      /\ item.ents = raftLog[i].ents /\ item.committed = raftLog[i].committed
      /\ Len(item.snapshot) <= item.committed
      /\ SavedTrue(LL, CertifiedBy(net), item)
      /\ pend[i] \subseteq item.resps
      /\ \A m \in item.resps : m \in pend[i] \/ Idle(m)
  BY ReadyItem
<1>. HIDE DEF item
<1>2. /\ appendQ[i] = << >> /\ appendQ' = [appendQ EXCEPT ![i] = Append(appendQ[i], item)]
      /\ pend' = [pend EXCEPT ![i] = {}]
      /\ UNCHANGED <<raft, trk, raftLog, disk, net, elected>>
  BY DEF Ready, item
<1>3. /\ \A j \in Server \ {i} : appendQ'[j] = appendQ[j] /\ pend'[j] = pend[j]
      /\ pend'[i] = {} /\ appendQ'[i] = <<item>>
      /\ Len(appendQ'[i]) = 1 /\ appendQ'[i][1] = item
      /\ Len(appendQ[i]) = 0
  <2>1. appendQ \in [Server -> Seq(AppendItem)] /\ pend \in [Server -> SUBSET Message]
    BY DEF Valid, IndType, TypeOK
  <2>. QED
    BY <1>1, <1>2, <2>1
<1>4. /\ \A k \in 1..Len(appendQ'[i]) : appendQ'[i][k] = item
      /\ Queued(i)' = item.resps /\ Queued(i) = {}
      /\ \A j \in Server \ {i} : Queued(j)' = Queued(j)
  <2>1. \A k \in 1..Len(appendQ'[i]) : appendQ'[i][k] = item
    BY <1>3
  <2>2. Queued(i)' = item.resps /\ Queued(i) = {}
    BY <1>3 DEF Queued
  <2>. QED
    BY <1>3, <2>1, <2>2 DEF Queued
<1>5. \A j \in Server : \A m \in Made(j)' : m \in Made(j) \/ Idle(m)
  BY <1>1, <1>2, <1>3, <1>4 DEF Made
<1>6. \A j \in Server : /\ Acks(Made(j)', j) \subseteq Acks(Made(j), j)
                        /\ Granted(j)' \subseteq Granted(j)
  <2>1. \A m : Idle(m) => ~Ack(m) /\ ~Grant(m)
    BY DEF Idle, Ack, Grant
  <2>2. \A j \in Server : Granted(j) = {m \in Made(j) : Grant(m) /\ m.from = j}
    BY DEF Granted, Made, Queued
  <2>3. \A j \in Server : Granted(j)' = {m \in Made(j)' : Grant(m) /\ m.from = j}
    BY DEF Granted, Made, Queued
  <2>. QED
    BY <1>5, <2>1, <2>2, <2>3 DEF Acks
<1>7. LogsTrue(LL)'
  BY <1>1, <1>2, <1>3, <1>4 DEF Valid, Facts, LogsTrue
<1>8. AcksKept(LL)'
  <2>. SUFFICES ASSUME NEW j \in Server
                PROVE  /\ \A m \in Acks(net', j) :
                            Kept(LL, RefutedBy(net', disk'), disk'[j].Term, disk'[j].ents, m)
                       /\ \A m \in Acks(net' \cup Queued(j)', j) : \A k \in 1..Len(appendQ'[j]) :
                            Kept(LL, RefutedBy(net', disk'), appendQ'[j][k].Term, appendQ'[j][k].ents, m)
                       /\ \A m \in Acks(Made(j)', j) :
                            Kept(LL, RefutedBy(net', disk'), raft'[j].Term, raftLog'[j].ents, m)
    BY DEF AcksKept
  <2>1. /\ \A m \in Acks(net, j) : Kept(LL, RefutedBy(net, disk), disk[j].Term, disk[j].ents, m)
        /\ \A m \in Acks(net \cup Queued(j), j) : \A k \in 1..Len(appendQ[j]) :
            Kept(LL, RefutedBy(net, disk), appendQ[j][k].Term, appendQ[j][k].ents, m)
        /\ \A m \in Acks(Made(j), j) :
            Kept(LL, RefutedBy(net, disk), raft[j].Term, raftLog[j].ents, m)
    BY DEF Valid, Facts, AcksKept
  <2>2. CASE j # i
    BY <1>2, <1>3, <1>4, <1>6, <2>1, <2>2
  <2>3. CASE j = i
    <3>1. Acks(net' \cup Queued(i)', i) \subseteq Acks(Made(i)', i)
      BY DEF Acks, Made
    <3>2. \A m \in Acks(net' \cup Queued(i)', i) :
            Kept(LL, RefutedBy(net, disk), item.Term, item.ents, m)
      BY <1>1, <1>6, <2>1, <2>3, <3>1
    <3>. QED
      BY <1>2, <1>4, <1>6, <2>1, <2>3, <3>2
  <2>. QED
    BY <2>2, <2>3
<1>9. SyncInv'
  <2>1. ASSUME NEW j \in Server PROVE OwnedBy(j)'
    <3>1. OwnedBy(j)
      BY DEF Valid, SyncInv
    <3>2. CASE j # i
      BY <1>2, <1>3, <1>4, <3>1, <3>2 DEF OwnedBy
    <3>3. CASE j = i
      <4>1. \A m : Idle(m) => ~Ack(m) /\ m.type # "MsgVote"
        BY DEF Idle, Ack
      <4>2. \A m \in item.resps : Ack(m) => m.from = i /\ m.term >= disk[i].Term
        BY <1>1, <3>1, <3>3, <4>1 DEF OwnedBy
      <4>3. \A m \in item.resps : m.type = "MsgVote" => m.from = i /\ m.term <= item.Term
        BY <1>1, <3>1, <3>3, <4>1 DEF OwnedBy
      <4>. QED
        BY <1>2, <1>3, <1>4, <3>3, <4>2, <4>3 DEF OwnedBy
    <3>. QED
      BY <3>2, <3>3
  <2>2. ASSUME NEW j \in Server PROVE AsksOnce(j)'
    <3>1. AsksOnce(j)
      BY DEF Valid, SyncInv
    <3>2. \A m \in Made(j)' : m.type = "MsgVote" => m \in Made(j)
      BY <1>5 DEF Idle
    <3>. QED
      BY <1>2, <3>1, <3>2 DEF AsksOnce
  <2>3. KnownFromDisk'
    BY <1>2, <1>6 DEF Valid, SyncInv, KnownFromDisk
  <2>. QED
    BY <2>1, <2>2, <2>3 DEF SyncInv
<1>10. RangeInv'
  <2>. SUFFICES ASSUME NEW j \in Server
                PROVE  /\ raftLog'[j].first <= raftLog'[j].committed + 1
                       /\ disk'[j].first <= disk'[j].committed + 1
                       /\ disk'[j].committed <= raftLog'[j].committed
                       /\ Len(disk'[j].snapshot) <= disk'[j].committed
                       /\ \A k \in 1..Len(appendQ'[j]) :
                            /\ disk'[j].committed <= appendQ'[j][k].committed
                            /\ appendQ'[j][k].committed <= raftLog'[j].committed
                            /\ Len(appendQ'[j][k].snapshot) <= appendQ'[j][k].committed
    BY DEF RangeInv
  <2>1. CASE j # i
    BY <1>2, <1>3, <2>1 DEF Valid, RangeInv
  <2>2. CASE j = i
    <3>1. raftLog[i].committed \in Nat
      BY LogTypes DEF Valid
    <3>2. disk[i].committed <= item.committed /\ item.committed <= raftLog[i].committed
      BY <1>1, <3>1 DEF Valid, RangeInv
    <3>. QED
      BY <1>1, <1>2, <1>4, <2>2, <3>2 DEF Valid, RangeInv
  <2>. QED
    BY <2>1, <2>2
<1>11. /\ \A n \in net' : MsgTrue(LL, net, n)
       /\ \A j \in Server : \A n \in Queued(j)' \cup pend'[j] : MsgTrue(LL, net, n)
  <2>1. \A m : Idle(m) => MsgTrue(LL, net, m)
    BY DEF Idle, MsgTrue, LeaderTypes
  <2>2. \A m \in net : MsgTrue(LL, net, m)
    BY DEF Valid, Facts, MsgsTrue
  <2>3. \A j \in Server : \A n \in Made(j) : MsgTrue(LL, net, n)
    BY DEF Valid, Facts, MsgsTrue, Made
  <2>4. \A j \in Server : \A n \in Queued(j)' \cup pend'[j] : n \in Made(j)'
    BY DEF Made
  <2>. QED
    BY <1>2, <1>5, <2>1, <2>2, <2>3, <2>4
<1>12. RefutedBy(net, disk) \subseteq RefutedBy(net', disk') /\ net \subseteq net' /\ elected' = elected
  BY <1>2
<1>13. \A j \in Server : raft'[j] = raft[j] /\ raftLog'[j].ents = raftLog[j].ents /\ trk'[j] = trk[j]
  BY <1>2
<1>. QED
  BY <1>6, <1>7, <1>8, <1>9, <1>10, <1>11, <1>12, <1>13, DiskKeeps

\* A write: the disk now holds what the messages that it lets out say, and it
\* lets out no acknowledgement of a term that the disk had left.
LEMMA LogWrite ==
    ASSUME IndType', NEW LL \in LeaderLogs, Valid(LL), NEW i \in Server, ProcessAppend(i)
    PROVE  LogInv'
<1>. DEFINE item == appendQ[i][1]
            R == RefutedBy(net, disk)
            W == RefutedBy(net', disk')
            C == CertifiedBy(net)
            D == CertifiedBy(net')
<1>1. /\ IndType /\ ElectionInv /\ OwnedBy(i) /\ appendQ[i] \in Seq(AppendItem)
      /\ appendQ[i] # << >> /\ Len(appendQ[i]) <= 1
      /\ appendQ \in [Server -> Seq(AppendItem)] /\ disk \in [Server -> DiskType]
  BY DEF Valid, IndType, TypeOK, ProcessAppend, SyncInv, OwnedBy
<1>2. /\ disk' = [disk EXCEPT ![i] = Saved(disk[i], item)]
      /\ appendQ' = [appendQ EXCEPT ![i] = Tail(appendQ[i])]
      /\ net' = net \cup item.resps
      /\ UNCHANGED <<raft, trk, raftLog, pend, elected>>
  BY DEF ProcessAppend
<1>3. /\ Len(appendQ[i]) = 1 /\ Len(appendQ'[i]) = 0 /\ 1..Len(appendQ'[i]) = {}
      /\ \A k \in 1..Len(appendQ[i]) : appendQ[i][k] = item
      /\ 1 \in 1..Len(appendQ[i])
  <2>1. Len(appendQ[i]) = 1
    <3>1. Len(appendQ[i]) \in Nat \ {0} /\ Len(appendQ[i]) <= 1
      BY <1>1, EmptySeq
    <3>2. \A n \in Nat \ {0} : n <= 1 => n = 1
      OBVIOUS
    <3>. QED
      BY <3>1, <3>2, Zenon
  <2>2. Len(appendQ'[i]) = 0
    <3>1. appendQ'[i] = Tail(appendQ[i])
      BY <1>1, <1>2
    <3>2. Len(Tail(appendQ[i])) = Len(appendQ[i]) - 1
      BY <1>1, HeadTailProperties
    <3>. QED
      BY <2>1, <3>1, <3>2
  <2>. QED
    BY <2>1, <2>2
<1>4. /\ \A j \in Server \ {i} : appendQ'[j] = appendQ[j] /\ disk'[j] = disk[j]
      /\ disk'[i].Term = item.Term /\ disk'[i].ents = item.ents
      /\ disk'[i].committed = item.committed
      /\ \/ /\ item.snapshot = << >> /\ disk'[i].first = disk[i].first
            /\ disk'[i].snapshot = disk[i].snapshot
         \/ disk'[i].first = Len(item.snapshot) + 1 /\ disk'[i].snapshot = item.snapshot
  BY <1>1, <1>2 DEF Saved
<1>5. /\ item.Term \in Nat /\ disk[i].Term \in Nat /\ disk[i].Term <= item.Term
      /\ item.ents \in Seq(Entry) /\ item.committed \in Nat /\ item.snapshot \in Seq(Entry)
      /\ disk[i].snapshot \in Seq(Entry) /\ disk[i].committed \in Nat /\ disk[i].first \in Nat
      /\ item.resps \subseteq Message
  <2>1. disk[i].Term <= item.Term
    BY <1>1, <1>3, TermsForward
  <2>. QED
    BY <1>1, <1>3, <2>1, LogTypes
<1>6. /\ Queued(i) = item.resps /\ Queued(i)' = {}
      /\ \A j \in Server \ {i} : Queued(j)' = Queued(j)
  <2>1. Queued(i) = item.resps
    BY <1>3 DEF Queued
  <2>. QED
    BY <1>3, <1>4, <2>1 DEF Queued
<1>7. /\ \A m \in item.resps : Ack(m) => m.from = i /\ m.term >= disk[i].Term
      /\ \A m \in item.resps : Grant(m) => m.from = i
      /\ \A m \in item.resps : m.type = "MsgVote" => m.from = i /\ m.term <= item.Term
      /\ \A m \in pend[i] : Ack(m) => m.from = i /\ m.term >= item.Term
      /\ \A m \in pend[i] : m.type = "MsgVote" => m.from = i /\ m.term <= raft[i].Term
  BY <1>1, <1>3, <1>6 DEF OwnedBy, ElectionInv, GrantsBacked
<1>. HIDE DEF item, R, W, C, D
<1>8. /\ \A j \in Server : \A m \in Made(j)' : m \in Made(j) \/ (m \in item.resps /\ j # i)
      /\ \A j \in Server : Made(j) \subseteq Made(j)'
  BY <1>2, <1>6 DEF Made
<1>9. \A j \in Server : /\ Acks(Made(j)', j) \subseteq Acks(Made(j), j)
                        /\ Granted(j)' \subseteq Granted(j)
  <2>1. \A j \in Server : Granted(j) = {m \in Made(j) : Grant(m) /\ m.from = j}
    BY DEF Granted, Made, Queued
  <2>2. \A j \in Server : Granted(j)' = {m \in Made(j)' : Grant(m) /\ m.from = j}
    BY DEF Granted, Made, Queued
  <2>. QED
    BY <1>7, <1>8, <2>1, <2>2 DEF Acks
<1>10. R \subseteq W
  <2>. SUFFICES ASSUME NEW t \in Nat, NEW k \in Nat, <<t, k>> \in R
                PROVE  <<t, k>> \in W
    BY DEF R, RefutedBy
  <2>1. PICK Q \in SUBSET Server : /\ IsJointQuorum(Config, Q)
                                   /\ \A j \in Q : disk[j].Term > t /\ j \notin AckedAt(net, t, k)
    BY DEF R, RefutedBy
  <2>2. ASSUME NEW j \in Q
        PROVE  disk'[j].Term > t /\ j \notin AckedAt(net', t, k)
    <3>1. j \in Server /\ disk[j].Term > t /\ j \notin AckedAt(net, t, k)
      BY <2>1
    <3>2. disk'[j].Term > t
      BY <1>4, <1>5, <3>1, SMTT(30)
    <3>3. ASSUME NEW m \in net', Ack(m), m.from = j, m.term = t, m.index >= k
          PROVE  FALSE
      <4>1. CASE m \in net
        BY <3>1, <3>3, <4>1 DEF AckedAt
      <4>2. CASE m \in item.resps
        <5>1. j = i /\ t >= disk[i].Term
          BY <1>7, <3>3, <4>2
        <5>. QED
          BY <1>5, <3>1, <5>1
      <4>. QED
        BY <1>2, <4>1, <4>2
    <3>. QED
      BY <3>2, <3>3 DEF AckedAt
  <2>. QED
    BY <2>1, <2>2 DEF W, RefutedBy
<1>11. net \subseteq net'
  BY <1>2
<1>12. \A t, s, c : Backed(LL, C, t, s, c) => Backed(LL, D, t, s, c)
  BY <1>11, SentGrows DEF C, D
<1>13. LogsTrue(LL)'
  <2>. SUFFICES ASSUME NEW j \in Server
                PROVE  /\ LogTrue(LL, D, raft'[j].Term, raftLog'[j].ents, raftLog'[j].committed)
                       /\ SavedTrue(LL, D, disk'[j])
                       /\ \A k \in 1..Len(appendQ'[j]) : SavedTrue(LL, D, appendQ'[j][k])
    BY DEF LogsTrue, D
  <2>1. /\ LogTrue(LL, C, raft[j].Term, raftLog[j].ents, raftLog[j].committed)
        /\ SavedTrue(LL, C, disk[j])
        /\ \A k \in 1..Len(appendQ[j]) : SavedTrue(LL, C, appendQ[j][k])
    BY DEF Valid, Facts, LogsTrue, C
  <2>2. /\ \A t, s, c : LogTrue(LL, C, t, s, c) => LogTrue(LL, D, t, s, c)
        /\ \A d : SavedTrue(LL, C, d) => SavedTrue(LL, D, d)
    BY <1>12 DEF LogTrue, SavedTrue
  <2>3. CASE j # i
    BY <1>2, <1>4, <2>1, <2>2, <2>3
  <2>4. CASE j = i
    <3>1. SavedTrue(LL, C, item)
      BY <1>3, <2>1, <2>4
    <3>2. Backed(LL, C, item.Term, disk[i].snapshot, Len(disk[i].snapshot))
      <4>. DEFINE s == disk[i].snapshot
                  n == Len(s)
                  a == disk[i].Term
                  b == item.Term
      <4>1. s \in Seq(Entry) /\ n \in Nat /\ a \in Nat /\ b \in Nat /\ a <= b /\ n <= n
        BY <1>5
      <4>2. Backed(LL, C, a, s, n)
        BY <2>1, <2>4 DEF SavedTrue
      <4>3. Agree(s, s, n)
        BY <4>1 DEF Agree
      <4>4. n = Len(s)
        OBVIOUS
      <4>. HIDE DEF s, n, a, b
      <4>5. Backed(LL, C, b, s, n)
        BY <4>1, <4>2, <4>3, BackedMoves
      <4>. QED
        BY <4>5 DEF s, n, b
    <3>3. SavedTrue(LL, C, disk'[i])
      BY <1>4, <3>1, <3>2 DEF SavedTrue
    <3>. QED
      BY <1>2, <1>3, <2>1, <2>2, <2>4, <3>3
  <2>. QED
    BY <2>3, <2>4
<1>14. AcksKept(LL)'
  <2>. SUFFICES ASSUME NEW j \in Server
                PROVE  /\ \A m \in Acks(net', j) : Kept(LL, W, disk'[j].Term, disk'[j].ents, m)
                       /\ \A m \in Acks(net' \cup Queued(j)', j) : \A k \in 1..Len(appendQ'[j]) :
                            Kept(LL, W, appendQ'[j][k].Term, appendQ'[j][k].ents, m)
                       /\ \A m \in Acks(Made(j)', j) :
                            Kept(LL, W, raft'[j].Term, raftLog'[j].ents, m)
    BY DEF AcksKept, W
  <2>1. /\ \A m \in Acks(net, j) : Kept(LL, R, disk[j].Term, disk[j].ents, m)
        /\ \A m \in Acks(net \cup Queued(j), j) : \A k \in 1..Len(appendQ[j]) :
            Kept(LL, R, appendQ[j][k].Term, appendQ[j][k].ents, m)
        /\ \A m \in Acks(Made(j), j) : Kept(LL, R, raft[j].Term, raftLog[j].ents, m)
    BY DEF Valid, Facts, AcksKept, R
  <2>2. \A term, s, m : Kept(LL, R, term, s, m) => Kept(LL, W, term, s, m)
    BY <1>10, RefutedGrows
  <2>3. \A m \in Acks(Made(j)', j) : Kept(LL, W, raft'[j].Term, raftLog'[j].ents, m)
    BY <1>2, <1>9, <2>1, <2>2
  <2>4. CASE j # i
    <3>1. Acks(net', j) \subseteq Acks(net, j)
          /\ Acks(net' \cup Queued(j)', j) \subseteq Acks(net \cup Queued(j), j)
      BY <1>2, <1>6, <1>7, <2>4 DEF Acks
    <3>2. appendQ'[j] = appendQ[j] /\ disk'[j] = disk[j]
      BY <1>4, <2>4
    <3>. QED
      BY <2>1, <2>2, <2>3, <3>1, <3>2
  <2>5. CASE j = i
    <3>1. Acks(net', i) \subseteq Acks(net \cup Queued(i), i)
      BY <1>2, <1>6 DEF Acks
    <3>2. \A m \in Acks(net', i) : Kept(LL, R, item.Term, item.ents, m)
      BY <1>3, <2>1, <2>5, <3>1
    <3>. QED
      BY <1>3, <1>4, <2>2, <2>3, <2>5, <3>2
  <2>. QED
    BY <2>4, <2>5
<1>15. SyncInv'
  <2>1. ASSUME NEW j \in Server PROVE OwnedBy(j)'
    <3>1. OwnedBy(j)
      BY DEF Valid, SyncInv
    <3>2. CASE j # i
      BY <1>2, <1>4, <1>6, <3>1, <3>2 DEF OwnedBy
    <3>3. CASE j = i
      <4>1. Len(appendQ'[i]) <= 1
        BY <1>3
      <4>. QED
        BY <1>2, <1>3, <1>4, <1>6, <1>7, <3>3, <4>1 DEF OwnedBy
    <3>. QED
      BY <3>2, <3>3
  <2>2. ASSUME NEW j \in Server PROVE AsksOnce(j)'
    <3>1. AsksOnce(j)
      BY DEF Valid, SyncInv
    <3>2. \A m \in Made(j)' : m.type = "MsgVote" /\ m.from = j => m \in Made(j)
      BY <1>7, <1>8
    <3>. QED
      BY <1>2, <3>1, <3>2 DEF AsksOnce
  <2>3. KnownFromDisk'
    <3>0. \A j \in Server : disk[j].Term \in Nat /\ disk'[j].Term \in Nat /\ disk[j].Term <= disk'[j].Term
      <4>1. \A j \in Server : disk[j].Term \in Nat
        BY <1>1, LogTypes
      <4>. QED
        BY <1>4, <1>5, <4>1
    <3>1. \A m \in net' : m.type = "MsgVote" => m.term <= disk'[m.from].Term
      <4>1. \A m \in item.resps : m.type = "MsgVote" => m.term <= disk'[m.from].Term
        BY <1>4, <1>7
      <4>2. ASSUME NEW m \in net, m.type = "MsgVote" PROVE m.term <= disk'[m.from].Term
        <5>1. m.term <= disk[m.from].Term /\ m.from \in Server /\ m.term \in Nat
          BY <1>1, <4>2, KnownTypes DEF Valid, SyncInv, KnownFromDisk
        <5>. QED
          BY <3>0, <5>1
      <4>. QED
        BY <1>2, <4>1, <4>2
    <3>2. \A e \in elected' : e[1] <= disk'[e[2]].Term
      <4>. SUFFICES ASSUME NEW e \in elected PROVE e[1] <= disk'[e[2]].Term
        BY <1>2
      <4>1. e[1] <= disk[e[2]].Term /\ e[1] \in Nat /\ e[2] \in Server
        BY <1>1, KnownTypes DEF Valid, SyncInv, KnownFromDisk
      <4>. QED
        BY <3>0, <4>1
    <3>3. ASSUME NEW j \in Server, NEW g \in Granted(j)', g.to # j PROVE g.term <= disk'[g.to].Term
      <4>1. g \in Granted(j)
        BY <1>9
      <4>2. g.term <= disk[g.to].Term /\ g.to \in Server /\ g.term \in Nat
        BY <1>1, <3>3, <4>1, KnownTypes DEF Valid, SyncInv, KnownFromDisk
      <4>. QED
        BY <3>0, <4>2
    <3>. QED
      BY <3>1, <3>2, <3>3 DEF KnownFromDisk
  <2>. QED
    BY <2>1, <2>2, <2>3 DEF SyncInv
<1>16. RangeInv'
  <2>. SUFFICES ASSUME NEW j \in Server
                PROVE  /\ raftLog'[j].first <= raftLog'[j].committed + 1
                       /\ disk'[j].first <= disk'[j].committed + 1
                       /\ disk'[j].committed <= raftLog'[j].committed
                       /\ Len(disk'[j].snapshot) <= disk'[j].committed
                       /\ \A k \in 1..Len(appendQ'[j]) :
                            /\ disk'[j].committed <= appendQ'[j][k].committed
                            /\ appendQ'[j][k].committed <= raftLog'[j].committed
                            /\ Len(appendQ'[j][k].snapshot) <= appendQ'[j][k].committed
    BY DEF RangeInv
  <2>1. CASE j # i
    BY <1>2, <1>4, <2>1 DEF Valid, RangeInv
  <2>2. CASE j = i
    <3>1. /\ raftLog[i].first <= raftLog[i].committed + 1
          /\ disk[i].first <= disk[i].committed + 1 /\ Len(disk[i].snapshot) <= disk[i].committed
          /\ disk[i].committed <= item.committed /\ item.committed <= raftLog[i].committed
          /\ Len(item.snapshot) <= item.committed
      BY <1>3 DEF Valid, RangeInv
    <3>2. Len(disk[i].snapshot) \in Nat /\ Len(item.snapshot) \in Nat
      BY <1>5
    <3>3. disk'[i].first <= item.committed + 1 /\ Len(disk'[i].snapshot) <= item.committed
      BY <1>4, <1>5, <3>1, <3>2, SMTT(30)
    <3>. QED
      BY <1>2, <1>3, <1>4, <2>2, <3>1, <3>3
  <2>. QED
    BY <2>1, <2>2
<1>17. /\ \A n \in net' : MsgTrue(LL, net, n)
       /\ \A j \in Server : \A n \in Queued(j)' \cup pend'[j] : MsgTrue(LL, net, n)
  BY <1>2, <1>6 DEF Valid, Facts, MsgsTrue
<1>18. \A j \in Server : raft'[j] = raft[j] /\ raftLog'[j].ents = raftLog[j].ents /\ trk'[j] = trk[j]
  BY <1>2
<1>19. RefutedBy(net, disk) \subseteq RefutedBy(net', disk') /\ elected' = elected
  BY <1>2, <1>10 DEF R, W
<1>. QED
  BY <1>9, <1>11, <1>13, <1>14, <1>15, <1>16, <1>17, <1>18, <1>19, DiskKeeps

-----------------------------------------------------------------------------
(* The theorems. They hold with synchronous storage writes.                *)

\* Nobody leads in a cluster that starts, and nothing is committed.
LEMMA LogInit == Init => LogInv
<1>. SUFFICES ASSUME Init PROVE LogInv
  OBVIOUS
<1>1. \A i \in Server : /\ raft[i].Term = 0 /\ raft[i].state = "StateFollower"
                        /\ raftLog[i].ents = << >> /\ raftLog[i].committed = 0
                        /\ raftLog[i].first = 1
                        /\ disk[i].Term = 0 /\ disk[i].ents = << >> /\ disk[i].committed = 0
                        /\ disk[i].first = 1 /\ disk[i].snapshot = << >>
                        /\ pend[i] = {} /\ appendQ[i] = << >>
  BY DEF Init, EmptyLog
<1>2. Len(<< >>) = 0 /\ 1..Len(<< >>) = {} /\ << >> \in Seq(Entry)
  BY EmptySeq
<1>3. net = {} /\ elected = {}
  BY DEF Init
<1>4. \A i \in Server : /\ Len(appendQ[i]) = 0 /\ 1..Len(appendQ[i]) = {}
                        /\ Queued(i) = {} /\ Made(i) = {} /\ Granted(i) = {}
  <2>1. \A i \in Server : Len(appendQ[i]) = 0 /\ 1..Len(appendQ[i]) = {}
    BY <1>1, <1>2
  <2>2. \A i \in Server : Queued(i) = {}
    BY <2>1 DEF Queued
  <2>. QED
    BY <1>1, <1>3, <2>1, <2>2 DEF Made, Granted
<1>5. SyncInv
  BY <1>1, <1>3, <1>4 DEF SyncInv, OwnedBy, AsksOnce, KnownFromDisk
<1>6. RangeInv
  BY <1>1, <1>2, <1>4 DEF RangeInv
<1>. DEFINE LL == [t \in Nat |-> << >>]
<1>7. LL \in LeaderLogs /\ \A t \in Nat : LL[t] = << >>
  BY <1>2 DEF LeaderLogs
<1>. HIDE DEF LL
<1>8. \A C, term, s : Sound(LL, term, << >>) /\ Backed(LL, C, term, s, 0)
  BY <1>2 DEF Sound, Backed
<1>9. LeadersSound(LL)
  BY <1>7, <1>8 DEF LeadersSound
<1>10. LogsTrue(LL)
  BY <1>1, <1>2, <1>4, <1>8 DEF LogsTrue, LogTrue, SavedTrue
<1>11. MsgsTrue(LL) /\ AcksKept(LL)
  BY <1>1, <1>3, <1>4 DEF MsgsTrue, AcksKept, Acks
<1>12. Informed(LL) /\ MatchTrue(LL)
  BY <1>1 DEF Informed, MatchTrue
<1>13. LeadersOf(LL) /\ Complete(LL, RefutedBy(net, disk))
  BY <1>1, <1>3, <1>7 DEF LeadersOf, Complete
<1>. QED
  BY <1>5, <1>6, <1>7, <1>9, <1>10, <1>11, <1>12, <1>13 DEF LogInv, Facts

\* Every step keeps it.
LEMMA LogNext ==
    ASSUME ~AsyncStorageWrites, IndType, IndType', ElectionInv, ElectionInv',
           ElectionSafety', LeadInv, LeadInv', LogInv, [Next]_vars
    PROVE  LogInv'
<1>1. PICK LL \in LeaderLogs : Facts(LL) /\ LeadersOf(LL) /\ Complete(LL, RefutedBy(net, disk))
  BY DEF LogInv
<1>2. Valid(LL)
  BY <1>1 DEF Valid, LogInv
<1>3. CASE UNCHANGED vars
  <2>1. LogInv' = LogInv
    BY <1>3 DEF vars, LogInv, SyncInv, OwnedBy, AsksOnce, KnownFromDisk, RangeInv, Facts,
       LeadersSound, LogsTrue, MsgsTrue, AcksKept, Informed, MatchTrue, LeadersOf, Made, Queued,
       Granted
  <2>. QED
    BY <2>1
<1>4. ASSUME NEW i \in Server, NEW m \in net, m.to = i, Receive(i, m)
      PROVE  LogInv'
  <2>1. m \in Message
    BY DEF IndType, TypeOK
  <2>2. CASE \/ HandleVote(i, m) \/ HandleAppendEntries(i, m) \/ HandleHeartbeat(i, m)
             \/ HandleSnapshot(i, m) \/ HandleAppendAck(i, m)
    BY <1>2, <1>4, <2>2, LogVote, LogAppend, LogHeartbeat, LogSnapshot, LogAck
  <2>3. CASE PollPending(i, m) \/ PollLost(i, m) \/ StepDown(i, m)
    BY <1>2, <2>1, <2>3, LogStepDown
  <2>4. CASE PollPreVoteWon(i, m) \/ HandleTimeoutNow(i, m)
    BY <1>2, <2>1, <2>4, LogCampaigns
  <2>5. CASE PollWon(i, m)
    BY <1>2, <2>1, <2>5, LogPollWon
  <2>6. CASE StepLowerTerm(i, m) \/ HandleStorageAppendResp(i, m)
    BY <1>2, <2>6, LogLowerTerm, LogStorageResp
  <2>7. CASE HandleAppendReject(i, m) \/ HandleHeartbeatResp(i, m)
    BY <1>2, <2>1, <2>7, LogReplies
  <2>8. CASE HandleProp(i, m) \/ HandleTransferLeader(i, m)
    BY <1>2, <2>1, <2>8, LogForwarded
  <2>. QED
    BY <1>4, <2>2, <2>3, <2>4, <2>5, <2>6, <2>7, <2>8 DEF Receive
<1>5. ASSUME NEW i \in Server, Local(i)
      PROVE  LogInv'
  <2>1. CASE Campaign(i)
    <3>1. \E m : m \in Message
      <4>1. 0 \in Nat /\ TRUE \in BOOLEAN
        OBVIOUS
      <4>. QED
        BY <4>1, MessageTypes
    <3>. QED
      BY <1>2, <2>1, <3>1, LogCampaigns
  <2>2. CASE Tick(i) \/ ForgetLeader(i) \/ LeaderTimeout(i) \/ Beat(i)
    BY <1>2, <2>2, LogTimers, LogBeat
  <2>3. CASE \E v \in Value : Propose(i, v)
    BY <1>2, <2>3, LogProp DEF Propose
  <2>4. CASE \E j \in Server : \/ TransferLeader(i, j) \/ ReportUnreachable(i, j)
                               \/ \E failed \in BOOLEAN : ReportSnapshot(i, j, failed)
    BY <1>2, <2>4, LogTransfers, LogReports
  <2>. QED
    BY <1>5, <2>1, <2>2, <2>3, <2>4 DEF Local
<1>6. ASSUME NEW i \in Server, Durability(i)
      PROVE  LogInv'
  <2>1. ASSUME NEW k \in 1..disk[i].committed, CreateSnapshot(i, k) \/ Compact(i, k)
        PROVE  LogInv'
    <3>1. k \in Nat
      OBVIOUS
    <3>. QED
      BY <1>2, <2>1, <3>1, LogCreateSnapshot, LogCompact
  <2>2. CASE Ready(i) \/ ProcessAppend(i) \/ Restart(i)
    BY <1>2, <2>2, LogReady, LogWrite, LogRestart
  <2>. QED
    BY <1>6, <2>1, <2>2 DEF Durability
<1>. QED
  BY <1>3, <1>4, <1>5, <1>6 DEF Next

(***************************************************************************)
(* The invariant behind the safety of the log. There are logs LL[t], the   *)
(* last ones of the leaders of each term, such that every log is pieced    *)
(* together from them, every acknowledgement that is out is true of the    *)
(* disk, and a leader has everything that a quorum acknowledged to the     *)
(* leaders before it and everything that a quorum still may.               *)
(***************************************************************************)
THEOREM LogInductive ==
    ASSUME ~AsyncStorageWrites
    PROVE  Spec => []LogInv
<1>1. IndType /\ IndType' /\ ElectionInv /\ ElectionInv' /\ ElectionSafety' /\ LeadInv
        /\ LeadInv' /\ LogInv /\ [Next]_vars => LogInv'
  BY LogNext
<1>. QED
  BY <1>1, LogInit, TypeInductive, ElectionInductive, ElectionIsSafe, LeadInductive, PTL DEF Spec

\* From now on LogInv is used with one history of the leaders' logs.
LEMMA LogHistory ==
    ASSUME IndType, ElectionInv, LeadInv, LogInv
    PROVE  \E LL \in LeaderLogs : Valid(LL)
<1>. QED
  BY DEF LogInv, Valid

(***************************************************************************)
(* Logs, in memory or on disk, that have an entry of the same term at an   *)
(* index are the same up to it: what the check of the previous entry in    *)
(* handleAppendEntries and findConflict give, through any crash.           *)
(***************************************************************************)
THEOREM LogsMatch ==
    ASSUME ~AsyncStorageWrites
    PROVE  Spec => []LogMatching
<1>1. IndType /\ ElectionInv /\ LeadInv /\ LogInv => LogMatching
  <2>. DEFINE logs == {raftLog[i].ents : i \in Server} \cup {disk[i].ents : i \in Server}
  <2>. SUFFICES ASSUME IndType, ElectionInv, LeadInv, LogInv,
                       NEW s \in logs, NEW t \in logs, NEW k \in 1..Least(Len(s), Len(t)),
                       s[k].term = t[k].term
                PROVE  SameUpTo(s, t, k)
    BY DEF LogMatching
  <2>1. PICK LL \in LeaderLogs : Valid(LL)
    BY LogHistory
  <2>2. \A u \in logs : u \in Seq(Entry) /\ \E a : Sound(LL, a, u)
    BY <2>1, LogTypes DEF Valid, Facts, LogsTrue, SavedTrue, LogTrue
  <2>. HIDE DEF logs
  <2>3. k \in Nat /\ k \in 1..Len(s) /\ k <= Len(t)
    BY <2>2 DEF Least
  <2>4. Agree(s, t, k)
    BY <2>2, <2>3, SoundMeet
  <2>. QED
    BY <2>2, <2>3, <2>4, AgreeIsSame
<1>. QED
  BY <1>1, LogInductive, TypeInductive, ElectionInductive, LeadInductive, PTL

(***************************************************************************)
(* No two servers ever commit different entries at the same index, for     *)
(* every cluster and joint configuration: what the application relies on   *)
(* when it applies CommittedEntries.                                       *)
(***************************************************************************)
THEOREM StateMachinesAgree ==
    ASSUME ~AsyncStorageWrites
    PROVE  Spec => []StateMachineSafety
<1>1. IndType /\ ElectionInv /\ LeadInv /\ LogInv => StateMachineSafety
  <2>. SUFFICES ASSUME IndType, ElectionInv, LeadInv, LogInv, NEW i \in Server, NEW j \in Server
                PROVE  SameUpTo(raftLog[i].ents, raftLog[j].ents,
                                Least(raftLog[i].committed, raftLog[j].committed))
    BY DEF StateMachineSafety
  <2>1. PICK LL \in LeaderLogs : Valid(LL)
    BY LogHistory
  <2>2. Complete(LL, RefutedBy(net, disk))
    BY <2>1 DEF Valid
  <2>3. \A x \in Server : /\ raft[x].Term \in Nat /\ raftLog[x].ents \in Seq(Entry)
                          /\ raftLog[x].committed \in Nat
                          /\ Backed(LL, CertifiedBy(net), raft[x].Term, raftLog[x].ents,
                                    raftLog[x].committed)
    BY <2>1, LogTypes DEF Valid, Facts, LogsTrue, LogTrue
  <2>4. \A x, y \in Server : raftLog[x].committed <= raftLog[y].committed =>
            Agree(raftLog[x].ents, raftLog[y].ents, raftLog[x].committed)
    BY <2>2, <2>3, BackedAgree
  <2>5. CASE raftLog[i].committed <= raftLog[j].committed
    <3>1. Least(raftLog[i].committed, raftLog[j].committed) = raftLog[i].committed
      BY <2>3, <2>5 DEF Least
    <3>. QED
      BY <2>3, <2>4, <2>5, <3>1, AgreeIsSame
  <2>6. CASE raftLog[j].committed <= raftLog[i].committed
    <3>1. Least(raftLog[i].committed, raftLog[j].committed) = raftLog[j].committed
      BY <2>3, <2>6 DEF Least
    <3>2. Agree(raftLog[i].ents, raftLog[j].ents, raftLog[j].committed)
      BY <2>3, <2>4, <2>6, AgreeFacts
    <3>. QED
      BY <2>3, <3>1, <3>2, AgreeIsSame
  <2>. QED
    BY <2>3, <2>5, <2>6
<1>. QED
  BY <1>1, LogInductive, TypeInductive, ElectionInductive, LeadInductive, PTL

(***************************************************************************)
(* A leader has every entry that a server of its term or of an earlier one *)
(* has committed: isUpToDate in Step, and the rule of maybeCommit that     *)
(* only an entry of the current term counts, see to it.                    *)
(***************************************************************************)
THEOREM LeadersAreComplete ==
    ASSUME ~AsyncStorageWrites
    PROVE  Spec => []LeaderCompleteness
<1>1. IndType /\ ElectionInv /\ LeadInv /\ LogInv => LeaderCompleteness
  <2>. SUFFICES ASSUME IndType, ElectionInv, LeadInv, LogInv, NEW i \in Server, NEW j \in Server,
                       raft[i].state = "StateLeader", raft[j].Term <= raft[i].Term
                PROVE  SameUpTo(raftLog[i].ents, raftLog[j].ents, raftLog[j].committed)
    BY DEF LeaderCompleteness
  <2>1. PICK LL \in LeaderLogs : Valid(LL)
    BY LogHistory
  <2>2. /\ Complete(LL, RefutedBy(net, disk)) /\ raftLog[i].ents = LL[raft[i].Term]
        /\ LL[raft[i].Term] # << >>
    BY <2>1, LeaderNow DEF Valid, LeadersOf
  <2>3. /\ raft[i].Term \in Nat /\ raft[j].Term \in Nat /\ raftLog[i].ents \in Seq(Entry)
        /\ raftLog[j].ents \in Seq(Entry) /\ raftLog[j].committed \in Nat
    BY LogTypes
  <2>4. Backed(LL, CertifiedBy(net), raft[j].Term, raftLog[j].ents, raftLog[j].committed)
    BY <2>1 DEF Valid, Facts, LogsTrue, LogTrue
  <2>5. Agree(raftLog[j].ents, LL[raft[i].Term], raftLog[j].committed)
    BY <2>2, <2>3, <2>4, LeaderHas
  <2>6. Agree(raftLog[i].ents, raftLog[j].ents, raftLog[j].committed)
    BY <2>2, <2>3, <2>5, AgreeFacts
  <2>. QED
    BY <2>3, <2>6, AgreeIsSame
<1>. QED
  BY <1>1, LogInductive, TypeInductive, ElectionInductive, LeadInductive, PTL

(***************************************************************************)
(* raftLog.committed is what log.go says it is: a quorum of both halves of *)
(* the configuration has the committed entries in stable storage.          *)
(***************************************************************************)
THEOREM CommittedIsDurable ==
    ASSUME ~AsyncStorageWrites
    PROVE  Spec => []CommittedOnQuorumDisks
<1>1. IsJointQuorum(Config, Server)
  <2>1. \A c \in SUBSET Server : IsMajority(c, Server)
    <3>. SUFFICES ASSUME NEW c \in SUBSET Server PROVE IsMajority(c, Server)
      OBVIOUS
    <3>1. c \cap Server = c /\ IsFiniteSet(c)
      BY FS_Subset
    <3>2. Cardinality(c) \in Nat /\ (Cardinality(c) = 0 <=> c = {})
      BY <3>1, FS_CardinalityType, FS_EmptySet
    <3>3. c = {} \/ 2 * Cardinality(c) > Cardinality(c)
      BY <3>2
    <3>. QED
      BY <3>1, <3>3 DEF IsMajority
  <2>. QED
    BY <2>1 DEF IsJointQuorum, Config
<1>2. IndType /\ ElectionInv /\ LeadInv /\ LogInv => CommittedOnQuorumDisks
  <2>. SUFFICES ASSUME IndType, ElectionInv, LeadInv, LogInv, NEW i \in Server
                PROVE  IsJointQuorum(Config, {j \in Server :
                            SameUpTo(disk[j].ents, raftLog[i].ents, raftLog[i].committed)})
    BY DEF CommittedOnQuorumDisks
  <2>. DEFINE s == raftLog[i].ents
              c == raftLog[i].committed
              have == {j \in Server : SameUpTo(disk[j].ents, s, c)}
  <2>1. PICK LL \in LeaderLogs : Valid(LL)
    BY LogHistory
  <2>2. /\ s \in Seq(Entry) /\ c \in Nat
        /\ \A j \in Server : disk[j].ents \in Seq(Entry)
    BY LogTypes
  <2>3. Backed(LL, CertifiedBy(net), raft[i].Term, s, c) /\ raft[i].Term \in Nat
    BY <2>1, LogTypes DEF Valid, Facts, LogsTrue, LogTrue
  <2>. HIDE DEF s, c
  <2>4. \A j \in Server : Agree(disk[j].ents, s, c) => j \in have
    BY <2>2, AgreeIsSame
  <2>. HIDE DEF have
  <2>5. CASE c = 0
    <3>1. \A j \in Server : Agree(disk[j].ents, s, 0)
      BY <2>2, AgreeFacts
    <3>. QED
      BY <1>1, <2>4, <2>5, <3>1, QuorumGrows DEF have, s, c
  <2>6. CASE c # 0
    <3>1. PICK t \in 0..raft[i].Term : \E k \in 1..Len(LL[t]) :
                /\ <<t, k>> \in CertifiedBy(net) /\ LL[t][k].term = t
                /\ c <= k /\ Agree(s, LL[t], c)
      BY <2>3, <2>6 DEF Backed
    <3>2. PICK k \in 1..Len(LL[t]) : /\ <<t, k>> \in CertifiedBy(net) /\ LL[t][k].term = t
                                     /\ c <= k /\ Agree(s, LL[t], c)
      BY <3>1
    <3>3. t \in Nat /\ LL[t] \in Seq(Entry) /\ k \in Nat /\ k >= 1
      <4>1. t \in Nat
        BY <2>3
      <4>. QED
        BY <4>1 DEF LeaderLogs
    <3>4. <<t, k>> \notin RefutedBy(net, disk)
      BY <3>2, CertifiedStands
    <3>5. ASSUME NEW j \in AckedAt(net, t, k) PROVE j \in have
      <4>1. PICK m \in net : Ack(m) /\ m.from = j /\ m.term = t /\ m.index >= k
        BY DEF AckedAt
      <4>2. j \in Server /\ m \in Acks(net, j) /\ m.index \in Nat
        <5>1. j \in Server /\ m \in Acks(net, j) /\ m \in Acks(Made(j), j)
          BY <4>1 DEF AckedAt, Acks, Made
        <5>. QED
          BY <5>1, MadeTypes
      <4>3. Holds(LL, RefutedBy(net, disk), disk[j].ents, t, m.index)
        BY <2>1, <4>1, <4>2 DEF Valid, Facts, AcksKept, Kept
      <4>4. k \in 1..m.index
        BY <3>3, <4>1, <4>2
      <4>5. Agree(disk[j].ents, LL[t], k)
        BY <3>2, <3>4, <4>3, <4>4 DEF Holds
      <4>6. Agree(disk[j].ents, s, c)
        BY <2>2, <3>2, <3>3, <4>2, <4>5 DEF Agree
      <4>. QED
        BY <2>4, <4>2, <4>6
    <3>6. IsJointQuorum(Config, AckedAt(net, t, k))
      BY <3>2 DEF CertifiedBy
    <3>7. IsJointQuorum(Config, have)
      BY <3>5, <3>6, QuorumGrows
    <3>. QED
      BY <3>7 DEF have, s, c
  <2>. QED
    BY <2>5, <2>6
<1>. QED
  BY <1>2, LogInductive, TypeInductive, ElectionInductive, LeadInductive, PTL

(***************************************************************************)
(* The panics of commitTo and loadState are unreachable: a commit index is *)
(* within its log, in memory and on disk.                                  *)
(***************************************************************************)
THEOREM CommitIsInRange ==
    ASSUME ~AsyncStorageWrites
    PROVE  Spec => []CommitInRange
<1>1. IndType /\ ElectionInv /\ LeadInv /\ LogInv => CommitInRange
  <2>. SUFFICES ASSUME IndType, ElectionInv, LeadInv, LogInv, NEW i \in Server
                PROVE  /\ raftLog[i].committed <= lastIndex(raftLog[i])
                       /\ raftLog[i].first <= raftLog[i].committed + 1
                       /\ disk[i].committed <= Len(disk[i].ents)
                       /\ disk[i].first <= disk[i].committed + 1
    BY DEF CommitInRange
  <2>1. PICK LL \in LeaderLogs : Valid(LL)
    BY LogHistory
  <2>2. /\ Backed(LL, CertifiedBy(net), raft[i].Term, raftLog[i].ents, raftLog[i].committed)
        /\ Backed(LL, CertifiedBy(net), disk[i].Term, disk[i].ents, disk[i].committed)
    BY <2>1 DEF Valid, Facts, LogsTrue, SavedTrue, LogTrue
  <2>3. raftLog[i].committed <= Len(raftLog[i].ents) /\ disk[i].committed <= Len(disk[i].ents)
    BY <2>2, LogTypes, BackedInRange
  <2>. QED
    BY <2>3 DEF LogInv, RangeInv, lastIndex
<1>. QED
  BY <1>1, LogInductive, TypeInductive, ElectionInductive, LeadInductive, PTL

(***************************************************************************)
(* Progress.Match is what its comment says, and durably so: the follower   *)
(* has the leader's entries up to it on disk, until it joins a later term. *)
(***************************************************************************)
THEOREM MatchIsOnDisk ==
    ASSUME ~AsyncStorageWrites
    PROVE  Spec => []MatchIsDurable
<1>1. IndType /\ ElectionInv /\ LeadInv /\ LogInv => MatchIsDurable
  <2>. SUFFICES ASSUME IndType, ElectionInv, LeadInv, LogInv, NEW i \in Server, NEW j \in Server,
                       raft[i].state = "StateLeader", i # j, disk[j].Term <= raft[i].Term
                PROVE  SameUpTo(disk[j].ents, raftLog[i].ents, trk[i][j].Match)
    BY DEF MatchIsDurable
  <2>. DEFINE T == raft[i].Term
              match == trk[i][j].Match
  <2>1. PICK LL \in LeaderLogs : Valid(LL)
    BY LogHistory
  <2>2. /\ T \in Nat /\ disk[j].Term \in Nat /\ disk[j].ents \in Seq(Entry)
        /\ raftLog[i].ents \in Seq(Entry) /\ match \in Nat
    <3>1. trk[i][j] \in ProgressType
      BY DEF IndType, TypeOK
    <3>. QED
      BY <3>1, LogTypes DEF ProgressType
  <2>3. raftLog[i].ents = LL[T] /\ (match = 0 \/ j \in AckedAt(net, T, match))
    BY <2>1 DEF Valid, LeadersOf, Facts, MatchTrue, MatchOf
  <2>. HIDE DEF T, match
  <2>4. Agree(disk[j].ents, raftLog[i].ents, match)
    <3>1. CASE match = 0
      BY <2>2, <3>1, AgreeFacts
    <3>2. CASE j \in AckedAt(net, T, match)
      <4>1. PICK m \in net : Ack(m) /\ m.from = j /\ m.term = T /\ m.index >= match
        BY <3>2 DEF AckedAt
      <4>2. m \in Acks(net, j) /\ m \in Acks(Made(j), j)
        BY <4>1 DEF Acks, Made
      <4>3. Kept(LL, RefutedBy(net, disk), disk[j].Term, disk[j].ents, m) /\ m.index \in Nat
        BY <2>1, <4>2, MadeTypes DEF Valid, Facts, AcksKept
      <4>4. disk[j].Term = T
        BY <2>2, <4>1, <4>3 DEF Kept, T
      <4>5. Agree(disk[j].ents, LL[T], m.index)
        BY <4>1, <4>3, <4>4 DEF Kept
      <4>. QED
        BY <2>2, <2>3, <4>1, <4>3, <4>5, AgreeFacts
    <3>. QED
      BY <2>3, <3>1, <3>2
  <2>. QED
    BY <2>2, <2>4, AgreeIsSame DEF match
<1>. QED
  BY <1>1, LogInductive, TypeInductive, ElectionInductive, LeadInductive, PTL

-----------------------------------------------------------------------------
(***************************************************************************)
(* The bookkeeping of a follower. A window of last indexes lies between    *)
(* Match and Next and rises; only StateReplicate has one. A snapshot that  *)
(* is pending is one of the leader's log.                                  *)
(***************************************************************************)
WindowIn(q, lo, hi) ==
    /\ Len(q) <= MaxInflight
    /\ \A k \in 1..Len(q) : lo < q[k] /\ q[k] < hi
    /\ \A k, l \in 1..Len(q) : l < k => q[l] < q[k]

ProgressSound(pr, last) ==
    /\ pr.Match < pr.Next /\ pr.Next <= last + 1
    /\ pr.PendingSnapshot <= last
    /\ pr.State # "StateReplicate" => pr.Inflights = << >>
    /\ WindowIn(pr.Inflights, pr.Match, pr.Next)

\* An empty window fits anywhere, and a window fits between wider bounds.
LEMMA WindowFacts ==
    /\ \A lo, hi : WindowIn(<< >>, lo, hi)
    /\ \A q \in Seq(Nat), lo \in Nat, hi \in Nat, new \in Nat :
        WindowIn(q, lo, hi) /\ hi <= new => WindowIn(q, lo, new)
<1>1. Len(<< >>) = 0 /\ 0 <= MaxInflight
  BY MaxInflightAssumption
<1>2. \A lo, hi : WindowIn(<< >>, lo, hi)
  BY <1>1 DEF WindowIn
<1>3. ASSUME NEW q \in Seq(Nat), NEW lo \in Nat, NEW hi \in Nat, NEW new \in Nat,
             WindowIn(q, lo, hi), hi <= new
      PROVE  WindowIn(q, lo, new)
  <2>1. \A k \in 1..Len(q) : q[k] \in Nat
    OBVIOUS
  <2>. QED
    BY <1>3, <2>1 DEF WindowIn
<1>. QED
  BY <1>2, <1>3

\* FreeLE frees the acked messages, and no other.
LEMMA FreeLEWindow ==
    ASSUME NEW q \in Seq(Nat), NEW lo \in Nat, NEW hi \in Nat, NEW to \in Nat,
           NEW new \in Nat, WindowIn(q, lo, hi), new = to \/ new = lo
    PROVE  WindowIn(FreeLE(q, to), new, hi)
<1>. DEFINE beyond == {k \in 1..Len(q) : q[k] > to}
            f == CHOOSE k \in beyond : \A j \in beyond : k <= j
<1>1. CASE beyond = {}
  BY <1>1, WindowFacts DEF FreeLE
<1>2. CASE beyond # {}
  <2>1. \E x \in beyond : \A j \in beyond : x <= j
    <3>1. beyond \subseteq Nat
      OBVIOUS
    <3>. HIDE DEF beyond
    <3>. QED
      BY <1>2, <3>1, LeastExists
  <2>2. f \in 1..Len(q) /\ q[f] > to
    BY <2>1
  <2>3. FreeLE(q, to) = SubSeq(q, f, Len(q))
    BY <1>2 DEF FreeLE
  <2>. HIDE DEF f, beyond
  <2>. DEFINE s == SubSeq(q, f, Len(q))
  <2>4. Len(q) \in Nat /\ \A k \in 1..Len(q) : q[k] \in Nat
    OBVIOUS
  <2>5. Len(s) = Len(q) - f + 1 /\ \A k \in 1..Len(s) : s[k] = q[f + k - 1]
    BY <2>2, <2>4
  <2>. HIDE DEF s
  <2>6. \A k \in 1..Len(s) : f + k - 1 \in 1..Len(q) /\ (k > 1 => f < f + k - 1)
    BY <2>2, <2>4, <2>5
  <2>7. Len(s) <= MaxInflight
    BY <2>2, <2>4, <2>5, MaxInflightAssumption DEF WindowIn
  <2>8. \A k \in 1..Len(s) : new < s[k] /\ s[k] < hi
    <3>. TAKE k \in 1..Len(s)
    <3>1. lo < s[k] /\ s[k] < hi /\ s[k] \in Nat
      BY <2>4, <2>5, <2>6 DEF WindowIn
    <3>2. to < s[k]
      <4>1. CASE k = 1
        BY <2>2, <2>5, <4>1
      <4>2. CASE k # 1
        <5>1. PICK g \in 1..Len(q) : g = f + k - 1 /\ f < g
          BY <2>6, <4>2
        <5>2. q[f] < q[g] /\ s[k] = q[g]
          BY <2>2, <2>5, <5>1 DEF WindowIn
        <5>. QED
          BY <2>2, <2>4, <5>2
      <4>. QED
        BY <4>1, <4>2
    <3>. QED
      BY <3>1, <3>2
  <2>9. \A k, l \in 1..Len(s) : l < k => s[l] < s[k]
    <3>. SUFFICES ASSUME NEW k \in 1..Len(s), NEW l \in 1..Len(s), l < k PROVE s[l] < s[k]
      OBVIOUS
    <3>1. f + l - 1 < f + k - 1
      BY <2>2, <2>4
    <3>. QED
      BY <2>5, <2>6, <3>1 DEF WindowIn
  <2>. QED
    BY <2>3, <2>7, <2>8, <2>9 DEF WindowIn, s
<1>. QED
  BY <1>1, <1>2

\* The Become* transitions leave sound bookkeeping behind; BecomeProbe also
\* where Next or the window were not.
LEMMA SoundTransitions ==
    ASSUME NEW pr \in ProgressType, NEW last \in Nat, NEW n \in Nat, NEW paused \in BOOLEAN,
           pr.Match <= last, pr.PendingSnapshot <= last
    PROVE  /\ ProgressSound(BecomeProbe(pr), last)
           /\ ProgressSound([BecomeProbe(pr) EXCEPT !.MsgAppFlowPaused = paused], last)
           /\ ProgressSound(BecomeReplicate(pr), last)
           /\ n <= last /\ pr.Match <= n => ProgressSound(BecomeSnapshot(pr, n), last)
<1>1. pr.Match \in Nat /\ pr.PendingSnapshot \in Nat
  BY DEF ProgressType
<1>2. BecomeProbe(pr).Match = pr.Match /\ BecomeProbe(pr).PendingSnapshot = 0
      /\ BecomeProbe(pr).State = "StateProbe" /\ BecomeProbe(pr).Inflights = << >>
      /\ BecomeProbe(pr).Next \in {pr.Match + 1, Greatest(pr.Match + 1, pr.PendingSnapshot + 1)}
  BY DEF BecomeProbe, ResetState, ProgressType
<1>3. ProgressSound(BecomeProbe(pr), last)
  BY <1>1, <1>2, WindowFacts DEF ProgressSound, Greatest
<1>4. [BecomeProbe(pr) EXCEPT !.MsgAppFlowPaused = paused].Match = pr.Match
      /\ [BecomeProbe(pr) EXCEPT !.MsgAppFlowPaused = paused].PendingSnapshot = 0
      /\ [BecomeProbe(pr) EXCEPT !.MsgAppFlowPaused = paused].State = "StateProbe"
      /\ [BecomeProbe(pr) EXCEPT !.MsgAppFlowPaused = paused].Inflights = << >>
      /\ [BecomeProbe(pr) EXCEPT !.MsgAppFlowPaused = paused].Next = BecomeProbe(pr).Next
  BY DEF BecomeProbe, ResetState, ProgressType
<1>5. ProgressSound([BecomeProbe(pr) EXCEPT !.MsgAppFlowPaused = paused], last)
  BY <1>1, <1>2, <1>4, WindowFacts DEF ProgressSound, Greatest
<1>6. BecomeReplicate(pr).Match = pr.Match /\ BecomeReplicate(pr).PendingSnapshot = 0
      /\ BecomeReplicate(pr).Inflights = << >> /\ BecomeReplicate(pr).Next = pr.Match + 1
  BY DEF BecomeReplicate, ResetState, ProgressType
<1>7. ProgressSound(BecomeReplicate(pr), last)
  BY <1>1, <1>6, WindowFacts DEF ProgressSound
<1>8. BecomeSnapshot(pr, n).Match = pr.Match /\ BecomeSnapshot(pr, n).PendingSnapshot = n
      /\ BecomeSnapshot(pr, n).Inflights = << >> /\ BecomeSnapshot(pr, n).Next = n + 1
  BY DEF BecomeSnapshot, ResetState, ProgressType
<1>9. n <= last /\ pr.Match <= n => ProgressSound(BecomeSnapshot(pr, n), last)
  BY <1>1, <1>8, WindowFacts DEF ProgressSound
<1>. QED
  BY <1>3, <1>5, <1>7, <1>9

\* An ack of something in the log.
LEMMA AckedSound ==
    ASSUME NEW pr \in ProgressType, NEW last \in Nat, NEW index \in Nat, NEW first \in Nat,
           ProgressSound(pr, last), index <= last
    PROVE  ProgressSound(Acked(pr, index, first), last)
<1>. DEFINE up == MaybeUpdate(pr, index)
<1>1. up \in ProgressType
  BY ProgressTransitions
<1>2. /\ pr.Match \in Nat /\ pr.Next \in Nat /\ pr.PendingSnapshot \in Nat
      /\ pr.Inflights \in Seq(Nat)
  BY DEF ProgressType
<1>3. /\ up.PendingSnapshot = pr.PendingSnapshot /\ up.State = pr.State
      /\ up.Inflights = pr.Inflights
      /\ up.Match = IF index > pr.Match THEN index ELSE pr.Match
      /\ up.Next = IF index > pr.Match THEN Greatest(pr.Next, index + 1) ELSE pr.Next
  BY DEF MaybeUpdate, IsNews, ProgressType
<1>4. up.Match < up.Next /\ up.Next <= last + 1 /\ up.Match <= last
      /\ up.Match \in Nat /\ up.Next \in Nat /\ pr.Next <= up.Next
  BY <1>2, <1>3 DEF ProgressSound, Greatest
<1>5. up.PendingSnapshot <= last
  BY <1>3 DEF ProgressSound
<1>6. ProgressSound(BecomeReplicate(up), last)
  <2>. HIDE DEF up
  <2>. QED
    BY <1>1, <1>4, <1>5, SoundTransitions
<1>7. ProgressSound(BecomeReplicate(BecomeProbe(up)), last)
  <2>. HIDE DEF up
  <2>1. BecomeProbe(up) \in ProgressType
    BY <1>1, ProgressTransitions, 0 \in Nat
  <2>2. ProgressSound(BecomeProbe(up), last)
    BY <1>1, <1>4, <1>5, SoundTransitions
  <2>3. BecomeProbe(up).Match <= last /\ BecomeProbe(up).PendingSnapshot <= last
    <3>1. BecomeProbe(up).Match \in Nat /\ BecomeProbe(up).Next \in Nat
      BY <2>1 DEF ProgressType
    <3>. QED
      BY <2>2, <3>1 DEF ProgressSound
  <2>. QED
    BY <2>1, <2>3, SoundTransitions
<1>8. ASSUME up.State = "StateReplicate"
      PROVE  ProgressSound([up EXCEPT !.Inflights = FreeLE(@, index)], last)
  <2>. DEFINE fr == [up EXCEPT !.Inflights = FreeLE(@, index)]
  <2>1. WindowIn(pr.Inflights, pr.Match, up.Next)
    BY <1>2, <1>4, WindowFacts DEF ProgressSound
  <2>2. WindowIn(FreeLE(pr.Inflights, index), up.Match, up.Next)
    <3>1. up.Match = index \/ up.Match = pr.Match
      BY <1>3
    <3>. HIDE DEF up
    <3>. QED
      BY <1>2, <1>4, <2>1, <3>1, FreeLEWindow, Zenon
  <2>3. fr.Inflights = FreeLE(pr.Inflights, index) /\ fr.Match = up.Match /\ fr.Next = up.Next
        /\ fr.State = up.State /\ fr.PendingSnapshot = up.PendingSnapshot
    <3>. HIDE DEF up
    <3>. QED
      BY <1>1, <1>3 DEF ProgressType
  <2>. HIDE DEF fr, up
  <2>4. ProgressSound(fr, last)
    BY <1>4, <1>5, <1>8, <2>2, <2>3 DEF ProgressSound
  <2>. QED
    BY <2>4 DEF fr
<1>9. ASSUME up.State # "StateReplicate" PROVE ProgressSound(up, last)
  BY <1>3, <1>4, <1>5, <1>9, WindowFacts DEF ProgressSound
<1>. QED
  BY <1>6, <1>7, <1>8, <1>9 DEF Acked

\* A rejection, as HandleAppendReject takes it.
LEMMA RejectSound ==
    ASSUME NEW pr \in ProgressType, NEW last \in Nat, NEW index \in Nat, NEW hint \in Nat,
           ProgressSound(pr, last)
    PROVE  /\ pr.State = "StateReplicate" =>
                ProgressSound(BecomeProbe(MaybeDecrTo(pr, index, hint)), last)
           /\ pr.State # "StateReplicate" => ProgressSound(MaybeDecrTo(pr, index, hint), last)
<1>. DEFINE d == MaybeDecrTo(pr, index, hint)
<1>1. d \in ProgressType
  BY ProgressTransitions
<1>2. /\ pr.Match \in Nat /\ pr.Next \in Nat /\ pr.PendingSnapshot \in Nat
      /\ pr.Inflights \in Seq(Nat)
  BY DEF ProgressType
<1>3. /\ d.Match = pr.Match /\ d.PendingSnapshot = pr.PendingSnapshot
      /\ d.State = pr.State /\ d.Inflights = pr.Inflights
  BY DEF MaybeDecrTo, ProgressType
<1>4. pr.State # "StateReplicate" =>
        \/ d.Next = pr.Next
        \/ index = pr.Next - 1 /\ d.Next = Greatest(Least(index, hint + 1), pr.Match + 1)
  BY DEF MaybeDecrTo, IsGenuine, ProgressType
<1>5. pr.State = "StateReplicate" => ProgressSound(BecomeProbe(d), last)
  <2>1. d.Match <= last /\ d.PendingSnapshot <= last
    BY <1>2, <1>3 DEF ProgressSound
  <2>. HIDE DEF d
  <2>. QED
    BY <1>1, <2>1, SoundTransitions
<1>6. pr.State # "StateReplicate" => ProgressSound(d, last)
  <2>. HIDE DEF d
  <2>1. pr.State # "StateReplicate" => d.Match < d.Next /\ d.Next <= last + 1
    BY <1>2, <1>3, <1>4 DEF ProgressSound, Greatest, Least
  <2>. QED
    BY <1>3, <2>1, WindowFacts DEF ProgressSound
<1>. QED
  BY <1>5, <1>6
\* A batch of messages of MaxEntsPerMsg entries each, the last one excepted,
\* ends at rising indexes.
LEMMA BatchEnds ==
    ASSUME NEW prev \in Nat, NEW last \in Nat, NEW M \in Nat \ {0}, prev <= last,
           NEW n \in Nat, n <= ((last - prev) + M - 1) \div M
    PROVE  /\ \A k \in 1..n : prev < Least(prev + k * M, last)
           /\ \A k, l \in 1..n : l < k => Least(prev + l * M, last) < Least(prev + k * M, last)
<1>. DEFINE left == last - prev
            q == (left + M - 1) \div M
<1>1. left \in Nat
  OBVIOUS
<1>2. q \in Nat /\ q * M <= left + M - 1
  <2>. HIDE DEF left
  <2>. QED
    BY <1>1
<1>3. ASSUME NEW a \in Nat, NEW b \in Nat, a <= b PROVE a * M <= b * M
  <2>1. PICK c \in Nat : b = a + c
    BY <1>3
  <2>2. (a + c) * M = a * M + c * M /\ c * M \in Nat /\ a * M \in Nat
    OBVIOUS
  <2>. QED
    BY <2>1, <2>2
<1>. HIDE DEF q
<1>4. \A k \in Nat : k + 1 <= q => k * M < left
  <2>. TAKE k \in Nat
  <2>. HAVE k + 1 <= q
  <2>1. (k + 1) * M <= q * M
    BY <1>2, <1>3
  <2>2. (k + 1) * M = k * M + M
    OBVIOUS
  <2>3. k * M \in Nat /\ q * M \in Nat
    BY <1>2
  <2>. QED
    BY <1>1, <1>2, <2>1, <2>2, <2>3
<1>5. n <= q
  BY DEF q
<1>6. \A k \in 1..n : prev < Least(prev + k * M, last)
  <2>. TAKE k \in 1..n
  <2>1. k * M >= M /\ k * M \in Nat
    <3>1. 1 * M <= k * M
      BY <1>3
    <3>. QED
      BY <3>1
  <2>2. 0 * M < left
    BY <1>2, <1>4, <1>5
  <2>3. prev < last
    BY <2>2
  <2>. QED
    BY <2>1, <2>3 DEF Least
<1>7. ASSUME NEW k \in 1..n, NEW l \in 1..n, l < k
      PROVE  Least(prev + l * M, last) < Least(prev + k * M, last)
  <2>1. l * M < left
    BY <1>2, <1>4, <1>5, <1>7
  <2>2. (l + 1) * M <= k * M /\ (l + 1) * M = l * M + M
    BY <1>3, <1>7
  <2>3. l * M \in Nat /\ k * M \in Nat
    OBVIOUS
  <2>. QED
    BY <2>1, <2>2, <2>3 DEF Least
<1>. QED
  BY <1>6, <1>7

\* Reading from two sequences put together.
LEMMA ConcatReads ==
    ASSUME NEW S, NEW s \in Seq(S), NEW t \in Seq(S)
    PROVE  /\ Len(s) \in Nat /\ Len(t) \in Nat /\ Len(s \o t) = Len(s) + Len(t)
           /\ \A k \in 1..Len(s) : (s \o t)[k] = s[k] /\ s[k] \in S
           /\ \A k \in 1..Len(s \o t) : k > Len(s) =>
                /\ (s \o t)[k] = t[k - Len(s)]
                /\ k - Len(s) \in 1..Len(t) /\ t[k - Len(s)] \in S
<1>1. Len(s) \in Nat /\ Len(t) \in Nat /\ Len(s \o t) = Len(s) + Len(t)
  OBVIOUS
<1>2. \A k \in 1..Len(s) : (s \o t)[k] = s[k] /\ s[k] \in S
  BY <1>1
<1>3. ASSUME NEW k \in 1..Len(s \o t), k > Len(s)
      PROVE  (s \o t)[k] = t[k - Len(s)] /\ k - Len(s) \in 1..Len(t) /\ t[k - Len(s)] \in S
  <2>1. k - Len(s) \in 1..Len(t)
    BY <1>1, <1>3
  <2>. QED
    BY <1>1, <1>3, <2>1
<1>. QED
  BY <1>1, <1>2, <1>3

\* Sending entries extends the window, within its limit.
LEMMA SentEntriesSound ==
    ASSUME NEW pr \in ProgressType, NEW last \in Nat, ProgressSound(pr, last),
           NEW n \in Nat, NEW ends \in Seq(Nat), NEW commit \in Nat, pr.Next + n <= last + 1,
           pr.State = "StateReplicate" => Len(pr.Inflights) + Len(ends) <= MaxInflight,
           \A k \in 1..Len(ends) : pr.Next <= ends[k] /\ ends[k] < pr.Next + n,
           \A k, l \in 1..Len(ends) : l < k => ends[l] < ends[k]
    PROVE  ProgressSound(SentCommit(SentEntries(pr, n, ends), commit), last)
<1>. DEFINE s == SentCommit(SentEntries(pr, n, ends), commit)
            q == pr.Inflights
            w == q \o ends
<1>1. pr.Match \in Nat /\ pr.Next \in Nat /\ q \in Seq(Nat)
  BY DEF ProgressType
<1>2. CASE pr.State # "StateReplicate"
  <2>1. s.Match = pr.Match /\ s.Next = pr.Next /\ s.PendingSnapshot = pr.PendingSnapshot
        /\ s.State = pr.State /\ s.Inflights = pr.Inflights
    BY <1>2 DEF SentCommit, SentEntries, ProgressType
  <2>. QED
    BY <2>1 DEF ProgressSound
<1>3. CASE pr.State = "StateReplicate"
  <2>1. s.Match = pr.Match /\ s.Next = pr.Next + n /\ s.PendingSnapshot = pr.PendingSnapshot
        /\ s.State = pr.State /\ s.Inflights = w
    BY <1>3 DEF SentCommit, SentEntries, ProgressType
  <2>. HIDE DEF q
  <2>2. Len(q) \in Nat /\ Len(ends) \in Nat /\ Len(w) = Len(q) + Len(ends)
        /\ (\A k \in 1..Len(q) : w[k] = q[k] /\ q[k] \in Nat)
        /\ \A k \in 1..Len(w) : k > Len(q) =>
              w[k] = ends[k - Len(q)] /\ k - Len(q) \in 1..Len(ends) /\ ends[k - Len(q)] \in Nat
    BY <1>1, ConcatReads, SMTT(30)
  <2>. HIDE DEF w, q, s
  <2>3. WindowIn(q, pr.Match, pr.Next)
    BY DEF ProgressSound, q
  <2>4. Len(w) <= MaxInflight
    BY <1>3, <2>2 DEF q
  <2>5. ASSUME NEW k \in 1..Len(w) PROVE pr.Match < w[k] /\ w[k] < pr.Next + n
    <3>1. CASE k <= Len(q)
      <4>1. k \in 1..Len(q) /\ w[k] = q[k] /\ q[k] \in Nat
        BY <2>2, <3>1
      <4>2. pr.Match < q[k] /\ q[k] < pr.Next
        BY <2>3, <4>1 DEF WindowIn
      <4>. QED
        BY <1>1, <4>1, <4>2
    <3>2. CASE k > Len(q)
      <4>1. w[k] = ends[k - Len(q)] /\ k - Len(q) \in 1..Len(ends) /\ ends[k - Len(q)] \in Nat
        BY <2>2, <3>2
      <4>2. pr.Next <= w[k] /\ w[k] < pr.Next + n /\ pr.Match < pr.Next
        BY <4>1 DEF ProgressSound
      <4>. QED
        BY <1>1, <4>1, <4>2
    <3>. QED
      BY <2>2, <3>1, <3>2
  <2>6. ASSUME NEW k \in 1..Len(w), NEW l \in 1..Len(w), l < k PROVE w[l] < w[k]
    <3>1. CASE k <= Len(q)
      <4>1. k \in 1..Len(q) /\ l \in 1..Len(q) /\ w[k] = q[k] /\ w[l] = q[l]
        BY <2>2, <2>6, <3>1
      <4>. QED
        BY <2>3, <2>6, <4>1 DEF WindowIn
    <3>2. CASE k > Len(q) /\ l > Len(q)
      <4>1. /\ w[k] = ends[k - Len(q)] /\ k - Len(q) \in 1..Len(ends)
            /\ w[l] = ends[l - Len(q)] /\ l - Len(q) \in 1..Len(ends)
            /\ l - Len(q) < k - Len(q)
        BY <2>2, <2>6, <3>2
      <4>. QED
        BY <4>1
    <3>3. CASE k > Len(q) /\ l <= Len(q)
      <4>1. l \in 1..Len(q) /\ w[l] = q[l] /\ q[l] \in Nat
        BY <2>2, <3>3
      <4>2. q[l] < pr.Next
        BY <2>3, <4>1 DEF WindowIn
      <4>3. w[k] = ends[k - Len(q)] /\ k - Len(q) \in 1..Len(ends) /\ ends[k - Len(q)] \in Nat
        BY <2>2, <3>3
      <4>4. pr.Next <= w[k] /\ w[k] \in Nat
        BY <4>3
      <4>5. w[l] < pr.Next /\ w[l] \in Nat
        BY <4>1, <4>2
      <4>. QED
        BY <1>1, <4>4, <4>5
    <3>. QED
      BY <2>2, <3>1, <3>2, <3>3
  <2>7. WindowIn(w, pr.Match, pr.Next + n)
    BY <2>4, <2>5, <2>6 DEF WindowIn
  <2>. QED
    BY <1>1, <1>3, <2>1, <2>7 DEF ProgressSound, s
<1>. QED
  BY <1>2, <1>3

\* maybeSendAppend, with a snapshot that reaches up to the first index.
LEMMA SendSound ==
    ASSUME TypeOK, NEW i \in Server, NEW to \in Server, NEW pr \in ProgressType,
           NEW lg \in LogType, NEW atMost \in Nat, NEW sendIfEmpty,
           ProgressSound(pr, lastIndex(lg)),
           Len(disk[i].snapshot) <= lastIndex(lg), lg.first <= Len(disk[i].snapshot) + 1
    PROVE  ProgressSound(maybeSendAppend(i, to, pr, lg, atMost, sendIfEmpty).pr, lastIndex(lg))
<1>. DEFINE prev == pr.Next - 1
            last == lastIndex(lg)
            left == IF pr.Next > last THEN 0 ELSE last - prev
            room == IF pr.State = "StateReplicate"
                    THEN MaxInflight - Len(pr.Inflights) ELSE 1
            most == (left + MaxEntsPerMsg - 1) \div MaxEntsPerMsg
            n == Least(atMost, Least(room, most))
            End(k) == Least(prev + k * MaxEntsPerMsg, last)
            Sent(count, ends) == SentCommit(SentEntries(pr, count, ends), lg.committed)
            snap == Len(disk[i].snapshot)
            res == maybeSendAppend(i, to, pr, lg, atMost, sendIfEmpty).pr
<1>1. snap \in Nat
  <2>1. disk[i].snapshot \in Seq(Entry)
    BY DEF TypeOK, DiskType
  <2>. QED
    BY <2>1
<1>2. /\ prev \in Nat /\ pr.Next = prev + 1 /\ Len(pr.Inflights) \in Nat
      /\ pr.Match \in Nat /\ pr.PendingSnapshot \in Nat
  BY DEF ProgressType
<1>3. last \in Nat /\ lg.committed \in Nat /\ lg.first \in Nat
  BY LogReads DEF LogType
<1>4. pr.Match <= prev /\ prev <= last /\ pr.PendingSnapshot <= last
  BY <1>2, <1>3 DEF ProgressSound
<1>5. \/ res = pr
      \/ ~HasTerm(lg, prev) /\ res = BecomeSnapshot(pr, snap)
      \/ n > 0 /\ res = Sent(End(n) - prev, [k \in 1..n |-> End(k)])
      \/ res = Sent(0, << >>)
  BY DEF maybeSendAppend, maybeSendSnapshot, NothingSent
<1>6. ASSUME ~HasTerm(lg, prev) PROVE ProgressSound(BecomeSnapshot(pr, snap), last)
  <2>1. pr.Match <= snap
    BY <1>1, <1>2, <1>3, <1>4, <1>6 DEF HasTerm
  <2>2. snap <= last /\ pr.Match <= last /\ TRUE \in BOOLEAN
    BY <1>2, <1>3, <1>4
  <2>. HIDE DEF snap, last
  <2>. QED
    BY <1>1, <1>3, <1>4, <2>1, <2>2, SoundTransitions
<1>7. ASSUME n > 0 PROVE ProgressSound(Sent(End(n) - prev, [k \in 1..n |-> End(k)]), last)
  <2>1. MaxEntsPerMsg \in Nat \ {0}
    BY OptionAssumption
  <2>2. left \in Nat /\ left = last - prev
    BY <1>2, <1>3, <1>4
  <2>3. most \in Int
    <3>. HIDE DEF left
    <3>. QED
      BY <2>1, <2>2
  <2>4. n \in Nat /\ n <= most /\ n <= room
    <3>. HIDE DEF most
    <3>. QED
      BY <1>2, <1>7, <2>3, MaxInflightAssumption DEF Least
  <2>5. n <= ((last - prev) + MaxEntsPerMsg - 1) \div MaxEntsPerMsg
    BY <2>2, <2>4
  <2>. HIDE DEF n, most, left, prev, last
  <2>6. /\ \A k \in 1..n : prev < End(k)
        /\ \A k, l \in 1..n : l < k => End(l) < End(k)
    BY <1>2, <1>3, <1>4, <2>1, <2>4, <2>5, BatchEnds
  <2>7. \A k \in 1..n : End(k) \in Nat /\ End(k) <= last
    <3>. TAKE k \in 1..n
    <3>1. k * MaxEntsPerMsg \in Nat
      BY <2>1, <2>4
    <3>. QED
      BY <1>2, <1>3, <3>1 DEF Least
  <2>. HIDE DEF End
  <2>. DEFINE ends == [k \in 1..n |-> End(k)]
              count == End(n) - prev
  <2>8. n \in 1..n
    BY <1>7, <2>4
  <2>9. count \in Nat /\ pr.Next + count = End(n) + 1 /\ End(n) <= last
    <3>1. End(n) \in Nat /\ End(n) <= last /\ prev < End(n)
      BY <2>6, <2>7, <2>8
    <3>. QED
      BY <1>2, <1>3, <3>1, SMTT(30)
  <2>10. ends \in Seq(Nat) /\ Len(ends) = n
    BY <2>4, <2>7
  <2>11. \A k \in 1..n : ends[k] = End(k)
    OBVIOUS
  <2>. HIDE DEF ends, count
  <2>12. \A k \in 1..Len(ends) : pr.Next <= ends[k] /\ ends[k] < pr.Next + count
    <3>. SUFFICES ASSUME NEW k \in 1..n PROVE pr.Next <= End(k) /\ End(k) < End(n) + 1
      BY <2>9, <2>10, <2>11
    <3>1. k = n \/ End(k) < End(n)
      <4>1. k = n \/ k < n
        BY <2>4
      <4>. QED
        BY <2>6, <2>8, <4>1
    <3>. QED
      BY <1>2, <2>6, <2>7, <2>8, <3>1
  <2>13. \A k, l \in 1..Len(ends) : l < k => ends[l] < ends[k]
    BY <2>6, <2>10, <2>11
  <2>14. pr.State = "StateReplicate" => Len(pr.Inflights) + Len(ends) <= MaxInflight
    BY <1>2, <2>4, <2>10, MaxInflightAssumption
  <2>15. pr.Next + count <= last + 1
    BY <1>3, <2>7, <2>8, <2>9
  <2>. QED
    BY <1>3, <2>9, <2>10, <2>12, <2>13, <2>14, <2>15, SentEntriesSound DEF last, ends, count
<1>8. ProgressSound(Sent(0, << >>), last)
  <2>1. << >> \in Seq(Nat) /\ Len(<< >>) = 0 /\ 0 \in Nat
    OBVIOUS
  <2>2. pr.Next + 0 <= last + 1
    BY <1>2, <1>3, <1>4
  <2>3. pr.State = "StateReplicate" => Len(pr.Inflights) + 0 <= MaxInflight
    BY <1>2 DEF ProgressSound, WindowIn
  <2>. HIDE DEF last
  <2>4. \A k \in 1..0 : FALSE
    OBVIOUS
  <2>. QED
    BY <1>3, <2>1, <2>2, <2>3, <2>4, SentEntriesSound DEF last
<1>. QED
  BY <1>5, <1>6, <1>7, <1>8

\* A round of sends.
LEMMA RoundSound ==
    ASSUME TypeOK, NEW i \in Server, NEW prs \in [Server -> ProgressType],
           NEW lg \in LogType, NEW targets, NEW atMost \in Nat, NEW sendIfEmpty,
           \A j \in Server : ProgressSound(prs[j], lastIndex(lg)),
           Len(disk[i].snapshot) <= lastIndex(lg), lg.first <= Len(disk[i].snapshot) + 1
    PROVE  \A j \in Server :
             ProgressSound(ProgressOf(SendAppends(i, prs, lg, targets, atMost, sendIfEmpty))[j],
                           lastIndex(lg))
<1>. TAKE j \in Server
<1>1. prs[j] \in ProgressType
  OBVIOUS
<1>2. ProgressSound(maybeSendAppend(i, j, prs[j], lg, atMost, sendIfEmpty).pr, lastIndex(lg))
  BY <1>1, SendSound
<1>3. NothingSent(prs[j]).pr = prs[j]
  BY DEF NothingSent
<1>. QED
  BY <1>2, <1>3 DEF ProgressOf, SendAppends
(***************************************************************************)
(* Snapshots. A server that is no mere follower has no unstable snapshot,  *)
(* so that its log begins where Storage says, at or below the snapshot     *)
(* that Storage holds: what maybeSendSnapshot sends reaches the log. The   *)
(* snapshots on their way to the disk are ahead of what is there.          *)
(***************************************************************************)
SnapshotInv(i) ==
    /\ disk[i].first <= Len(disk[i].snapshot) + 1
    /\ raftLog[i].snap = 0 => raftLog[i].first <= Len(disk[i].snapshot) + 1
    /\ raft[i].state # "StateFollower" => raftLog[i].snap = 0
    /\ \A k \in 1..Len(appendQ[i]) :
        appendQ[i][k].snapshot # << >> => disk[i].committed < Len(appendQ[i][k].snapshot)
    /\ \/ raftLog[i].snap <= Len(disk[i].snapshot)
       \/ \E k \in 1..Len(appendQ[i]) : Len(appendQ[i][k].snapshot) = raftLog[i].snap
       \/ /\ disk[i].committed < raftLog[i].snap
          /\ \A k \in 1..Len(appendQ[i]) : appendQ[i][k].committed < raftLog[i].snap

Tracks(i) ==
    raft[i].state = "StateLeader" =>
        \A j \in Server : ProgressSound(trk[i][j], lastIndex(raftLog[i]))

TrackInv == \A i \in Server : SnapshotInv(i) /\ Tracks(i)

\* Steps that leave the disk and the beginning of the log alone.
LEMMA TrackStep ==
    ASSUME TrackInv, NEW i \in Server, UNCHANGED <<disk, appendQ>>,
           \A x \in Server : x # i =>
                raft'[x] = raft[x] /\ raftLog'[x] = raftLog[x] /\ trk'[x] = trk[x],
           raftLog'[i].snap = raftLog[i].snap, raftLog'[i].first = raftLog[i].first,
           \/ raft'[i].state = "StateFollower" \/ raft[i].state # "StateFollower"
           \/ raftLog[i].snap = 0,
           raft'[i].state = "StateLeader" =>
                \A j \in Server : ProgressSound(trk'[i][j], lastIndex(raftLog'[i]))
    PROVE  TrackInv'
<1>. SUFFICES ASSUME NEW x \in Server PROVE SnapshotInv(x)' /\ Tracks(x)'
  BY DEF TrackInv
<1>1. SnapshotInv(x) /\ Tracks(x)
  BY DEF TrackInv
<1>2. CASE x # i
  BY <1>1, <1>2 DEF SnapshotInv, Tracks
<1>3. CASE x = i
  BY <1>1, <1>3 DEF SnapshotInv, Tracks
<1>. QED
  BY <1>2, <1>3

\* Steps that move no log: who leads goes on with what it knows.
LEMMA TrackQuiet ==
    ASSUME TrackInv, UNCHANGED <<raftLog, disk, appendQ>>,
           \A x \in Server :
             \/ raft'[x].state = "StateFollower"
             \/ raft'[x].state = raft[x].state /\ trk'[x] = trk[x]
             \/ raft'[x].state # "StateLeader" /\ raftLog[x].snap = 0
    PROVE  TrackInv'
<1>. SUFFICES ASSUME NEW x \in Server PROVE SnapshotInv(x)' /\ Tracks(x)'
  BY DEF TrackInv
<1>1. SnapshotInv(x) /\ Tracks(x)
  BY DEF TrackInv
<1>. QED
  BY <1>1 DEF SnapshotInv, Tracks

\* A leader's snapshot lies within its log and reaches up to its beginning.
LEMMA LeaderSnapshot ==
    ASSUME IndType, RangeInv, CommitInRange, TrackInv, NEW i \in Server,
           raft[i].state # "StateFollower"
    PROVE  /\ Len(disk[i].snapshot) <= lastIndex(raftLog[i])
           /\ raftLog[i].first <= Len(disk[i].snapshot) + 1
<1>1. lastIndex(raftLog[i]) \in Nat
  BY LogTypes, LogReads
<1>2. /\ Len(disk[i].snapshot) <= disk[i].committed
      /\ disk[i].committed <= raftLog[i].committed
      /\ raftLog[i].committed <= lastIndex(raftLog[i])
  BY DEF RangeInv, CommitInRange
<1>3. Len(disk[i].snapshot) <= lastIndex(raftLog[i])
  BY <1>1, <1>2, LogTypes
<1>. QED
  BY <1>3 DEF TrackInv, SnapshotInv

\* What is acknowledged to a leader in its term is in its log.
LEMMA AckInLog ==
    ASSUME IndType, ElectionInv, LeadInv, LogInv, NEW i \in Server, Leads(i),
           NEW m \in net, Ack(m), m.term = raft[i].Term
    PROVE  m.index <= lastIndex(raftLog[i])
<1>1. PICK LL \in LeaderLogs : Valid(LL)
  BY LogHistory
<1>2. m \in Message /\ m.type = "MsgAppResp"
  BY DEF IndType, TypeOK, Ack
<1>3. m.from \in Server
  BY <1>2, LeaderFields
<1>4. m \in Acks(net, m.from)
  BY DEF Acks
<1>5. m.index <= Len(LL[m.term])
  BY <1>1, <1>3, <1>4 DEF Valid, Facts, AcksKept, Kept
<1>6. raftLog[i].ents = LL[raft[i].Term]
  BY <1>1 DEF Valid, LeadersOf, Leads
<1>. QED
  BY <1>5, <1>6 DEF lastIndex
-----------------------------------------------------------------------------
(* The steps.                                                              *)

\* Campaigns begin without an unstable snapshot.
LEMMA TrackCampaign ==
    ASSUME IndType, TrackInv, NEW i \in Server, NEW r, NEW pre \in BOOLEAN, NEW transfer,
           r = raft[i] \/ \E t : r = becomeFollower(raft[i], t, None),
           raftLog[i].snap = 0, campaign(i, r, pre, transfer), UNCHANGED <<raftLog, disk, appendQ>>
    PROVE  TrackInv'
<1>. DEFINE c == IF pre THEN becomePreCandidate(r) ELSE becomeCandidate(r, i)
<1>1. raft[i] \in RaftType /\ raft \in [Server -> RaftType] /\ trk \in [Server -> [Server -> ProgressType]]
  BY DEF IndType, TypeOK
<1>2. c.state \in {"StatePreCandidate", "StateCandidate"}
  BY <1>1 DEF becomePreCandidate, becomeCandidate, becomeFollower, reset, RaftType
<1>3. raft' = [raft EXCEPT ![i] = c]
      /\ trk' \in {trk, [trk EXCEPT ![i] = resetProgress(i, raftLog[i])]}
  BY DEF campaign
<1>. HIDE DEF c
<1>4. raft'[i] = c /\ \A x \in Server : x # i => raft'[x] = raft[x] /\ trk'[x] = trk[x]
  BY <1>1, <1>3
<1>5. \A x \in Server :
        \/ raft'[x].state = raft[x].state /\ trk'[x] = trk[x]
        \/ raft'[x].state # "StateLeader" /\ raftLog[x].snap = 0
  <2>. TAKE x \in Server
  <2>1. CASE x = i
    BY <1>2, <1>4, <2>1
  <2>. QED
    BY <1>4, <2>1
<1>. QED
  BY <1>5, TrackQuiet

\* Votes, polls and terms.
LEMMA TrackElection ==
    ASSUME IndType, TrackInv, NEW i \in Server, NEW m \in net,
           \/ Campaign(i) \/ HandleVote(i, m) \/ PollPending(i, m) \/ PollLost(i, m)
           \/ PollPreVoteWon(i, m) \/ StepDown(i, m) \/ StepLowerTerm(i, m)
           \/ HandleTimeoutNow(i, m)
    PROVE  TrackInv'
<1>1. /\ raft \in [Server -> RaftType] /\ raft[i] \in RaftType
      /\ trk \in [Server -> [Server -> ProgressType]]
  BY DEF IndType, TypeOK
<1>2. CASE Campaign(i)
  <2>1. campaign(i, raft[i], PreVote, FALSE) /\ UNCHANGED <<raftLog, disk, appendQ>>
        /\ raftLog[i].snap = 0
    BY <1>2 DEF Campaign, promotable
  <2>2. PreVote \in BOOLEAN
    BY OptionAssumption
  <2>. QED
    BY <2>1, <2>2, TrackCampaign
<1>3. CASE PollPreVoteWon(i, m)
  <2>1. campaign(i, raft[i], FALSE, FALSE) /\ UNCHANGED <<raftLog, disk, appendQ>>
        /\ raft[i].state = "StatePreCandidate"
    BY <1>3 DEF PollPreVoteWon
  <2>2. raftLog[i].snap = 0
    BY <2>1 DEF TrackInv, SnapshotInv
  <2>. QED
    BY <2>1, <2>2, TrackCampaign
<1>4. ASSUME NEW r, r.state \in {raft[i].state, "StateFollower"},
             NEW through, through \in BOOLEAN, through => r.state = "StateFollower",
             Become(i, r, through), UNCHANGED <<raftLog, disk, appendQ>>
      PROVE  TrackInv'
  <2>1. raft' = [raft EXCEPT ![i] = r]
        /\ trk' = IF through THEN [trk EXCEPT ![i] = resetProgress(i, raftLog[i])] ELSE trk
    BY <1>4 DEF Become
  <2>2. raft'[i] = r /\ (\A x \in Server : x # i => raft'[x] = raft[x] /\ trk'[x] = trk[x])
        /\ (~through => trk' = trk)
    BY <1>1, <2>1
  <2>3. \A x \in Server : \/ raft'[x].state = "StateFollower"
                          \/ raft'[x].state = raft[x].state /\ trk'[x] = trk[x]
    <3>. TAKE x \in Server
    <3>1. CASE x = i
      BY <1>4, <2>2, <3>1
    <3>. QED
      BY <2>2, <3>1
  <2>. QED
    BY <1>4, <2>3, TrackQuiet
<1>5. \A t, l : becomeFollower(raft[i], t, l).state = "StateFollower"
  BY <1>1 DEF becomeFollower, reset, RaftType
<1>6. CASE HandleVote(i, m)
  <2>. DEFINE higher  == m.term > raft[i].Term
              adopt   == higher /\ m.type = "MsgVote"
              r       == IF adopt THEN becomeFollower(raft[i], m.term, None) ELSE raft[i]
              grant   == canVote(r, m) /\ isUpToDate(raftLog[i], m.index, m.logTerm)
              new     == IF grant /\ m.type = "MsgVote"
                         THEN [r EXCEPT !.Vote = m.from, !.timedOut = FALSE] ELSE r
  <2>1. Become(i, new, adopt) /\ UNCHANGED <<raftLog, disk, appendQ>>
    BY <1>6 DEF HandleVote
  <2>2. new.state = r.state
    BY <1>1 DEF becomeFollower, reset, RaftType
  <2>3. r.state \in {raft[i].state, "StateFollower"} /\ (adopt => r.state = "StateFollower")
    BY <1>5
  <2>4. adopt \in BOOLEAN
    OBVIOUS
  <2>. HIDE DEF adopt, new, r
  <2>. QED
    BY <1>4, <2>1, <2>2, <2>3, <2>4
<1>7. CASE PollPending(i, m) \/ StepLowerTerm(i, m)
  <2>1. UNCHANGED <<raft, trk, raftLog, disk, appendQ>>
    BY <1>7 DEF PollPending, StepLowerTerm
  <2>. QED
    BY <2>1, TrackQuiet
<1>8. CASE PollLost(i, m) \/ StepDown(i, m)
  <2>1. PICK t : Become(i, becomeFollower(raft[i], t, None), TRUE)
                 /\ UNCHANGED <<raftLog, disk, appendQ>>
    BY <1>8 DEF PollLost, StepDown
  <2>. DEFINE r == becomeFollower(raft[i], t, None)
              through == TRUE
  <2>2. r.state \in {raft[i].state, "StateFollower"} /\ r.state = "StateFollower"
    BY <1>5
  <2>3. Become(i, r, through) /\ through \in BOOLEAN
    BY <2>1
  <2>. HIDE DEF r, through
  <2>. QED
    BY <1>4, <2>1, <2>2, <2>3
<1>9. CASE HandleTimeoutNow(i, m)
  <2>. DEFINE higher == m.term > raft[i].Term
              r == IF higher THEN becomeFollower(raft[i], m.term, None) ELSE raft[i]
  <2>1. UNCHANGED <<raftLog, disk, appendQ>> /\ r.state = "StateFollower"
        /\ \/ raftLog[i].snap = 0 /\ campaign(i, r, FALSE, TRUE)
           \/ Become(i, r, higher)
    BY <1>9 DEF HandleTimeoutNow, promotable
  <2>2. higher \in BOOLEAN /\ (r = raft[i] \/ \E t : r = becomeFollower(raft[i], t, None))
    OBVIOUS
  <2>. HIDE DEF r, higher
  <2>3. CASE raftLog[i].snap = 0 /\ campaign(i, r, FALSE, TRUE)
    BY <2>1, <2>2, <2>3, TrackCampaign
  <2>4. CASE Become(i, r, higher)
    BY <1>4, <2>1, <2>2, <2>4
  <2>. QED
    BY <2>1, <2>3, <2>4
<1>. QED
  BY <1>2, <1>3, <1>6, <1>7, <1>8, <1>9

\* A leader that changes what it knows of one follower.
LEMMA TrackOne ==
    ASSUME IndType, TrackInv, NEW i \in Server, NEW j \in Server, NEW pr,
           Leads(i), trk' = [trk EXCEPT ![i][j] = pr],
           ProgressSound(pr, lastIndex(raftLog[i])),
           \A x \in Server : raft'[x].state = raft[x].state, UNCHANGED <<raftLog, disk, appendQ>>
    PROVE  TrackInv'
<1>1. trk \in [Server -> [Server -> ProgressType]]
  BY DEF IndType, TypeOK
<1>2. /\ \A x \in Server : x # i => trk'[x] = trk[x]
      /\ \A k \in Server : trk'[i][k] = IF k = j THEN pr ELSE trk[i][k]
  BY <1>1
<1>. SUFFICES ASSUME NEW x \in Server PROVE SnapshotInv(x)' /\ Tracks(x)'
  BY DEF TrackInv
<1>3. SnapshotInv(x) /\ Tracks(x)
  BY DEF TrackInv
<1>4. SnapshotInv(x)'
  BY <1>3 DEF SnapshotInv
<1>5. Tracks(x)'
  BY <1>2, <1>3 DEF Tracks
<1>. QED
  BY <1>4, <1>5

\* A leader that changes what it knows of all, and whose log may have grown.
LEMMA TrackAll ==
    ASSUME IndType, TrackInv, NEW i \in Server, NEW prs, NEW lg, Leads(i)',
           raft[i].state # "StateFollower",
           trk' = [trk EXCEPT ![i] = prs], raftLog' \in {raftLog, [raftLog EXCEPT ![i] = lg]},
           raftLog'[i] = lg, lg.snap = raftLog[i].snap, lg.first = raftLog[i].first,
           \A j \in Server : ProgressSound(prs[j], lastIndex(lg)),
           \A x \in Server : x # i => raft'[x].state = raft[x].state, UNCHANGED <<disk, appendQ>>
    PROVE  TrackInv'
<1>1. trk \in [Server -> [Server -> ProgressType]] /\ raftLog \in [Server -> LogType]
  BY DEF IndType, TypeOK
<1>2. /\ \A x \in Server : x # i => trk'[x] = trk[x] /\ raftLog'[x] = raftLog[x]
      /\ trk'[i] = prs
  BY <1>1
<1>. SUFFICES ASSUME NEW x \in Server PROVE SnapshotInv(x)' /\ Tracks(x)'
  BY DEF TrackInv
<1>3. SnapshotInv(x) /\ Tracks(x)
  BY DEF TrackInv
<1>4. CASE x = i
  BY <1>2, <1>3, <1>4 DEF SnapshotInv, Tracks
<1>5. CASE x # i
  BY <1>2, <1>3, <1>5 DEF SnapshotInv, Tracks
<1>. QED
  BY <1>4, <1>5

\* What a leader may go by in all its steps.
LEMMA LeaderGround ==
    ASSUME IndType, RangeInv, CommitInRange, TrackInv, NEW i \in Server, Leads(i)
    PROVE  /\ TypeOK /\ raftLog[i] \in LogType /\ lastIndex(raftLog[i]) \in Nat
           /\ trk[i] \in [Server -> ProgressType] /\ \A j \in Server : trk[i][j] \in ProgressType
           /\ \A j \in Server : ProgressSound(trk[i][j], lastIndex(raftLog[i]))
           /\ Len(disk[i].snapshot) <= lastIndex(raftLog[i])
           /\ raftLog[i].first <= Len(disk[i].snapshot) + 1
<1>1. TypeOK /\ raftLog[i] \in LogType /\ trk[i] \in [Server -> ProgressType]
  BY DEF IndType, TypeOK
<1>2. lastIndex(raftLog[i]) \in Nat
  BY <1>1, LogReads
<1>3. \A j \in Server : ProgressSound(trk[i][j], lastIndex(raftLog[i]))
  BY DEF TrackInv, Tracks, Leads
<1>. QED
  BY <1>1, <1>2, <1>3, LeaderSnapshot DEF Leads

\* The flags of a Progress are no matter of the bookkeeping.
LEMMA FlagsSound ==
    ASSUME NEW pr \in ProgressType, NEW last, ProgressSound(pr, last),
           NEW active, NEW paused, NEW commit
    PROVE  /\ ProgressSound([pr EXCEPT !.RecentActive = active], last)
           /\ ProgressSound([pr EXCEPT !.MsgAppFlowPaused = paused], last)
           /\ ProgressSound(SentCommit(pr, commit), last)
<1>. QED
  BY DEF ProgressSound, ProgressType, SentCommit

\* The answers of a follower: a rejection and a heartbeat response.
LEMMA TrackReplies ==
    ASSUME IndType, RangeInv, CommitInRange, TrackInv, NEW i \in Server, NEW m \in Message,
           HandleAppendReject(i, m) \/ HandleHeartbeatResp(i, m)
    PROVE  TrackInv'
<1>. DEFINE j == m.from
            lg == raftLog[i]
            pr == Active(i, j)
<1>1. j \in Server /\ Leads(i) /\ UNCHANGED <<raft, raftLog, disk, appendQ>>
  BY LeaderFields DEF HandleAppendReject, HandleHeartbeatResp, IsResp
<1>2. /\ TypeOK /\ lg \in LogType /\ lastIndex(lg) \in Nat /\ trk[i][j] \in ProgressType
      /\ ProgressSound(trk[i][j], lastIndex(lg))
      /\ Len(disk[i].snapshot) <= lastIndex(lg) /\ lg.first <= Len(disk[i].snapshot) + 1
  BY <1>1, LeaderGround
<1>3. pr \in ProgressType
  BY <1>1, ActiveType
<1>4. ProgressSound(pr, lastIndex(lg))
  BY <1>2, FlagsSound DEF Active
<1>5. ASSUME NEW new, trk' = [trk EXCEPT ![i][j] = new], ProgressSound(new, lastIndex(lg))
      PROVE  TrackInv'
  BY <1>1, <1>5, TrackOne
<1>6. ASSUME NEW p \in ProgressType, ProgressSound(p, lastIndex(lg))
      PROVE  ProgressSound(maybeSendAppend(i, j, p, lg, 1, TRUE).pr, lastIndex(lg))
  BY <1>1, <1>2, <1>6, SendSound
<1>7. \A p : NothingSent(p).pr = p
  BY DEF NothingSent
<1>8. CASE HandleAppendReject(i, m)
  <2>. DEFINE probe == IF m.logTerm > 0
                       THEN findConflictByTerm(lg, m.rejectHint, m.logTerm)
                       ELSE m.rejectHint
              decr  == MaybeDecrTo(pr, m.index, probe)
              back  == IF pr.State = "StateReplicate" THEN BecomeProbe(decr) ELSE decr
              out   == IF IsGenuine(pr, m.index)
                       THEN maybeSendAppend(i, j, back, lg, 1, TRUE)
                       ELSE NothingSent(pr)
  <2>1. trk' = [trk EXCEPT ![i][j] = out.pr]
    BY <1>8 DEF HandleAppendReject
  <2>2. m.index \in Nat /\ m.rejectHint \in Nat /\ m.logTerm \in Nat
    <3>1. m \in AppRespMsg
      BY <1>8, MessageKinds DEF HandleAppendReject, IsResp
    <3>. QED
      BY <3>1 DEF AppRespMsg
  <2>3. probe \in Nat
    <3>1. findConflictByTerm(lg, m.rejectHint, m.logTerm) \in 0..m.rejectHint
      BY <1>2, <2>2, FindConflictByTermType
    <3>. QED
      BY <2>2, <3>1
  <2>. HIDE DEF probe, pr, lg
  <2>4. decr \in ProgressType /\ BecomeProbe(decr) \in ProgressType
    BY <1>3, <2>2, <2>3, ProgressTransitions
  <2>5. back \in ProgressType /\ ProgressSound(back, lastIndex(lg))
    BY <1>2, <1>3, <1>4, <2>2, <2>3, <2>4, RejectSound
  <2>. HIDE DEF back
  <2>6. ProgressSound(out.pr, lastIndex(lg))
    BY <1>4, <1>6, <1>7, <2>5
  <2>. HIDE DEF out
  <2>. QED
    BY <1>5, <2>1, <2>6
<1>9. CASE HandleHeartbeatResp(i, m)
  <2>. DEFINE p   == [pr EXCEPT !.MsgAppFlowPaused = FALSE]
              out == IF p.Match < lastIndex(lg) \/ p.State = "StateProbe"
                     THEN maybeSendAppend(i, j, p, lg, 1, TRUE)
                     ELSE NothingSent(p)
  <2>1. trk' = [trk EXCEPT ![i][j] = out.pr]
    BY <1>9 DEF HandleHeartbeatResp
  <2>. HIDE DEF pr, lg
  <2>2. p \in ProgressType
    BY <1>3 DEF ProgressType
  <2>3. ProgressSound(p, lastIndex(lg))
    BY <1>3, <1>4, FlagsSound
  <2>. HIDE DEF p
  <2>4. ProgressSound(out.pr, lastIndex(lg))
    BY <1>6, <1>7, <2>2, <2>3
  <2>. HIDE DEF out
  <2>. QED
    BY <1>5, <2>1, <2>4
<1>. QED
  BY <1>8, <1>9

\* An acknowledgement.
LEMMA TrackAck ==
    ASSUME IndType, ElectionInv, LeadInv, LogInv, CommitInRange, TrackInv,
           NEW i \in Server, NEW m \in net, HandleAppendAck(i, m)
    PROVE  TrackInv'
<1>. DEFINE j     == m.from
            pr    == Active(i, j)
            prs   == [trk[i] EXCEPT ![j] = Acked(pr, m.index, raftLog[i].first)]
            lg    == maybeCommit(raftLog[i], raft[i].Term, prs)
            first == IF lg.committed > raftLog[i].committed THEN Server \ {i}
                     ELSE IF CanBumpCommit(prs[j], lg.committed) THEN {j} \ {i}
                     ELSE {}
            out   == SendAppends(i, prs, lg, first, 1, TRUE)
            more  == SendAppends(i, ProgressOf(out), lg, {j} \ {i}, MaxInflight, FALSE)
<1>1. m \in Message /\ m.type = "MsgAppResp" /\ m.term = raft[i].Term /\ ~m.reject /\ Leads(i)
      /\ UNCHANGED <<raft, disk, appendQ>>
  BY DEF HandleAppendAck, IsResp, IndType, TypeOK
<1>2. j \in Server /\ m.index \in Nat /\ RangeInv /\ raft[i].Term \in Nat
  BY <1>1, LeaderFields, LogTypes DEF LogInv
<1>3. m.index <= lastIndex(raftLog[i])
  BY <1>1, AckInLog DEF Ack
<1>4. /\ TypeOK /\ raftLog[i] \in LogType /\ lastIndex(raftLog[i]) \in Nat
      /\ trk[i] \in [Server -> ProgressType] /\ trk[i][j] \in ProgressType
      /\ \A k \in Server : ProgressSound(trk[i][k], lastIndex(raftLog[i]))
      /\ Len(disk[i].snapshot) <= lastIndex(raftLog[i])
      /\ raftLog[i].first <= Len(disk[i].snapshot) + 1
  BY <1>1, <1>2, LeaderGround
<1>5. pr \in ProgressType
  BY <1>2, ActiveType
<1>6. ProgressSound(pr, lastIndex(raftLog[i]))
  BY <1>2, <1>4, FlagsSound DEF Active
<1>7. \/ /\ trk' = [trk EXCEPT ![i] = ProgressOf(more)]
         /\ raftLog' = [raftLog EXCEPT ![i] = lg]
      \/ trk' = [trk EXCEPT ![i][j] = pr] /\ UNCHANGED raftLog
  BY DEF HandleAppendAck
<1>. HIDE DEF pr
<1>8. CASE trk' = [trk EXCEPT ![i][j] = pr] /\ UNCHANGED raftLog
  BY <1>1, <1>2, <1>6, <1>8, TrackOne
<1>9. CASE /\ trk' = [trk EXCEPT ![i] = ProgressOf(more)]
           /\ raftLog' = [raftLog EXCEPT ![i] = lg]
  <2>1. raftLog[i].first \in Nat
    BY LogTypes
  <2>2. /\ Acked(pr, m.index, raftLog[i].first) \in ProgressType
        /\ ProgressSound(Acked(pr, m.index, raftLog[i].first), lastIndex(raftLog[i]))
    BY <1>2, <1>3, <1>4, <1>5, <1>6, <2>1, AckedType, AckedSound
  <2>3. prs \in [Server -> ProgressType]
        /\ \A k \in Server : ProgressSound(prs[k], lastIndex(raftLog[i]))
    BY <1>2, <1>4, <2>2
  <2>. HIDE DEF prs
  <2>4. lg \in LogType
    BY <1>2, <1>4, <2>3, MaybeCommitType
  <2>5. lg.snap = raftLog[i].snap /\ lg.first = raftLog[i].first
        /\ lastIndex(lg) = lastIndex(raftLog[i])
    BY <1>4 DEF maybeCommit, commitTo, LogType, lastIndex
  <2>. HIDE DEF lg, first
  <2>6. /\ \A k \in Server : ProgressSound(prs[k], lastIndex(lg))
        /\ Len(disk[i].snapshot) <= lastIndex(lg) /\ lg.first <= Len(disk[i].snapshot) + 1
        /\ MaxInflight \in Nat
    BY <1>4, <2>3, <2>5, MaxInflightAssumption
  <2>7. ProgressOf(out) \in [Server -> ProgressType]
    BY <1>4, <2>3, <2>4, SendAppendsType
  <2>8. \A k \in Server : ProgressSound(ProgressOf(out)[k], lastIndex(lg))
    BY <1>4, <2>3, <2>4, <2>6, RoundSound
  <2>. HIDE DEF out
  <2>9. \A k \in Server : ProgressSound(ProgressOf(more)[k], lastIndex(lg))
    BY <1>4, <2>4, <2>6, <2>7, <2>8, RoundSound
  <2>. HIDE DEF more
  <2>10. raftLog \in [Server -> LogType]
    BY DEF IndType, TypeOK
  <2>11. raftLog'[i] = lg /\ Leads(i)' /\ raft[i].state # "StateFollower"
    BY <1>1, <1>9, <2>10 DEF Leads
  <2>. QED
    BY <1>1, <1>9, <2>5, <2>9, <2>11, TrackAll
<1>. QED
  BY <1>7, <1>8, <1>9

\* A log that has grown.
LEMMA SoundGrows ==
    ASSUME NEW pr \in ProgressType, NEW last \in Nat, ProgressSound(pr, last)
    PROVE  ProgressSound(pr, last + 1)
<1>1. pr.Match \in Nat /\ pr.Next \in Nat /\ pr.PendingSnapshot \in Nat
  BY DEF ProgressType
<1>. QED
  BY <1>1 DEF ProgressSound

\* The Progress map of a new leader.
LEMMA LeaderProgressSound ==
    ASSUME NEW i \in Server, NEW lg \in LogType
    PROVE  \A j \in Server : ProgressSound(leaderProgress(i, lg)[j], lastIndex(lg))
<1>1. lastIndex(lg) \in Nat
  BY LogReads
<1>. SUFFICES ASSUME NEW j \in Server
              PROVE  ProgressSound(leaderProgress(i, lg)[j], lastIndex(lg))
  OBVIOUS
<1>. DEFINE pr == resetProgress(i, lg)[j]
<1>2. pr \in ProgressType
  BY ProgressMapTypes
<1>3. /\ pr.Match \in {0, lastIndex(lg)} /\ pr.Next = lastIndex(lg) + 1
      /\ pr.PendingSnapshot = 0 /\ pr.Inflights = << >>
  BY DEF resetProgress, NewProgress
<1>4. ProgressSound(pr, lastIndex(lg))
  BY <1>1, <1>3, WindowFacts DEF ProgressSound
<1>5. leaderProgress(i, lg)[j] = IF j = i THEN [BecomeReplicate(pr) EXCEPT !.RecentActive = TRUE]
                                 ELSE pr
  BY DEF leaderProgress, resetProgress
<1>. HIDE DEF pr
<1>6. BecomeReplicate(pr) \in ProgressType
  BY <1>2, ProgressTransitions
<1>7. ProgressSound(BecomeReplicate(pr), lastIndex(lg))
  <2>1. 0 \in Nat /\ TRUE \in BOOLEAN /\ pr.Match <= lastIndex(lg) /\ pr.PendingSnapshot <= lastIndex(lg)
    BY <1>1, <1>3
  <2>. QED
    BY <1>1, <1>2, <2>1, SoundTransitions
<1>8. ProgressSound([BecomeReplicate(pr) EXCEPT !.RecentActive = TRUE], lastIndex(lg))
  BY <1>6, <1>7, FlagsSound
<1>. QED
  BY <1>4, <1>5, <1>8

\* A leader appends an entry and broadcasts it.
LEMMA TrackAppendEntry ==
    ASSUME IndType, RangeInv, CommitInRange, TrackInv, NEW i \in Server,
           raft[i].state # "StateFollower", Leads(i)', NEW data \in Value \cup {NoData},
           NEW prs \in [Server -> ProgressType], NEW lg, NEW out,
           \A j \in Server : ProgressSound(prs[j], lastIndex(raftLog[i])),
           lg = appendEntry(raftLog[i], raft[i].Term, data),
           out = bcastAppend(i, prs, lg),
           raftLog' = [raftLog EXCEPT ![i] = lg], trk' = [trk EXCEPT ![i] = ProgressOf(out)],
           \A x \in Server : x # i => raft'[x].state = raft[x].state, UNCHANGED <<disk, appendQ>>
    PROVE  TrackInv'
<1>1. TypeOK /\ raftLog[i] \in LogType /\ raft[i].Term \in Nat /\ raftLog \in [Server -> LogType]
      /\ lastIndex(raftLog[i]) \in Nat /\ Len(disk[i].snapshot) \in Nat
  BY LogTypes, LogReads DEF IndType, TypeOK
<1>2. lg \in LogType /\ lastIndex(lg) = lastIndex(raftLog[i]) + 1 /\ lg.snap = raftLog[i].snap
  BY <1>1, AppendEntryType
<1>3. lg.first = raftLog[i].first
  BY <1>1 DEF appendEntry, LogType
<1>4. \A j \in Server : ProgressSound(prs[j], lastIndex(lg))
  BY <1>1, <1>2, SoundGrows
<1>5. Len(disk[i].snapshot) <= lastIndex(lg) /\ lg.first <= Len(disk[i].snapshot) + 1
  BY <1>1, <1>2, <1>3, LeaderSnapshot
<1>6. \A j \in Server : ProgressSound(ProgressOf(out)[j], lastIndex(lg))
  BY <1>1, <1>2, <1>4, <1>5, RoundSound DEF bcastAppend
<1>7. raftLog'[i] = lg
  BY <1>1
<1>. QED
  BY <1>2, <1>3, <1>6, <1>7, TrackAll

\* An election that is won.
LEMMA TrackPollWon ==
    ASSUME IndType, RangeInv, CommitInRange, TrackInv, NEW i \in Server, NEW m, PollWon(i, m)
    PROVE  TrackInv'
<1>. DEFINE lg  == appendEntry(raftLog[i], raft[i].Term, NoData)
            prs == leaderProgress(i, raftLog[i])
            out == bcastAppend(i, prs, lg)
<1>1. /\ raft[i].state = "StateCandidate" /\ raft' = [raft EXCEPT ![i] = becomeLeader(@, i)]
      /\ raftLog' = [raftLog EXCEPT ![i] = lg] /\ trk' = [trk EXCEPT ![i] = ProgressOf(out)]
      /\ UNCHANGED <<disk, appendQ>>
  BY DEF PollWon
<1>2. raft \in [Server -> RaftType] /\ raft[i] \in RaftType /\ raftLog[i] \in LogType
  BY DEF IndType, TypeOK
<1>3. Leads(i)' /\ \A x \in Server : x # i => raft'[x].state = raft[x].state
  <2>1. raft'[i] = becomeLeader(raft[i], i) /\ \A x \in Server : x # i => raft'[x] = raft[x]
    BY <1>1, <1>2
  <2>2. becomeLeader(raft[i], i).state = "StateLeader"
    BY <1>2 DEF becomeLeader, reset, RaftType
  <2>. QED
    BY <2>1, <2>2 DEF Leads
<1>4. prs \in [Server -> ProgressType]
      /\ \A j \in Server : ProgressSound(prs[j], lastIndex(raftLog[i]))
  BY <1>2, ProgressMapTypes, LeaderProgressSound
<1>5. NoData \in Value \cup {NoData} /\ raft[i].state # "StateFollower"
  BY <1>1
<1>6. lg = appendEntry(raftLog[i], raft[i].Term, NoData) /\ out = bcastAppend(i, prs, lg)
  OBVIOUS
<1>. HIDE DEF lg, prs, out
<1>. QED
  BY <1>1, <1>3, <1>4, <1>5, <1>6, TrackAppendEntry

\* Proposals.
LEMMA TrackProp ==
    ASSUME IndType, RangeInv, CommitInRange, TrackInv, NEW i \in Server, NEW from,
           NEW v \in Value, StepProp(i, from, v)
    PROVE  TrackInv'
<1>. DEFINE lg  == appendEntry(raftLog[i], raft[i].Term, v)
            out == bcastAppend(i, trk[i], lg)
<1>1. /\ UNCHANGED <<raft, disk, appendQ>>
      /\ \/ /\ Leads(i) /\ raftLog' = [raftLog EXCEPT ![i] = lg]
            /\ trk' = [trk EXCEPT ![i] = ProgressOf(out)]
         \/ UNCHANGED <<raftLog, trk>>
  BY DEF StepProp
<1>2. CASE UNCHANGED <<raftLog, trk>>
  BY <1>1, <1>2, TrackQuiet
<1>3. CASE /\ Leads(i) /\ raftLog' = [raftLog EXCEPT ![i] = lg]
           /\ trk' = [trk EXCEPT ![i] = ProgressOf(out)]
  <2>1. trk[i] \in [Server -> ProgressType]
        /\ \A j \in Server : ProgressSound(trk[i][j], lastIndex(raftLog[i]))
    BY <1>3, LeaderGround
  <2>2. Leads(i)' /\ raft[i].state # "StateFollower" /\ v \in Value \cup {NoData}
    BY <1>1, <1>3 DEF Leads
  <2>3. lg = appendEntry(raftLog[i], raft[i].Term, v) /\ out = bcastAppend(i, trk[i], lg)
    OBVIOUS
  <2>. HIDE DEF lg, out
  <2>. QED
    BY <1>1, <1>3, <2>1, <2>2, <2>3, TrackAppendEntry
<1>. QED
  BY <1>1, <1>2, <1>3

\* Transfers of the leadership.
LEMMA TrackTransfer ==
    ASSUME IndType, RangeInv, CommitInRange, TrackInv, NEW i \in Server, NEW x \in Server,
           leaderTransfer(i, x) \/ TransferLeader(i, x)
    PROVE  TrackInv'
<1>. DEFINE out == IF trk[i][x].Match = lastIndex(raftLog[i])
                   THEN [NothingSent(trk[i][x]) EXCEPT
                           !.msgs = {Plain("MsgTimeoutNow", i, x, raft[i].Term)}]
                   ELSE maybeSendAppend(i, x, trk[i][x], raftLog[i], 1, TRUE)
<1>1. raft \in [Server -> RaftType]
  BY DEF IndType, TypeOK
<1>2. /\ UNCHANGED <<raftLog, disk, appendQ>>
      /\ \/ /\ raft' \in {raft, [raft EXCEPT ![i].leadTransferee = None]} /\ trk' = trk
         \/ /\ Leads(i) /\ raft' = [raft EXCEPT ![i].leadTransferee = x, ![i].timedOut = FALSE]
            /\ trk' = [trk EXCEPT ![i][x] = out.pr]
  BY DEF leaderTransfer, TransferLeader
<1>3. \A y \in Server : raft'[y].state = raft[y].state
  <2>1. CASE raft' = [raft EXCEPT ![i].leadTransferee = None]
    BY <1>1, <2>1 DEF RaftType
  <2>2. CASE raft' = [raft EXCEPT ![i].leadTransferee = x, ![i].timedOut = FALSE]
    BY <1>1, <2>2 DEF RaftType
  <2>. QED
    BY <1>2, <2>1, <2>2
<1>4. CASE trk' = trk
  BY <1>2, <1>3, <1>4, TrackQuiet
<1>5. CASE Leads(i) /\ trk' = [trk EXCEPT ![i][x] = out.pr]
  <2>1. ProgressSound(out.pr, lastIndex(raftLog[i]))
    <3>1. [NothingSent(trk[i][x]) EXCEPT
             !.msgs = {Plain("MsgTimeoutNow", i, x, raft[i].Term)}].pr = trk[i][x]
      BY DEF NothingSent
    <3>2. ProgressSound(maybeSendAppend(i, x, trk[i][x], raftLog[i], 1, TRUE).pr,
                        lastIndex(raftLog[i]))
      BY <1>5, LeaderGround, SendSound
    <3>3. ProgressSound(trk[i][x], lastIndex(raftLog[i]))
      BY <1>5, LeaderGround
    <3>. QED
      BY <3>1, <3>2, <3>3
  <2>. HIDE DEF out
  <2>. QED
    BY <1>2, <1>3, <1>5, <2>1, TrackOne
<1>. QED
  BY <1>2, <1>4, <1>5

\* Reports of the transport, heartbeats and timers.
LEMMA TrackReports ==
    ASSUME IndType, RangeInv, CommitInRange, TrackInv, NEW i \in Server, NEW j \in Server,
           NEW failed \in BOOLEAN,
           \/ ReportUnreachable(i, j) \/ ReportSnapshot(i, j, failed)
    PROVE  TrackInv'
<1>. DEFINE pr == IF failed THEN [trk[i][j] EXCEPT !.PendingSnapshot = 0] ELSE trk[i][j]
            last == lastIndex(raftLog[i])
<1>1. /\ Leads(i) /\ UNCHANGED <<raft, raftLog, disk, appendQ>>
      /\ \/ trk' = [trk EXCEPT ![i][j] = BecomeProbe(@)]
         \/ trk' = [trk EXCEPT ![i][j] = [BecomeProbe(pr) EXCEPT !.MsgAppFlowPaused = TRUE]]
  BY DEF ReportUnreachable, ReportSnapshot
<1>2. trk[i][j] \in ProgressType /\ ProgressSound(trk[i][j], last) /\ last \in Nat
      /\ trk[i] \in [Server -> ProgressType] /\ trk \in [Server -> [Server -> ProgressType]]
  BY <1>1, LeaderGround DEF IndType, TypeOK
<1>3. pr \in ProgressType /\ pr.Match = trk[i][j].Match
      /\ pr.PendingSnapshot \in {0, trk[i][j].PendingSnapshot}
  BY <1>2 DEF ProgressType
<1>4. trk[i][j].Match <= last /\ trk[i][j].PendingSnapshot <= last
  BY <1>2 DEF ProgressSound, ProgressType
<1>. HIDE DEF pr, last
<1>5. 0 \in Nat /\ TRUE \in BOOLEAN /\ pr.Match <= last /\ pr.PendingSnapshot <= last
  BY <1>2, <1>3, <1>4
<1>6. ProgressSound([BecomeProbe(pr) EXCEPT !.MsgAppFlowPaused = TRUE], last)
      /\ ProgressSound(BecomeProbe(trk[i][j]), last)
  BY <1>2, <1>3, <1>4, <1>5, SoundTransitions
<1>7. CASE trk' = [trk EXCEPT ![i][j] = BecomeProbe(@)]
  <2>1. trk' = [trk EXCEPT ![i][j] = BecomeProbe(trk[i][j])]
    BY <1>2, <1>7
  <2>. QED
    BY <1>1, <1>6, <2>1, TrackOne DEF last
<1>8. CASE trk' = [trk EXCEPT ![i][j] = [BecomeProbe(pr) EXCEPT !.MsgAppFlowPaused = TRUE]]
  BY <1>1, <1>6, <1>8, TrackOne DEF last
<1>. QED
  BY <1>1, <1>7, <1>8

LEMMA TrackTimers ==
    ASSUME IndType, RangeInv, CommitInRange, TrackInv, NEW i \in Server,
           Beat(i) \/ LeaderTimeout(i) \/ Tick(i) \/ ForgetLeader(i)
    PROVE  TrackInv'
<1>. DEFINE last == lastIndex(raftLog[i])
<1>1. /\ raft \in [Server -> RaftType] /\ raft[i] \in RaftType
      /\ trk \in [Server -> [Server -> ProgressType]]
  BY DEF IndType, TypeOK
<1>2. CASE Tick(i) \/ ForgetLeader(i)
  <2>1. UNCHANGED <<trk, raftLog, disk, appendQ>>
        /\ \A x \in Server : raft'[x].state = raft[x].state
    <3>1. CASE raft' = [raft EXCEPT ![i].timedOut = TRUE]
      BY <1>1, <1>2, <3>1 DEF Tick, ForgetLeader, RaftType
    <3>2. CASE raft' = [raft EXCEPT ![i].lead = None]
      BY <1>1, <1>2, <3>2 DEF Tick, ForgetLeader, RaftType
    <3>. QED
      BY <1>2, <3>1, <3>2 DEF Tick, ForgetLeader
  <2>. QED
    BY <2>1, TrackQuiet
<1>3. ASSUME NEW prs, Leads(i), trk' = [trk EXCEPT ![i] = prs],
             \A x \in Server : raft'[x].state = raft[x].state, UNCHANGED <<raftLog, disk, appendQ>>,
             \A j \in Server : ProgressSound(prs[j], last)
      PROVE  TrackInv'
  <2>1. Leads(i)' /\ raft[i].state # "StateFollower"
    BY <1>3 DEF Leads
  <2>. QED
    BY <1>3, <2>1, TrackAll
<1>4. CASE Beat(i)
  <2>. DEFINE commit(j) == Least(trk[i][j].Match, raftLog[i].committed)
              prs == [j \in Server |-> IF j = i THEN trk[i][j] ELSE SentCommit(trk[i][j], commit(j))]
  <2>1. trk' = [trk EXCEPT ![i] = prs] /\ Leads(i) /\ UNCHANGED <<raft, raftLog, disk, appendQ>>
    BY <1>1, <1>4 DEF Beat
  <2>2. \A j \in Server : ProgressSound(prs[j], last)
    BY <2>1, LeaderGround, FlagsSound
  <2>. HIDE DEF prs
  <2>. QED
    BY <1>3, <2>1, <2>2
<1>5. CASE LeaderTimeout(i)
  <2>. DEFINE prs == [j \in Server |-> IF j = i \/ ~CheckQuorum THEN trk[i][j]
                                       ELSE [trk[i][j] EXCEPT !.RecentActive = FALSE]]
  <2>1. /\ Leads(i) /\ UNCHANGED <<raftLog, disk, appendQ>>
        /\ \/ Become(i, becomeFollower(raft[i], raft[i].Term, None), TRUE)
           \/ raft' = [raft EXCEPT ![i].leadTransferee = None] /\ trk' = [trk EXCEPT ![i] = prs]
    BY <1>5 DEF LeaderTimeout
  <2>2. CASE Become(i, becomeFollower(raft[i], raft[i].Term, None), TRUE)
    <3>1. /\ raft'[i].state = "StateFollower"
          /\ \A x \in Server : x # i => raft'[x] = raft[x] /\ trk'[x] = trk[x]
      <4>1. becomeFollower(raft[i], raft[i].Term, None).state = "StateFollower"
        BY <1>1 DEF becomeFollower, reset, RaftType
      <4>2. /\ raft'[i] = becomeFollower(raft[i], raft[i].Term, None)
            /\ \A x \in Server : x # i => raft'[x] = raft[x] /\ trk'[x] = trk[x]
        BY <1>1, <2>2 DEF Become
      <4>. QED
        BY <4>1, <4>2
    <3>2. ASSUME NEW x \in Server
          PROVE  \/ raft'[x].state = "StateFollower"
                 \/ raft'[x].state = raft[x].state /\ trk'[x] = trk[x]
      <4>1. CASE x = i
        BY <3>1, <4>1
      <4>. QED
        BY <3>1, <4>1
    <3>. QED
      BY <2>1, <3>2, TrackQuiet
  <2>3. CASE raft' = [raft EXCEPT ![i].leadTransferee = None] /\ trk' = [trk EXCEPT ![i] = prs]
    <3>1. \A j \in Server : ProgressSound(prs[j], last)
      <4>1. \A j \in Server : trk[i][j] \in ProgressType /\ ProgressSound(trk[i][j], last)
        BY <2>1, LeaderGround
      <4>. HIDE DEF last
      <4>2. \A j \in Server : ProgressSound([trk[i][j] EXCEPT !.RecentActive = FALSE], last)
        BY <4>1, FlagsSound
      <4>. QED
        BY <4>1, <4>2
    <3>. HIDE DEF prs
    <3>2. \A x \in Server : raft'[x].state = raft[x].state
      BY <1>1, <2>3 DEF RaftType
    <3>. QED
      BY <1>3, <2>1, <2>3, <3>1, <3>2
  <2>. QED
    BY <2>1, <2>2, <2>3
<1>. QED
  BY <1>2, <1>4, <1>5

\* A step of one server.
LEMMA TrackHost ==
    ASSUME TrackInv, NEW i \in Server, SnapshotInv(i)', Tracks(i)',
           \A x \in Server : x # i =>
                /\ raft'[x] = raft[x] /\ raftLog'[x] = raftLog[x] /\ trk'[x] = trk[x]
                /\ disk'[x] = disk[x] /\ appendQ'[x] = appendQ[x]
    PROVE  TrackInv'
<1>. SUFFICES ASSUME NEW x \in Server, x # i PROVE SnapshotInv(x)' /\ Tracks(x)'
  BY DEF TrackInv
<1>1. SnapshotInv(x) /\ Tracks(x)
  BY DEF TrackInv
<1>. QED
  BY <1>1 DEF SnapshotInv, Tracks

\* Messages of the leader.
LEMMA TrackFollower ==
    ASSUME IndType, RangeInv, TrackInv, NEW i \in Server, NEW m \in Message,
           HandleAppendEntries(i, m) \/ HandleHeartbeat(i, m) \/ HandleSnapshot(i, m)
    PROVE  TrackInv'
<1>. DEFINE lg == raftLog[i]
            r == Followed(i, m)
            index == Len(m.snapshot)
<1>1. /\ raft \in [Server -> RaftType] /\ raft[i] \in RaftType
      /\ trk \in [Server -> [Server -> ProgressType]]
      /\ raftLog \in [Server -> LogType] /\ lg \in LogType
  BY DEF IndType, TypeOK
<1>2. r.state = "StateFollower"
  BY <1>1 DEF Followed, Follows, becomeFollower, reset, RaftType
<1>3. UNCHANGED <<disk, appendQ>>
  BY DEF HandleAppendEntries, HandleHeartbeat, HandleSnapshot
<1>4. PICK new :
        /\ raft' = [raft EXCEPT ![i] = r] /\ raftLog' = [raftLog EXCEPT ![i] = new]
        /\ \/ new = restoreLog(m.snapshot) /\ m.type = "MsgSnap" /\ index > lg.committed
           \/ new.snap = lg.snap /\ new.first = lg.first
        /\ \A x \in Server : x # i => trk'[x] = trk[x]
  <2>1. /\ maybeAppend(lg, m.index, m.entries, m.commit).snap = lg.snap
        /\ maybeAppend(lg, m.index, m.entries, m.commit).first = lg.first
        /\ commitTo(lg, m.commit).snap = lg.snap /\ commitTo(lg, m.commit).first = lg.first
        /\ commitTo(lg, index).snap = lg.snap /\ commitTo(lg, index).first = lg.first
    BY <1>1 DEF maybeAppend, commitTo, LogType
  <2>2. [raftLog EXCEPT ![i] = lg] = raftLog
    BY <1>1
  <2>3. ASSUME NEW t, Become(i, r, t)
        PROVE  raft' = [raft EXCEPT ![i] = r] /\ \A x \in Server : x # i => trk'[x] = trk[x]
    BY <1>1, <2>3 DEF Become
  <2>. DEFINE app == maybeAppend(lg, m.index, m.entries, m.commit)
              beat == commitTo(lg, m.commit)
              ahead == commitTo(lg, index)
              restored == restoreLog(m.snapshot)
  <2>4. CASE HandleAppendEntries(i, m)
    <3>1. Become(i, r, ~Follows(i, m))
          /\ (raftLog' = raftLog \/ raftLog' = [raftLog EXCEPT ![i] = app])
      BY <2>4 DEF HandleAppendEntries
    <3>. HIDE DEF app, beat, ahead, restored
    <3>. QED
      BY <2>1, <2>2, <2>3, <3>1 DEF app
  <2>5. CASE HandleHeartbeat(i, m)
    <3>1. Become(i, r, ~Follows(i, m)) /\ raftLog' = [raftLog EXCEPT ![i] = beat]
      BY <1>1, <2>5 DEF HandleHeartbeat
    <3>. HIDE DEF app, beat, ahead, restored
    <3>. QED
      BY <2>1, <2>3, <3>1 DEF beat
  <2>6. CASE HandleSnapshot(i, m)
    <3>1. \/ Become(i, r, ~Follows(i, m)) /\ raftLog' = raftLog
          \/ Become(i, r, ~Follows(i, m)) /\ raftLog' = [raftLog EXCEPT ![i] = ahead]
          \/ /\ m.type = "MsgSnap" /\ index > lg.committed /\ raft' = [raft EXCEPT ![i] = r]
             /\ trk' = [trk EXCEPT ![i] = [j \in Server |-> NewProgress(0, index, TRUE)]]
             /\ raftLog' = [raftLog EXCEPT ![i] = restored]
      BY <1>1, <2>6 DEF HandleSnapshot
    <3>2. trk' = [trk EXCEPT ![i] = [j \in Server |-> NewProgress(0, index, TRUE)]]
            => \A x \in Server : x # i => trk'[x] = trk[x]
      BY <1>1
    <3>. HIDE DEF app, beat, ahead, restored
    <3>3. CASE Become(i, r, ~Follows(i, m)) /\ raftLog' = raftLog
      BY <2>2, <2>3, <3>3
    <3>4. CASE Become(i, r, ~Follows(i, m)) /\ raftLog' = [raftLog EXCEPT ![i] = ahead]
      BY <2>1, <2>3, <3>4 DEF ahead
    <3>5. CASE /\ m.type = "MsgSnap" /\ index > lg.committed /\ raft' = [raft EXCEPT ![i] = r]
               /\ trk' = [trk EXCEPT ![i] = [j \in Server |-> NewProgress(0, index, TRUE)]]
               /\ raftLog' = [raftLog EXCEPT ![i] = restored]
      BY <3>2, <3>5 DEF restored
    <3>. QED
      BY <3>1, <3>3, <3>4, <3>5
  <2>. QED
    BY <2>4, <2>5, <2>6
<1>. HIDE DEF r
<1>5. /\ raft'[i].state = "StateFollower" /\ raftLog'[i] = new
      /\ \A x \in Server : x # i => raft'[x] = raft[x] /\ raftLog'[x] = raftLog[x]
  BY <1>1, <1>2, <1>4
<1>6. CASE new.snap = lg.snap /\ new.first = lg.first
  BY <1>3, <1>4, <1>5, <1>6, TrackStep
<1>7. CASE new = restoreLog(m.snapshot) /\ m.type = "MsgSnap" /\ index > lg.committed
  <2>1. index \in Nat
    BY <1>7, LeaderFields
  <2>2. raftLog'[i].snap = index
    BY <1>5, <1>7 DEF restoreLog
  <2>3. SnapshotInv(i)
    BY DEF TrackInv
  <2>4. /\ index # 0 /\ disk[i].committed < index
        /\ \A k \in 1..Len(appendQ[i]) : appendQ[i][k].committed < index
    <3>1. /\ lg.committed \in Nat /\ disk[i].committed \in Nat
          /\ \A k \in 1..Len(appendQ[i]) : appendQ[i][k].committed \in Nat
      BY LogTypes
    <3>2. /\ disk[i].committed <= lg.committed
          /\ \A k \in 1..Len(appendQ[i]) : appendQ[i][k].committed <= lg.committed
      BY DEF RangeInv
    <3>3. index > lg.committed
      BY <1>7
    <3>. HIDE DEF index, lg
    <3>. QED
      BY <2>1, <3>1, <3>2, <3>3
  <2>. HIDE DEF index, lg
  <2>5. SnapshotInv(i)'
    BY <1>3, <1>5, <2>2, <2>3, <2>4 DEF SnapshotInv
  <2>6. Tracks(i)'
    BY <1>5 DEF Tracks
  <2>. QED
    BY <1>3, <1>4, <1>5, <2>5, <2>6, TrackHost
<1>. QED
  BY <1>4, <1>6, <1>7

\* The storage: snapshots are taken, the log is compacted, the server crashes,
\* and the response to a snapshot comes in.
LEMMA TrackStorage ==
    ASSUME IndType, RangeInv, TrackInv, NEW i \in Server, NEW m, NEW k \in Nat,
           \/ CreateSnapshot(i, k) \/ Compact(i, k) \/ Restart(i)
           \/ HandleStorageAppendResp(i, m)
    PROVE  TrackInv'
<1>1. /\ raft \in [Server -> RaftType] /\ trk \in [Server -> [Server -> ProgressType]]
      /\ raftLog \in [Server -> LogType] /\ raftLog[i] \in LogType
      /\ disk \in [Server -> DiskType] /\ disk[i] \in DiskType
      /\ appendQ \in [Server -> Seq(AppendItem)] /\ disk[i].ents \in Seq(Entry)
      /\ Len(disk[i].snapshot) \in Nat /\ raftLog[i].snap \in Nat
  BY LogTypes DEF IndType, TypeOK
<1>2. SnapshotInv(i) /\ Tracks(i)
  BY DEF TrackInv
<1>3. CASE CreateSnapshot(i, k)
  <2>. DEFINE s == SubSeq(disk[i].ents, 1, k)
  <2>1. /\ k > Len(disk[i].snapshot) /\ k <= Len(disk[i].ents)
        /\ disk' = [disk EXCEPT ![i].snapshot = s]
        /\ UNCHANGED <<raft, trk, raftLog, appendQ>>
    BY <1>3 DEF CreateSnapshot
  <2>2. Len(s) = k
    BY <1>1, <2>1
  <2>. HIDE DEF s
  <2>3. /\ disk'[i].snapshot = s /\ disk'[i].first = disk[i].first
        /\ disk'[i].committed = disk[i].committed
        /\ \A x \in Server : x # i => disk'[x] = disk[x]
    BY <1>1, <2>1 DEF DiskType
  <2>4. SnapshotInv(i)'
    <3>1. disk[i].first \in Nat /\ raftLog[i].first \in Nat
      BY LogTypes
    <3>. QED
      BY <1>1, <1>2, <2>1, <2>2, <2>3, <3>1 DEF SnapshotInv
  <2>5. Tracks(i)'
    BY <1>2, <2>1 DEF Tracks
  <2>. QED
    BY <2>1, <2>3, <2>4, <2>5, TrackHost
<1>4. CASE Compact(i, k)
  <2>. DEFINE f == IF raftLog[i].snap = 0 THEN k + 1 ELSE raftLog[i].first
  <2>1. /\ k <= Len(disk[i].snapshot) /\ disk' = [disk EXCEPT ![i].first = k + 1]
        /\ raftLog' = [raftLog EXCEPT ![i].first = f] /\ UNCHANGED <<raft, trk, appendQ>>
    BY <1>1, <1>4 DEF Compact
  <2>2. /\ disk'[i].snapshot = disk[i].snapshot /\ disk'[i].first = k + 1
        /\ disk'[i].committed = disk[i].committed
        /\ \A x \in Server : x # i => disk'[x] = disk[x]
    BY <1>1, <2>1 DEF DiskType
  <2>3. /\ raftLog'[i].snap = raftLog[i].snap /\ raftLog'[i].first = f
        /\ raftLog'[i].ents = raftLog[i].ents
        /\ \A x \in Server : x # i => raftLog'[x] = raftLog[x]
    BY <1>1, <2>1 DEF LogType
  <2>4. SnapshotInv(i)'
    BY <1>1, <1>2, <2>1, <2>2, <2>3 DEF SnapshotInv
  <2>5. Tracks(i)'
    BY <1>2, <2>1, <2>3 DEF Tracks, lastIndex
  <2>. QED
    BY <2>1, <2>2, <2>3, <2>4, <2>5, TrackHost
<1>5. CASE Restart(i)
  <2>. DEFINE d == disk[i]
              lg == [ents |-> d.ents, first |-> d.first, committed |-> d.committed, snap |-> 0]
              r == [Term |-> d.Term, Vote |-> d.Vote, state |-> "StateFollower", lead |-> None,
                    leadTransferee |-> None, timedOut |-> FALSE]
  <2>1. /\ raft' = [raft EXCEPT ![i] = r] /\ raftLog' = [raftLog EXCEPT ![i] = lg]
        /\ trk' = [trk EXCEPT ![i] = resetProgress(i, lg)]
        /\ appendQ' = [appendQ EXCEPT ![i] = << >>] /\ UNCHANGED disk
    BY <1>5 DEF Restart
  <2>2. /\ raft'[i] = r /\ raftLog'[i] = lg /\ appendQ'[i] = << >>
        /\ \A x \in Server : x # i =>
            /\ raft'[x] = raft[x] /\ raftLog'[x] = raftLog[x] /\ trk'[x] = trk[x]
            /\ appendQ'[x] = appendQ[x]
    BY <1>1, <2>1
  <2>3. r.state = "StateFollower" /\ lg.snap = 0 /\ lg.first = disk[i].first
    OBVIOUS
  <2>. HIDE DEF r, lg
  <2>4. SnapshotInv(i)'
    BY <1>1, <1>2, <2>1, <2>2, <2>3 DEF SnapshotInv
  <2>5. Tracks(i)'
    BY <2>2, <2>3 DEF Tracks
  <2>. QED
    BY <2>1, <2>2, <2>4, <2>5, TrackHost
<1>6. CASE HandleStorageAppendResp(i, m)
  <2>1. /\ raftLog' = [raftLog EXCEPT ![i].snap = 0, ![i].first = disk[i].first]
        /\ UNCHANGED <<raft, trk, disk, appendQ>>
    BY <1>6 DEF HandleStorageAppendResp
  <2>2. /\ raftLog'[i].snap = 0 /\ raftLog'[i].first = disk[i].first
        /\ raftLog'[i].ents = raftLog[i].ents
        /\ \A x \in Server : x # i => raftLog'[x] = raftLog[x]
    BY <1>1, <2>1 DEF LogType
  <2>3. SnapshotInv(i)'
    BY <1>1, <1>2, <2>1, <2>2 DEF SnapshotInv
  <2>4. Tracks(i)'
    BY <1>2, <2>1, <2>2 DEF Tracks, lastIndex
  <2>. QED
    BY <2>1, <2>2, <2>3, <2>4, TrackHost
<1>. QED
  BY <1>3, <1>4, <1>5, <1>6

\* A Ready hands out the unstable snapshot once.
LEMMA TrackReady ==
    ASSUME IndType, TrackInv, NEW i \in Server, Ready(i)
    PROVE  TrackInv'
<1>. DEFINE item == StorageAppend(i)
            snap == nextUnstableSnapshot(i)
            q == appendQ[i]
<1>1. /\ appendQ \in [Server -> Seq(AppendItem)] /\ q \in Seq(AppendItem)
      /\ raftLog[i].ents \in Seq(Entry) /\ raftLog[i].snap \in Nat /\ item \in AppendItem
      /\ raftLog[i].snap <= Len(raftLog[i].ents) /\ Len(q) \in Nat
      /\ disk[i].committed \in Nat
  BY LogTypes, StorageAppendType, ServerFacts DEF IndType, TypeOK, LogOK
<1>2. appendQ' = [appendQ EXCEPT ![i] = Append(@, item)] /\ UNCHANGED <<raft, trk, raftLog, disk>>
  BY DEF Ready
<1>3. SnapshotInv(i) /\ Tracks(i)
  BY DEF TrackInv
<1>4. item.snapshot = snap
  BY DEF StorageAppend
<1>5. \/ /\ snap = << >>
         /\ \/ raftLog[i].snap <= Len(disk[i].snapshot)
            \/ \E k \in 1..Len(q) : Len(q[k].snapshot) = raftLog[i].snap
      \/ Len(snap) = raftLog[i].snap /\ disk[i].committed < raftLog[i].snap
  <2>1. Len(SubSeq(raftLog[i].ents, 1, raftLog[i].snap)) = raftLog[i].snap
    BY <1>1
  <2>. QED
    BY <1>3, <2>1 DEF SnapshotInv, nextUnstableSnapshot
<1>. HIDE DEF item, snap
<1>6. /\ Len(appendQ'[i]) = Len(q) + 1 /\ appendQ'[i][Len(q) + 1] = item
      /\ \A k \in 1..Len(q) : appendQ'[i][k] = q[k]
      /\ \A x \in Server : x # i => appendQ'[x] = appendQ[x]
  <2>1. appendQ'[i] = Append(q, item) /\ \A x \in Server : x # i => appendQ'[x] = appendQ[x]
    BY <1>1, <1>2
  <2>. QED
    BY <1>1, <2>1
<1>. HIDE DEF q
<1>7. 1..(Len(q) + 1) = 1..Len(q) \cup {Len(q) + 1}
  BY <1>1
<1>8. SnapshotInv(i)'
  <2>1. \A k \in 1..Len(appendQ'[i]) :
          appendQ'[i][k].snapshot # << >> => disk[i].committed < Len(appendQ'[i][k].snapshot)
    BY <1>3, <1>4, <1>5, <1>6, <1>7 DEF SnapshotInv, q
  <2>2. \/ raftLog[i].snap <= Len(disk[i].snapshot)
        \/ \E k \in 1..Len(appendQ'[i]) : Len(appendQ'[i][k].snapshot) = raftLog[i].snap
    <3>1. CASE Len(snap) = raftLog[i].snap
      BY <1>4, <1>6, <1>7, <3>1
    <3>2. CASE \E k \in 1..Len(q) : Len(q[k].snapshot) = raftLog[i].snap
      BY <1>6, <1>7, <3>2
    <3>. QED
      BY <1>5, <3>1, <3>2
  <2>. QED
    BY <1>2, <1>3, <2>1, <2>2 DEF SnapshotInv
<1>9. Tracks(i)'
  BY <1>2, <1>3 DEF Tracks
<1>. QED
  BY <1>2, <1>6, <1>8, <1>9, TrackHost

\* Without asynchronous writes the item that is saved is the only one.
LEMMA TrackWrite ==
    ASSUME IndType, SyncInv, RangeInv, TrackInv, NEW i \in Server, ProcessAppend(i)
    PROVE  TrackInv'
<1>. DEFINE q == appendQ[i]
            item == q[1]
            d == disk[i]
<1>1. /\ appendQ \in [Server -> Seq(AppendItem)] /\ disk \in [Server -> DiskType]
      /\ q \in Seq(AppendItem) /\ Len(q) \in Nat
  BY LogTypes DEF IndType, TypeOK
<1>2. /\ q # << >> /\ disk' = [disk EXCEPT ![i] = Saved(@, item)]
      /\ appendQ' = [appendQ EXCEPT ![i] = Tail(@)] /\ UNCHANGED <<raft, trk, raftLog>>
  BY DEF ProcessAppend
<1>3. Len(q) = 1
  <2>1. Len(q) <= 1
    BY DEF SyncInv, OwnedBy
  <2>. HIDE DEF q
  <2>2. Len(q) # 0
    BY <1>1, <1>2
  <2>3. PICK n \in Nat : n = Len(q)
    BY <1>1
  <2>4. n <= 1 /\ n # 0
    BY <2>1, <2>2, <2>3
  <2>5. n = 1
    BY <2>4
  <2>. QED
    BY <2>3, <2>5
<1>4. /\ Len(appendQ'[i]) = 0 /\ \A x \in Server : x # i => appendQ'[x] = appendQ[x]
  <2>1. appendQ'[i] = Tail(q) /\ \A x \in Server : x # i => appendQ'[x] = appendQ[x]
    BY <1>1, <1>2
  <2>2. Len(Tail(q)) = Len(q) - 1
    BY <1>1, <1>2
  <2>. QED
    BY <1>3, <2>1, <2>2
<1>5. /\ disk'[i] = Saved(d, item) /\ \A x \in Server : x # i => disk'[x] = disk[x]
  BY <1>1, <1>2
<1>6. SnapshotInv(i) /\ Tracks(i)
  BY DEF TrackInv
<1>7. /\ Len(item.snapshot) \in Nat /\ item.committed \in Nat /\ Len(d.snapshot) \in Nat
      /\ d.committed \in Nat /\ d.first \in Nat /\ raftLog[i].first \in Nat /\ raftLog[i].snap \in Nat
  <2>1. 1 \in 1..Len(q)
    BY <1>3
  <2>. QED
    BY <2>1, LogTypes
<1>8. /\ item.snapshot # << >> => d.committed < Len(item.snapshot)
      /\ Len(d.snapshot) <= d.committed /\ d.committed <= item.committed
      /\ Len(item.snapshot) <= item.committed
      /\ d.first <= Len(d.snapshot) + 1
      /\ raftLog[i].snap = 0 => raftLog[i].first <= Len(d.snapshot) + 1
      /\ \/ raftLog[i].snap <= Len(d.snapshot) \/ Len(item.snapshot) = raftLog[i].snap
         \/ d.committed < raftLog[i].snap /\ item.committed < raftLog[i].snap
  <2>1. 1..Len(q) = {1}
    BY <1>3
  <2>. QED
    BY <1>6, <2>1 DEF SnapshotInv, RangeInv
<1>. HIDE DEF q, item, d
<1>9. /\ disk'[i].committed = item.committed
      /\ item.snapshot = << >> => disk'[i].first = d.first /\ disk'[i].snapshot = d.snapshot
      /\ item.snapshot # << >> => /\ disk'[i].first = Len(item.snapshot) + 1
                                  /\ disk'[i].snapshot = item.snapshot
  BY <1>5 DEF Saved
<1>10. 1..Len(appendQ'[i]) = {}
  BY <1>4
<1>11. /\ disk'[i].first <= Len(disk'[i].snapshot) + 1
       /\ raftLog[i].snap = 0 => raftLog[i].first <= Len(disk'[i].snapshot) + 1
       /\ raftLog[i].snap <= Len(disk'[i].snapshot) \/ disk'[i].committed < raftLog[i].snap
  <2>1. CASE item.snapshot = << >>
    <3>1. Len(item.snapshot) = 0
      BY <2>1
    <3>. QED
      BY <1>7, <1>8, <1>9, <2>1, <3>1
  <2>2. CASE item.snapshot # << >>
    <3>1. /\ disk'[i].first = Len(item.snapshot) + 1 /\ disk'[i].snapshot = item.snapshot
          /\ disk'[i].committed = item.committed /\ d.committed < Len(item.snapshot)
      BY <1>8, <1>9, <2>2
    <3>2. Len(d.snapshot) < Len(item.snapshot)
      BY <1>7, <1>8, <3>1
    <3>. QED
      BY <1>7, <1>8, <3>1, <3>2
  <2>. QED
    BY <2>1, <2>2
<1>12. SnapshotInv(i)'
  BY <1>2, <1>6, <1>10, <1>11 DEF SnapshotInv
<1>13. Tracks(i)'
  BY <1>2, <1>6 DEF Tracks
<1>. QED
  BY <1>2, <1>4, <1>5, <1>12, <1>13, TrackHost

\* A cluster that starts has no snapshots and no leaders.
LEMMA TrackInit == Init => TrackInv
<1>. SUFFICES ASSUME Init, NEW i \in Server PROVE SnapshotInv(i) /\ Tracks(i)
  BY DEF TrackInv
<1>1. /\ raft[i].state = "StateFollower" /\ raftLog[i] = EmptyLog /\ appendQ[i] = << >>
      /\ disk[i].first = 1 /\ disk[i].snapshot = << >>
  BY DEF Init
<1>2. Len(<< >>) = 0 /\ EmptyLog.snap = 0 /\ EmptyLog.first = 1
  BY DEF EmptyLog
<1>3. 1..Len(appendQ[i]) = {}
  BY <1>1, <1>2
<1>. QED
  BY <1>1, <1>2, <1>3 DEF SnapshotInv, Tracks

LEMMA TrackNext ==
    ASSUME ~AsyncStorageWrites, IndType, ElectionInv, LeadInv, LogInv, CommitInRange,
           TrackInv, [Next]_vars
    PROVE  TrackInv'
<1>1. SyncInv /\ RangeInv
  BY DEF LogInv
<1>2. CASE UNCHANGED vars
  <2>1. UNCHANGED <<raft, trk, raftLog, disk, appendQ>>
    BY <1>2 DEF vars
  <2>. QED
    BY <2>1, TrackQuiet
<1>3. ASSUME NEW i \in Server, NEW m \in net, m.to = i, Receive(i, m)
      PROVE  TrackInv'
  <2>1. m \in Message
    BY DEF IndType, TypeOK
  <2>2. CASE \/ HandleVote(i, m) \/ PollPending(i, m) \/ PollLost(i, m)
             \/ PollPreVoteWon(i, m) \/ StepDown(i, m) \/ StepLowerTerm(i, m)
             \/ HandleTimeoutNow(i, m)
    BY <2>2, TrackElection
  <2>3. CASE PollWon(i, m)
    BY <1>1, <2>3, TrackPollWon
  <2>4. CASE HandleAppendEntries(i, m) \/ HandleHeartbeat(i, m) \/ HandleSnapshot(i, m)
    BY <1>1, <2>1, <2>4, TrackFollower
  <2>5. CASE HandleAppendReject(i, m) \/ HandleHeartbeatResp(i, m)
    BY <1>1, <2>1, <2>5, TrackReplies
  <2>6. CASE HandleAppendAck(i, m)
    BY <2>6, TrackAck
  <2>7. CASE HandleProp(i, m)
    <3>1. m.data \in Value /\ StepProp(i, m.from, m.data)
      BY <2>1, <2>7, MessageKinds DEF HandleProp, PropMsg
    <3>. QED
      BY <1>1, <3>1, TrackProp
  <2>8. CASE HandleTransferLeader(i, m)
    BY <1>1, <2>1, <2>8, LeaderFields, TrackTransfer DEF HandleTransferLeader
  <2>9. CASE HandleStorageAppendResp(i, m)
    <3>1. 0 \in Nat
      OBVIOUS
    <3>. QED
      BY <1>1, <2>9, <3>1, TrackStorage
  <2>. QED
    BY <1>3, <2>2, <2>3, <2>4, <2>5, <2>6, <2>7, <2>8, <2>9 DEF Receive
<1>4. ASSUME NEW i \in Server, Local(i)
      PROVE  TrackInv'
  <2>1. CASE Campaign(i)
    <3>1. campaign(i, raft[i], PreVote, FALSE) /\ UNCHANGED <<raftLog, disk, appendQ>>
          /\ raftLog[i].snap = 0 /\ PreVote \in BOOLEAN
      BY <2>1, OptionAssumption DEF Campaign, promotable
    <3>. QED
      BY <3>1, TrackCampaign
  <2>2. CASE Tick(i) \/ Beat(i) \/ LeaderTimeout(i) \/ ForgetLeader(i)
    BY <1>1, <2>2, TrackTimers
  <2>3. CASE \E v \in Value : Propose(i, v)
    BY <1>1, <2>3, TrackProp DEF Propose
  <2>4. CASE \E j \in Server : \/ TransferLeader(i, j) \/ ReportUnreachable(i, j)
                               \/ \E failed \in BOOLEAN : ReportSnapshot(i, j, failed)
    <3>1. TRUE \in BOOLEAN
      OBVIOUS
    <3>. QED
      BY <1>1, <2>4, <3>1, TrackTransfer, TrackReports
  <2>. QED
    BY <1>4, <2>1, <2>2, <2>3, <2>4 DEF Local
<1>5. ASSUME NEW i \in Server, Durability(i)
      PROVE  TrackInv'
  <2>1. ASSUME NEW k \in 1..disk[i].committed, CreateSnapshot(i, k) \/ Compact(i, k)
        PROVE  TrackInv'
    <3>1. k \in Nat
      OBVIOUS
    <3>. QED
      BY <1>1, <2>1, <3>1, TrackStorage
  <2>2. CASE Ready(i) \/ ProcessAppend(i)
    BY <1>1, <2>2, TrackReady, TrackWrite
  <2>3. CASE Restart(i)
    <3>1. 0 \in Nat
      OBVIOUS
    <3>. QED
      BY <1>1, <2>3, <3>1, TrackStorage
  <2>. QED
    BY <1>5, <2>1, <2>2, <2>3 DEF Durability
<1>. QED
  BY <1>2, <1>3, <1>4, <1>5 DEF Next

(***************************************************************************)
(* The bookkeeping of replication never goes wrong: for every follower of  *)
(* a leader Match < Next, Next is within one of the log, and the window of *)
(* messages in flight rises between the two and keeps to MaxInflight. No   *)
(* order, loss or repetition of the answers, no report of the transport    *)
(* and no snapshot breaks it. It rests on the log invariant: what a        *)
(* follower acknowledges is in the leader's log, and the snapshot that     *)
(* Storage hands out lies between the beginning and the end of that log.   *)
(***************************************************************************)
THEOREM ProgressIsSound ==
    ASSUME ~AsyncStorageWrites
    PROVE  Spec => []ProgressInv
<1>1. IndType /\ ElectionInv /\ LeadInv /\ LogInv /\ CommitInRange /\ TrackInv /\ [Next]_vars
        => TrackInv'
  BY TrackNext
<1>2. IndType /\ TrackInv => ProgressInv
  <2>. SUFFICES ASSUME IndType, TrackInv, NEW i \in Server, NEW j \in Server,
                       raft[i].state = "StateLeader"
                PROVE  LET pr == trk[i][j]
                       IN  /\ pr.Match < pr.Next /\ pr.Next <= lastIndex(raftLog[i]) + 1
                           /\ Len(pr.Inflights) <= MaxInflight
                           /\ \A k \in DOMAIN pr.Inflights :
                               /\ pr.Inflights[k] > pr.Match /\ pr.Inflights[k] < pr.Next
                               /\ \A l \in 1..(k - 1) : pr.Inflights[l] < pr.Inflights[k]
    BY DEF ProgressInv
  <2>. DEFINE pr == trk[i][j]
              q == pr.Inflights
  <2>1. pr \in ProgressType
    BY DEF IndType, TypeOK
  <2>2. pr.Match \in Nat /\ q \in Seq(Nat) /\ DOMAIN q = 1..Len(q) /\ Len(q) \in Nat
    BY <2>1 DEF ProgressType
  <2>3. ProgressSound(pr, lastIndex(raftLog[i]))
    BY DEF TrackInv, Tracks
  <2>4. \A k \in 1..Len(q) : q[k] \in Nat
    BY <2>2
  <2>. HIDE DEF pr
  <2>5. pr.Match < pr.Next /\ pr.Next <= lastIndex(raftLog[i]) + 1 /\ Len(q) <= MaxInflight
    BY <2>3 DEF ProgressSound, WindowIn
  <2>6. \A k \in 1..Len(q) : q[k] > pr.Match /\ q[k] < pr.Next
    BY <2>2, <2>3, <2>4 DEF ProgressSound, WindowIn
  <2>7. \A k \in 1..Len(q) : \A l \in 1..(k - 1) : q[l] < q[k]
    <3>1. \A k \in 1..Len(q) : \A l \in 1..(k - 1) : l \in 1..Len(q) /\ l < k
      BY <2>2
    <3>. QED
      BY <2>3, <3>1 DEF ProgressSound, WindowIn
  <2>. QED
    BY <2>2, <2>5, <2>6, <2>7 DEF pr
<1>. QED
  BY <1>1, <1>2, TrackInit, LogInductive, TypeInductive, ElectionInductive, LeadInductive,
     CommitIsInRange, PTL DEF Spec

=============================================================================
