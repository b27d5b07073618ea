------------------------- MODULE ReplicationProofs -------------------------
(***************************************************************************)
(* Module Replication for every value of its constants: the leader never   *)
(* believes that the follower has what it does not have (MatchIsReal), the *)
(* ring buffer holds the window that Progress sees (RingIsWindow), and in  *)
(* StateReplicate the window is exactly what is sent and not acked, within *)
(* its limits (WindowIsOutstanding).                                       *)
(*                                                                         *)
(* The inductive invariant ReplicationInv has three parts. The logs: the   *)
(* follower's entries match the leader's wherever their terms do, it       *)
(* differs only beyond its commit index, and it has no entry of the        *)
(* leader's term that the leader has not. The messages: a MsgApp or a      *)
(* MsgSnap carries entries of the leader's log, an ack or a heartbeat      *)
(* names an index up to which the logs are the same, so any of them may be *)
(* lost, doubled or late. The window: the ring, wherever it starts and     *)
(* however long its buffer is, holds a sequence of messages, which is what *)
(* Progress has in flight.                                                 *)
(***************************************************************************)
EXTENDS Replication, FiniteSetTheorems, WellFoundedInduction, TLAPS

-----------------------------------------------------------------------------
(* Types.                                                                  *)

Ents    == [term : Nat, data : Nat]
Logs    == [ents : Seq(Ents), first : Nat \ {0}, committed : Nat, snap : {0}]
Leaders == [log : Logs, snapshot : Nat, peer : Nat]

\* The messages of a window, and the ring that keeps them.
Items == [index : Nat, bytes : Nat]
Rings == [start : Nat, count : Nat, bytes : Nat, buffer : Seq(Items)]

ToFollower ==
    [type : {"MsgApp"}, index : Nat, logTerm : Nat, entries : Seq(Ents), commit : Nat]
    \cup [type : {"MsgSnap"}, snapshot : Seq(Ents)]
    \cup [type : {"MsgHeartbeat"}, commit : Nat]

ToLeader ==
    [type : {"MsgAppResp"}, reject : {FALSE}, index : Nat]
    \cup [type : {"MsgAppResp"}, reject : {TRUE}, index : Nat, rejectHint : Nat, logTerm : Nat]
    \cup [type : {"MsgHeartbeatResp"}]

-----------------------------------------------------------------------------
(* The two logs and the messages between them.                             *)

\* The leader's log, its snapshot and what it has compacted.
LeadOK(l) ==
    /\ l \in Leaders
    /\ l.log.first <= l.snapshot + 1 /\ l.snapshot <= l.log.committed
    /\ l.log.committed <= Len(l.log.ents)

\* Entries of f at the same place and of the same term as the leader's are the
\* leader's, and so are all before them.
Matches(f, L) ==
    \A i \in 1..Len(f) : i <= Len(L) /\ f[i].term = L[i].term => Common(f, L, i)

\* The follower f of a leader whose log is L: it can diverge only beyond its
\* commit index, and has no entry of the leader's term that the leader has not.
FolOK(f, L) ==
    /\ f \in Logs /\ f.first <= f.committed + 1
    /\ Common(f.ents, L, f.committed) /\ Matches(f.ents, L)
    /\ \A i \in 1..Len(f.ents) : f.ents[i].term = Term => i <= Len(L)

\* Entries es are the leader's, from index from on.
PartOf(es, from, L) ==
    /\ from + Len(es) <= Len(L) + 1
    /\ \A k \in 1..Len(es) : es[k] = L[from - 1 + k]

\* A message tells the follower, whose entries are f, what the leader's log L
\* holds; a heartbeat commits only what the follower shares.
TrueApp(m, L) ==
    PartOf(m.entries, m.index + 1, L) /\ m.logTerm = TermAt(L, m.index)
TrueToFollower(f, L) ==
    {m \in ToFollower :
        /\ m.type = "MsgApp" => TrueApp(m, L)
        /\ m.type = "MsgSnap" => PartOf(m.snapshot, 1, L)
        /\ m.type = "MsgHeartbeat" => Common(f, L, m.commit)}

\* An ack tells the leader up to where the follower shares its log.
TrueToLeader(f, L) ==
    {m \in ToLeader : m.type = "MsgAppResp" /\ ~m.reject => Common(f, L, m.index)}

-----------------------------------------------------------------------------
(* The window.                                                             *)

\* The ring in holds the window w.
Holds(in, w) ==
    /\ in.count = Len(w) /\ in.bytes = Ring!TotalBytes(w)
    /\ in.start < MaxInflight /\ in.count <= MaxInflight /\ Len(in.buffer) <= MaxInflight
    /\ in.count = 0 => in.start = 0
    /\ \A k \in 1..Len(w) :
        /\ Ring!Rotated(in, k - 1) < Len(in.buffer)
        /\ in.buffer[Ring!Rotated(in, k - 1) + 1] = w[k]

\* The indexes of w rise, all beyond match.
Rising(w, match) ==
    /\ \A k \in 1..Len(w) : w[k].index > match
    /\ \A j, k \in 1..Len(w) : j < k => w[j].index < w[k].index

\* Without its last message the window w is within the limit on bytes.
Limited(w) ==
    w # << >> /\ MaxInflightBytes # 0 =>
        Ring!TotalBytes(SubSeq(w, 1, Len(w) - 1)) < MaxInflightBytes

\* w is what Progress p has sent and does not know to have arrived.
Outstanding(p, w) ==
    /\ p.Inflights = [k \in 1..Len(w) |-> w[k].index]
    /\ p.State = "StateReplicate" =>
        /\ p.Next - 1 = IF w = << >> THEN p.Match ELSE w[Len(w)].index
        /\ Rising(w, p.Match)
    /\ p.State # "StateReplicate" => w = << >>
    /\ Limited(w)

\* Progress p stays within a log of n entries.
Within(p, n) == p.Match < p.Next /\ p.Next <= n + 1 /\ p.PendingSnapshot <= n

Flow(p, in, n) ==
    /\ p \in ProgressType /\ in \in Rings /\ Within(p, n)
    /\ \E w \in Seq(Items) : Holds(in, w) /\ Outstanding(p, w)

-----------------------------------------------------------------------------

\* The inductive invariant.
ReplicationInv ==
    LET L == lead.log.ents
    IN  /\ LeadOK(lead) /\ FolOK(fol, L)
        /\ Common(fol.ents, L, pr.Match) /\ Flow(pr, ring, Len(L))
        /\ toF \in Seq(TrueToFollower(fol.ents, L))
        /\ toL \in Seq(TrueToLeader(fol.ents, L))

-----------------------------------------------------------------------------
(* Numbers, sums and sequences.                                            *)

\* Induction over the naturals, for a set.
LEMMA NatSetInduction ==
    ASSUME NEW S, 0 \in S, \A n \in Nat : n \in S => n + 1 \in S
    PROVE  \A n \in Nat : n \in S
<1> DEFINE R == OpToRel(<, Nat)
           T == Nat \ S
<1>1. SUFFICES ASSUME T # {} PROVE FALSE
  OBVIOUS
<1>2. IsWellFoundedOn(R, Nat)
  BY NatLessThanWellFounded
<1>3. PICK x \in T : \A y \in T : ~(<<y, x>> \in R)
  <2> HIDE DEF R, T
  <2>1. T \subseteq Nat BY DEF T
  <2> QED BY <1>1, <1>2, <2>1, WFMin
<1>4. x \in Nat /\ x # 0
  OBVIOUS
<1>5. x - 1 \in Nat
  BY <1>4
<1>6. x - 1 \in S
  <2>1. <<x - 1, x>> \in R
    BY <1>4, <1>5 DEF OpToRel
  <2> QED BY <1>3, <1>5, <2>1
<1>7. (x - 1) + 1 \in S
  BY <1>5, <1>6
<1> QED BY <1>4, <1>7

\* A non-empty set of naturals has a least element.
LEMMA LeastExists ==
    ASSUME NEW S, S \subseteq Nat, S # {}
    PROVE  \E x \in S : \A y \in S : x <= y
<1>1. IsWellFoundedOn(OpToRel(<, Nat), Nat)
  BY NatLessThanWellFounded
<1>2. PICK x \in S : \A y \in S : ~(<<y, x>> \in OpToRel(<, Nat))
  BY <1>1, WFMin, Zenon
<1>3. \A y \in S : ~(y < x)
  BY <1>2 DEF OpToRel
<1>. QED
  BY <1>3

\* A non-empty set of naturals below a bound has a greatest element.
LEMMA GreatestExists ==
    ASSUME NEW S, S \subseteq Nat, S # {}, NEW n \in Nat, \A x \in S : x <= n
    PROVE  \E x \in S : \A y \in S : y <= x
<1>. DEFINE T == {n - x : x \in S}
<1>1. T \subseteq Nat /\ T # {}
  <2>1. \A x \in S : n - x \in Nat
    OBVIOUS
  <2>2. PICK x \in S : TRUE
    OBVIOUS
  <2>3. n - x \in T
    OBVIOUS
  <2>. QED
    BY <2>1, <2>3
<1>2. PICK t \in T : \A u \in T : t <= u
  BY <1>1, LeastExists
<1>3. PICK x \in S : t = n - x
  BY <1>2
<1>4. \A y \in S : n - x <= n - y
  BY <1>2, <1>3
<1>. QED
  BY <1>4

\* f adds up the first n values of v.
Adds(f, v, n) == f[0] = 0 /\ \A i \in 1..n : f[i] = f[i - 1] + v[i]

\* The sum of the first n values of v.
Total(v, n) == CHOOSE t : \E f : Adds(f, v, n) /\ t = f[n]

\* Partial sums exist: by induction.
LEMMA AddsExists ==
    ASSUME NEW n \in Nat, NEW v, \A i \in 1..n : v[i] \in Nat
    PROVE  \E f \in [0..n -> Nat] : Adds(f, v, n)
<1> DEFINE S == {k \in Nat : k <= n => \E f \in [0..k -> Nat] : Adds(f, v, k)}
<1>1. 0 \in S
  <2>1. PICK f : f = [i \in 0..0 |-> 0]
    OBVIOUS
  <2>2. f \in [0..0 -> Nat] /\ f[0] = 0
    BY <2>1
  <2>3. 1..0 = {}
    OBVIOUS
  <2> QED BY <2>2, <2>3 DEF Adds
<1>2. ASSUME NEW k \in Nat, k \in S PROVE k + 1 \in S
  <2>1. SUFFICES ASSUME k + 1 <= n PROVE \E f \in [0..(k + 1) -> Nat] : Adds(f, v, k + 1)
    OBVIOUS
  <2>2. PICK f \in [0..k -> Nat] : Adds(f, v, k)
    BY <1>2, <2>1
  <2>3. v[k + 1] \in Nat
    BY <2>1
  <2> DEFINE g == [i \in 0..(k + 1) |-> IF i = k + 1 THEN f[k] + v[k + 1] ELSE f[i]]
  <2>4. f[k] \in Nat
    BY <2>2
  <2>5. g \in [0..(k + 1) -> Nat]
    <3>1. SUFFICES ASSUME NEW i \in 0..(k + 1), i # k + 1 PROVE f[i] \in Nat
      BY <2>3, <2>4
    <3>2. i \in 0..k
      BY <3>1
    <3> QED BY <3>2
  <2>6. g[0] = f[0]
    OBVIOUS
  <2>7. ASSUME NEW i \in 1..(k + 1) PROVE g[i] = g[i - 1] + v[i]
    <3>1. i - 1 \in 0..(k + 1) /\ i - 1 # k + 1 /\ i \in 0..(k + 1)
      OBVIOUS
    <3>2. g[i - 1] = f[i - 1]
      BY <3>1
    <3>3. CASE i = k + 1
      <4>1. g[i] = f[k] + v[k + 1] /\ i - 1 = k
        BY <3>1, <3>3
      <4> QED BY <4>1, <3>2, <3>3
    <3>4. CASE i # k + 1
      <4>1. i \in 1..k /\ g[i] = f[i]
        BY <3>1, <3>4
      <4>2. f[i] = f[i - 1] + v[i]
        BY <4>1, <2>2 DEF Adds
      <4> QED BY <4>1, <4>2, <3>2
    <3> QED BY <3>3, <3>4
  <2> HIDE DEF g
  <2> QED BY <2>2, <2>5, <2>6, <2>7 DEF Adds
<1> HIDE DEF S
<1>3. \A k \in Nat : k \in S
  BY <1>1, <1>2, NatSetInduction
<1>4. n \in S
  BY <1>3
<1>5. n <= n
  OBVIOUS
<1> QED BY <1>4, <1>5 DEF S

\* Partial sums are unique: by induction.
LEMMA AddsUnique ==
    ASSUME NEW n \in Nat, NEW v, NEW u, NEW f, NEW g, \A i \in 1..n : v[i] = u[i],
           Adds(f, v, n), Adds(g, u, n)
    PROVE  f[n] = g[n]
<1> DEFINE S == {k \in Nat : k <= n => f[k] = g[k]}
<1>1. 0 \in S
  BY DEF Adds
<1>2. ASSUME NEW k \in Nat, k \in S PROVE k + 1 \in S
  <2>1. SUFFICES ASSUME k + 1 <= n PROVE f[k + 1] = g[k + 1]
    OBVIOUS
  <2>2. k + 1 \in 1..n /\ (k + 1) - 1 = k /\ k <= n
    BY <2>1
  <2>3. f[k] = g[k]
    BY <1>2, <2>2
  <2>4. f[k + 1] = f[k] + v[k + 1] /\ g[k + 1] = g[k] + u[k + 1] /\ v[k + 1] = u[k + 1]
    BY <2>2 DEF Adds
  <2> QED BY <2>3, <2>4
<1> HIDE DEF S
<1>3. \A k \in Nat : k \in S
  BY <1>1, <1>2, NatSetInduction
<1>4. n \in S /\ n <= n
  BY <1>3
<1> QED BY <1>4 DEF S

\* The total is the last partial sum.
LEMMA TotalIs ==
    ASSUME NEW n \in Nat, NEW v, NEW f, Adds(f, v, n)
    PROVE  Total(v, n) = f[n]
<1>1. \E t : \E g : Adds(g, v, n) /\ t = g[n]
  OBVIOUS
<1>2. \E g : Adds(g, v, n) /\ Total(v, n) = g[n]
  BY <1>1 DEF Total
<1>3. PICK g : Adds(g, v, n) /\ Total(v, n) = g[n]
  BY <1>2
<1>4. f[n] = g[n]
  BY <1>3, AddsUnique
<1> QED BY <1>3, <1>4

\* The total of the same values is the same.
LEMMA TotalSame ==
    ASSUME NEW n \in Nat, NEW v, NEW u, \A i \in 1..n : v[i] \in Nat /\ v[i] = u[i]
    PROVE  Total(v, n) = Total(u, n) /\ Total(v, n) \in Nat
<1>1. PICK f \in [0..n -> Nat] : Adds(f, v, n)
  BY AddsExists
<1>2. Adds(f, u, n)
  BY <1>1 DEF Adds
<1>3. f[n] \in Nat
  BY <1>1
<1> QED BY <1>1, <1>2, <1>3, TotalIs

\* The total with one more value.
LEMMA TotalStep ==
    ASSUME NEW n \in Nat, NEW v, \A i \in 1..(n + 1) : v[i] \in Nat
    PROVE  /\ Total(v, 0) = 0
           /\ Total(v, n) \in Nat /\ Total(v, n + 1) = Total(v, n) + v[n + 1]
<1>1. PICK f \in [0..(n + 1) -> Nat] : Adds(f, v, n + 1)
  <2>1. n + 1 \in Nat
    OBVIOUS
  <2> QED BY <2>1, AddsExists
<1>2. Adds(f, v, n) /\ Adds(f, v, 0)
  <2>1. \A i \in 1..n : i \in 1..(n + 1)
    OBVIOUS
  <2>2. 1..0 = {}
    OBVIOUS
  <2> QED BY <1>1, <2>1, <2>2 DEF Adds
<1>3. n + 1 \in Nat /\ n + 1 \in 1..(n + 1) /\ (n + 1) - 1 = n /\ n \in 0..(n + 1) /\ 0 \in Nat
  OBVIOUS
<1>4. Total(v, n) = f[n] /\ Total(v, n + 1) = f[n + 1] /\ Total(v, 0) = f[0]
  BY <1>1, <1>2, <1>3, TotalIs
<1>5. f[n + 1] = f[n] + v[n + 1] /\ f[0] = 0
  BY <1>1, <1>3 DEF Adds
<1>6. f[n] \in Nat
  BY <1>1, <1>3
<1> QED BY <1>4, <1>5, <1>6

\* v is the n values of a, then the k values of b.
Joined(v, a, b, n, k) ==
    /\ \A i \in 1..n : a[i] \in Nat /\ v[i] = a[i]
    /\ \A i \in 1..k : b[i] \in Nat /\ v[n + i] = b[i]

\* The total over a first part and a rest.
LEMMA TotalSplit ==
    ASSUME NEW n \in Nat, NEW k \in Nat, NEW v, NEW a, NEW b, Joined(v, a, b, n, k)
    PROVE  Total(v, n + k) = Total(a, n) + Total(b, k) /\ Total(a, n) \in Nat /\ Total(b, k) \in Nat
<1>a. \A i \in 1..n : a[i] \in Nat /\ v[i] = a[i]
  BY DEF Joined
<1>b. \A i \in 1..k : b[i] \in Nat /\ v[n + i] = b[i]
  BY DEF Joined
<1> DEFINE S == {j \in Nat : j <= k => Total(v, n + j) = Total(a, n) + Total(b, j) /\ Total(b, j) \in Nat}
<1>0. Total(a, n) = Total(v, n) /\ Total(a, n) \in Nat
  BY <1>a, TotalSame
<1>1. 0 \in S
  <2>1. Adds([i \in 0..0 |-> 0], b, 0)
    BY DEF Adds
  <2>2. Total(b, 0) = 0
    BY <2>1, TotalIs
  <2>3. n + 0 = n
    OBVIOUS
  <2> QED BY <1>0, <2>2, <2>3
<1>2. ASSUME NEW j \in Nat, j \in S PROVE j + 1 \in S
  <2>1. SUFFICES ASSUME j + 1 <= k PROVE Total(v, n + (j + 1)) = Total(a, n) + Total(b, j + 1) /\ Total(b, j + 1) \in Nat
    OBVIOUS
  <2>2. Total(v, n + j) = Total(a, n) + Total(b, j) /\ Total(b, j) \in Nat
    BY <1>2, <2>1
  <2>3. \A i \in 1..(j + 1) : b[i] \in Nat
    BY <2>1, <1>b
  <2>4. \A i \in 1..((n + j) + 1) : v[i] \in Nat
    <3>1. SUFFICES ASSUME NEW i \in 1..((n + j) + 1) PROVE v[i] \in Nat
      OBVIOUS
    <3>2. CASE i \in 1..n
      BY <3>2, <1>a
    <3>3. CASE i \notin 1..n
      <4>1. i - n \in 1..k /\ n + (i - n) = i
        BY <2>1, <3>3
      <4> QED BY <4>1, <1>b
    <3> QED BY <3>2, <3>3
  <2>5. Total(b, j + 1) = Total(b, j) + b[j + 1]
    BY <2>3, TotalStep
  <2>6. Total(v, (n + j) + 1) = Total(v, n + j) + v[(n + j) + 1]
    <3>1. n + j \in Nat
      OBVIOUS
    <3> QED BY <3>1, <2>4, TotalStep
  <2>7. j + 1 \in 1..k /\ n + (j + 1) = (n + j) + 1
    BY <2>1
  <2>8. v[(n + j) + 1] = b[j + 1] /\ b[j + 1] \in Nat
    BY <2>7, <1>b
  <2>9. PICK x \in Nat : x = Total(b, j)
    BY <2>2
  <2>10. PICK y \in Nat : y = Total(a, n)
    BY <1>0
  <2>11. PICK z \in Nat : z = b[j + 1]
    BY <2>8
  <2>12. (y + x) + z = y + (x + z) /\ x + z \in Nat
    OBVIOUS
  <2> QED BY <2>2, <2>5, <2>6, <2>7, <2>8, <2>9, <2>10, <2>11, <2>12
<1> HIDE DEF S
<1>3. \A j \in Nat : j \in S
  BY <1>1, <1>2, NatSetInduction
<1>4. k \in S /\ k <= k
  BY <1>3
<1> QED BY <1>0, <1>4 DEF S

\* f adds up the values of v, as payloadsSize and TotalBytes do.
Sums(f, v, n) == f = [k \in 0..n |-> IF k = 0 THEN 0 ELSE f[k - 1] + v[k]]

\* Such a function exists, and its last value is the total.
LEMMA SumsTotal ==
    ASSUME NEW n \in Nat, NEW v, \A i \in 1..n : v[i] \in Nat
    PROVE  \E f : Sums(f, v, n)
<1>1. PICK f \in [0..n -> Nat] : Adds(f, v, n)
  BY AddsExists
<1>2. f = [i \in 0..n |-> f[i]]
  BY <1>1
<1>3. \A i \in 0..n : f[i] = IF i = 0 THEN 0 ELSE f[i - 1] + v[i]
  <2>1. SUFFICES ASSUME NEW i \in 0..n PROVE f[i] = IF i = 0 THEN 0 ELSE f[i - 1] + v[i]
    OBVIOUS
  <2>2. CASE i = 0
    BY <2>2, <1>1 DEF Adds
  <2>3. CASE i # 0
    <3>1. i \in 1..n
      BY <2>3
    <3> QED BY <2>3, <3>1, <1>1 DEF Adds
  <2> QED BY <2>2, <2>3
<1>4. Sums(f, v, n)
  BY <1>2, <1>3 DEF Sums
<1> QED BY <1>4

\* The last value of a function that adds up v is the total.
LEMMA SumsAre ==
    ASSUME NEW n \in Nat, NEW v, \A i \in 1..n : v[i] \in Nat, NEW g, Sums(g, v, n)
    PROVE  g[n] = Total(v, n) /\ g[n] \in Nat
<1>1. g = [i \in 0..n |-> IF i = 0 THEN 0 ELSE g[i - 1] + v[i]]
  BY DEF Sums
<1>2. g[0] = 0
  BY <1>1
<1>3. ASSUME NEW i \in 1..n PROVE g[i] = g[i - 1] + v[i]
  <2>1. i \in 0..n /\ i # 0
    OBVIOUS
  <2> QED BY <2>1, <1>1
<1>4. Adds(g, v, n)
  BY <1>2, <1>3 DEF Adds
<1> QED BY <1>4, TotalIs, TotalSame

\* The bytes of the messages of a window, and of the entries of a message.
Bytes(w) == [k \in 1..Len(w) |-> w[k].bytes]
Data(es) == [k \in 1..Len(es) |-> es[k].data]

\* TotalBytes adds up the bytes.
LEMMA TotalBytesIs ==
    ASSUME NEW w \in Seq(Items)
    PROVE  Ring!TotalBytes(w) = Total(Bytes(w), Len(w)) /\ Ring!TotalBytes(w) \in Nat
<1>1. PICK n \in Nat : n = Len(w)
  OBVIOUS
<1>2. \A i \in 1..n : Bytes(w)[i] \in Nat /\ Bytes(w)[i] = w[i].bytes
  <2>1. \A i \in 1..n : w[i] \in Items
    BY <1>1
  <2> QED BY <1>1, <2>1 DEF Bytes, Items
<1> DEFINE IsSum(f) == f = [k \in 0..Len(w) |-> IF k = 0 THEN 0 ELSE f[k - 1] + w[k].bytes]
           g == CHOOSE f : IsSum(f)
<1>3. \A f : Sums(f, Bytes(w), n) <=> IsSum(f)
  <2>1. TAKE f
  <2>2. [k \in 0..n |-> IF k = 0 THEN 0 ELSE f[k - 1] + w[k].bytes]
          = [k \in 0..n |-> IF k = 0 THEN 0 ELSE f[k - 1] + Bytes(w)[k]]
    <3>1. SUFFICES ASSUME NEW k \in 0..n, k # 0 PROVE Bytes(w)[k] = w[k].bytes
      OBVIOUS
    <3> QED BY <3>1, <1>2
  <2> QED BY <1>1, <2>2 DEF Sums
<1>4. \E f : IsSum(f)
  BY <1>2, <1>3, SumsTotal
<1>5. IsSum(g)
  BY <1>4
<1>6. Ring!TotalBytes(w) = g[n]
  BY <1>1 DEF Ring!TotalBytes
<1> HIDE DEF g, IsSum
<1>7. Sums(g, Bytes(w), n)
  BY <1>3, <1>5
<1> QED BY <1>1, <1>2, <1>6, <1>7, SumsAre

\* The size of a message is a number.
LEMMA PayloadsSizeType ==
    ASSUME NEW es \in Seq(Ents)
    PROVE  payloadsSize(es) \in Nat
<1>1. PICK n \in Nat : n = Len(es)
  OBVIOUS
<1>2. \A i \in 1..n : Data(es)[i] \in Nat /\ Data(es)[i] = es[i].data
  <2>1. \A i \in 1..n : es[i] \in Ents
    BY <1>1
  <2> QED BY <1>1, <2>1 DEF Data, Ents
<1> DEFINE IsSum(f) == f = [k \in 0..Len(es) |-> IF k = 0 THEN 0 ELSE f[k - 1] + es[k].data]
           g == CHOOSE f : IsSum(f)
<1>3. \A f : Sums(f, Data(es), n) <=> IsSum(f)
  <2>1. TAKE f
  <2>2. [k \in 0..n |-> IF k = 0 THEN 0 ELSE f[k - 1] + es[k].data]
          = [k \in 0..n |-> IF k = 0 THEN 0 ELSE f[k - 1] + Data(es)[k]]
    <3>1. SUFFICES ASSUME NEW k \in 0..n, k # 0 PROVE Data(es)[k] = es[k].data
      OBVIOUS
    <3> QED BY <3>1, <1>2
  <2> QED BY <1>1, <2>2 DEF Sums
<1>4. \E f : IsSum(f)
  BY <1>2, <1>3, SumsTotal
<1>5. IsSum(g)
  BY <1>4
<1>6. payloadsSize(es) = g[n]
  BY <1>1 DEF payloadsSize
<1> HIDE DEF g, IsSum
<1>7. Sums(g, Data(es), n)
  BY <1>3, <1>5
<1> QED BY <1>2, <1>6, <1>7, SumsAre

\* The empty sequence is the one of length 0.
LEMMA EmptySeq ==
    ASSUME NEW S, NEW q \in Seq(S)
    PROVE  q = << >> <=> Len(q) = 0
OBVIOUS

\* The elements of a part of a sequence.
LEMMA SubSeqIs ==
    ASSUME NEW S, NEW a \in Seq(S), NEW i \in Nat, NEW j \in Nat, i > 0, i <= j + 1, j <= Len(a)
    PROVE  /\ SubSeq(a, i, j) \in Seq(S) /\ Len(SubSeq(a, i, j)) = j + 1 - i
           /\ \A k \in 1..(j + 1 - i) : SubSeq(a, i, j)[k] = a[i - 1 + k]
<1>1. j + 1 - i \in Nat
  OBVIOUS
<1>2. \A k \in 1..(j + 1 - i) : SubSeq(a, i, j)[k] = a[i - 1 + k]
  <2>1. \A k \in 1..(j + 1 - i) : i - 1 + k = i + k - 1
    OBVIOUS
  <2>2. \A k \in 1..(j + 1 - i) : SubSeq(a, i, j)[k] = a[i + k - 1]
    BY SMTT(20)
  <2> QED BY <2>1, <2>2
<1>3. Len(SubSeq(a, i, j)) = j + 1 - i
  BY <1>1, SMTT(20)
<1>4. SubSeq(a, i, j) \in Seq(S)
  <2>1. \A k \in 1..(j + 1 - i) : i + k - 1 \in 1..Len(a)
    OBVIOUS
  <2> QED BY <2>1, <1>1, SMTT(20)
<1> QED BY <1>2, <1>3, <1>4

\* The elements of two sequences joined.
LEMMA ConcatIs ==
    ASSUME NEW S, NEW a \in Seq(S), NEW b \in Seq(S)
    PROVE  /\ a \o b \in Seq(S) /\ Len(a \o b) = Len(a) + Len(b)
           /\ \A i \in 1..Len(a) : (a \o b)[i] = a[i]
           /\ \A i \in 1..Len(b) : (a \o b)[Len(a) + i] = b[i]
OBVIOUS

\* The elements of a sequence with one more.
LEMMA AppendIs ==
    ASSUME NEW S, NEW a \in Seq(S), NEW x \in S, NEW n \in Nat, n = Len(a)
    PROVE  /\ Append(a, x) \in Seq(S) /\ Len(Append(a, x)) = n + 1
           /\ \A i \in 1..n : Append(a, x)[i] = a[i]
           /\ Append(a, x)[n + 1] = x
OBVIOUS

\* Sequences with the same elements are the same.
LEMMA SeqsEqual ==
    ASSUME NEW S, NEW a \in Seq(S), NEW b \in Seq(S), Len(a) = Len(b),
           \A i \in 1..Len(a) : a[i] = b[i]
    PROVE  a = b
OBVIOUS

\* A sequence over a set is one over a larger set.
LEMMA SeqMonotone ==
    ASSUME NEW S, NEW T, S \subseteq T, NEW q \in Seq(S)
    PROVE  q \in Seq(T)
OBVIOUS

\* The network's sequence without one of its messages.
LEMMA WithoutType ==
    ASSUME NEW S, NEW q \in Seq(S), NEW k \in 1..Len(q)
    PROVE  Without(q, k) \in Seq(S)
<1>1. PICK n \in Nat : n = Len(q)
  OBVIOUS
<1>2. k - 1 \in Nat /\ k + 1 \in Nat /\ k \in 1..n
  BY <1>1
<1>3. SubSeq(q, 1, k - 1) \in Seq(S)
  <2>1. 1 <= (k - 1) + 1 /\ k - 1 <= Len(q)
    BY <1>1, <1>2
  <2> QED BY <1>2, <2>1, SubSeqIs
<1>4. SubSeq(q, k + 1, Len(q)) \in Seq(S)
  <2>1. k + 1 <= n + 1 /\ n <= Len(q) /\ k + 1 > 0
    BY <1>1, <1>2
  <2> QED BY <1>1, <1>2, <2>1, SubSeqIs
<1> QED BY <1>3, <1>4 DEF Without

\* The first message, and those after it.
LEMMA HeadTailType ==
    ASSUME NEW S, NEW q \in Seq(S), q # << >>
    PROVE  Head(q) \in S /\ Tail(q) \in Seq(S)
OBVIOUS

-----------------------------------------------------------------------------
(* The bytes of a window.                                                  *)

\* No message has no bytes.
LEMMA TotalBytesEmpty == Ring!TotalBytes(<< >>) = 0
<1>1. << >> \in Seq(Items) /\ Len(<< >>) = 0
  OBVIOUS
<1>2. Ring!TotalBytes(<< >>) = Total(Bytes(<< >>), 0)
  BY <1>1, TotalBytesIs
<1>3. Adds([i \in 0..0 |-> 0], Bytes(<< >>), 0)
  <2>1. 1..0 = {}
    OBVIOUS
  <2> QED BY <2>1 DEF Adds
<1>4. Total(Bytes(<< >>), 0) = 0
  BY <1>3, TotalIs
<1> QED BY <1>2, <1>4

\* The bytes of a window with one more message.
LEMMA TotalBytesAppend ==
    ASSUME NEW w \in Seq(Items), NEW x \in Items
    PROVE  Ring!TotalBytes(Append(w, x)) = Ring!TotalBytes(w) + x.bytes
<1>1. PICK n \in Nat : n = Len(w)
  OBVIOUS
<1>2. PICK u : u = Append(w, x)
  OBVIOUS
<1>3. u \in Seq(Items) /\ Len(u) = n + 1 /\ (\A i \in 1..n : u[i] = w[i]) /\ u[n + 1] = x
  BY <1>1, <1>2, AppendIs
<1>4. Ring!TotalBytes(w) = Total(Bytes(w), n) /\ Ring!TotalBytes(u) = Total(Bytes(u), n + 1)
  BY <1>1, <1>3, TotalBytesIs
<1>5. \A i \in 1..(n + 1) : Bytes(u)[i] = u[i].bytes /\ Bytes(u)[i] \in Nat
  <2>1. \A i \in 1..(n + 1) : u[i] \in Items
    BY <1>3
  <2> QED BY <1>3, <2>1 DEF Bytes, Items
<1>6. \A i \in 1..n : Bytes(u)[i] \in Nat /\ Bytes(u)[i] = Bytes(w)[i]
  BY <1>1, <1>3, <1>5 DEF Bytes
<1>7. Total(Bytes(u), n) = Total(Bytes(w), n)
  BY <1>6, TotalSame
<1>8. Total(Bytes(u), n + 1) = Total(Bytes(u), n) + Bytes(u)[n + 1]
  BY <1>5, TotalStep
<1>9. Bytes(u)[n + 1] = x.bytes
  BY <1>3, <1>5
<1> QED BY <1>2, <1>4, <1>7, <1>8, <1>9

\* The bytes of the first n messages and of the others.
LEMMA TotalBytesSplit ==
    ASSUME NEW w \in Seq(Items), NEW n \in Nat, n <= Len(w)
    PROVE  /\ Ring!TotalBytes(SubSeq(w, 1, n)) \in Nat
           /\ Ring!TotalBytes(SubSeq(w, n + 1, Len(w))) \in Nat
           /\ Ring!TotalBytes(w)
                = Ring!TotalBytes(SubSeq(w, 1, n)) + Ring!TotalBytes(SubSeq(w, n + 1, Len(w)))
<1>0. PICK a, b : a = SubSeq(w, 1, n) /\ b = SubSeq(w, n + 1, Len(w))
  OBVIOUS
<1>1. PICK m \in Nat : m = Len(w)
  OBVIOUS
<1>2. PICK k \in Nat : k = m - n
  <2>1. n <= m
    BY <1>1
  <2>2. m - n \in Nat
    BY <2>1
  <2> QED BY <2>2
<1>3. a \in Seq(Items) /\ Len(a) = n /\ \A i \in 1..n : a[i] = w[i]
  <2>1. 1 <= n + 1 /\ n + 1 - 1 = n /\ \A i \in 1..n : 1 - 1 + i = i
    OBVIOUS
  <2>2. 1 \in Nat /\ 1 > 0
    OBVIOUS
  <2>3. /\ a \in Seq(Items) /\ Len(a) = n + 1 - 1
        /\ \A i \in 1..(n + 1 - 1) : a[i] = w[1 - 1 + i]
    BY <1>0, <2>1, <2>2, SubSeqIs
  <2> QED BY <2>1, <2>3
<1>4. b \in Seq(Items) /\ Len(b) = k /\ \A i \in 1..k : b[i] = w[n + i]
  <2>1. n + 1 \in Nat /\ n + 1 > 0 /\ n + 1 <= m + 1 /\ m <= Len(w) /\ m + 1 - (n + 1) = k
    BY <1>1, <1>2
  <2>2. \A i \in 1..k : (n + 1) - 1 + i = n + i
    BY <1>2
  <2>3. /\ b \in Seq(Items) /\ Len(b) = m + 1 - (n + 1)
        /\ \A i \in 1..(m + 1 - (n + 1)) : b[i] = w[(n + 1) - 1 + i]
    BY <1>0, <1>1, <2>1, SubSeqIs
  <2> QED BY <2>1, <2>2, <2>3
<1>5. /\ Ring!TotalBytes(a) = Total(Bytes(a), n) /\ Ring!TotalBytes(b) = Total(Bytes(b), k)
      /\ Ring!TotalBytes(w) = Total(Bytes(w), m)
  BY <1>1, <1>3, <1>4, TotalBytesIs
<1>6. n + k = m
  BY <1>1, <1>2
<1>7. Joined(Bytes(w), Bytes(a), Bytes(b), n, k)
  <2>1. \A i \in 1..n : i \in 1..m /\ a[i] \in Items
    BY <1>1, <1>3
  <2>2. \A i \in 1..k : n + i \in 1..m /\ b[i] \in Items
    <3>1. SUFFICES ASSUME NEW i \in 1..k PROVE n + i \in 1..m /\ b[i] \in Items
      OBVIOUS
    <3>2. n + i \in 1..m
      BY <1>6
    <3>3. b[i] \in Items
      BY <1>4
    <3> QED BY <3>2, <3>3
  <2>3. \A i \in 1..n : Bytes(a)[i] \in Nat /\ Bytes(w)[i] = Bytes(a)[i]
    BY <1>1, <1>3, <2>1 DEF Bytes, Items
  <2>4. \A i \in 1..k : Bytes(b)[i] \in Nat /\ Bytes(w)[n + i] = Bytes(b)[i]
    BY <1>1, <1>4, <2>2 DEF Bytes, Items
  <2> QED BY <2>3, <2>4 DEF Joined
<1>8. /\ Total(Bytes(w), n + k) = Total(Bytes(a), n) + Total(Bytes(b), k)
      /\ Total(Bytes(a), n) \in Nat /\ Total(Bytes(b), k) \in Nat
  BY <1>7, TotalSplit
<1> QED BY <1>0, <1>3, <1>4, <1>5, <1>6, <1>8

-----------------------------------------------------------------------------
(* The ring and the window it holds.                                       *)

\* The types of a ring's fields.
LEMMA RingTypes ==
    ASSUME NEW in \in Rings
    PROVE  /\ in.start \in Nat /\ in.count \in Nat /\ in.bytes \in Nat
           /\ in.buffer \in Seq(Items) /\ Len(in.buffer) \in Nat
BY DEF Rings

\* A rotated position lies within the window's size.
LEMMA RotatedIs ==
    ASSUME NEW in \in Rings, NEW s \in Nat, s = in.start, s < MaxInflight,
           NEW k \in Nat, k <= MaxInflight
    PROVE  /\ Ring!Rotated(in, k) \in Nat /\ Ring!Rotated(in, k) < MaxInflight
           /\ s + k < MaxInflight => Ring!Rotated(in, k) = s + k
           /\ s + k >= MaxInflight => Ring!Rotated(in, k) = s + k - MaxInflight
BY MaxInflightAssumption DEF Ring!Rotated

\* Window reads what the ring holds.
LEMMA HoldsWindow ==
    ASSUME NEW in \in Rings, NEW w \in Seq(Items), Holds(in, w)
    PROVE  Ring!Window(in) = w
<1>1. PICK n \in Nat : n = Len(w)
  OBVIOUS
<1>2. in.count = n /\ \A k \in 1..n : in.buffer[Ring!Rotated(in, k - 1) + 1] = w[k]
  BY <1>1 DEF Holds
<1>3. Ring!Window(in) = [k \in 1..n |-> in.buffer[Ring!Rotated(in, k - 1) + 1]]
  BY <1>2 DEF Ring!Window
<1>4. w = [k \in 1..n |-> w[k]]
  BY <1>1
<1> QED BY <1>2, <1>3, <1>4

\* A new window is empty.
LEMMA NewHolds == Ring!NewInflights \in Rings /\ Holds(Ring!NewInflights, << >>)
<1>1. << >> \in Seq(Items) /\ Len(<< >>) = 0
  OBVIOUS
<1>2. PICK in : in = Ring!NewInflights
  OBVIOUS
<1>3. in.start = 0 /\ in.count = 0 /\ in.bytes = 0 /\ in.buffer = << >>
  BY <1>2 DEF Ring!NewInflights
<1>4. in \in Rings
  BY <1>1, <1>2 DEF Rings, Ring!NewInflights
<1>5. 0 < MaxInflight /\ 0 <= MaxInflight
  BY MaxInflightAssumption
<1>6. Holds(in, << >>)
  BY <1>1, <1>3, <1>5, TotalBytesEmpty DEF Holds
<1> QED BY <1>2, <1>4, <1>6

\* reset empties the window; the ring keeps its length.
LEMMA ResetHolds ==
    ASSUME NEW in \in Rings, NEW w, Holds(in, w)
    PROVE  Ring!reset(in) \in Rings /\ Holds(Ring!reset(in), << >>)
<1>1. << >> \in Seq(Items) /\ Len(<< >>) = 0
  OBVIOUS
<1>2. PICK x : x = Ring!reset(in)
  OBVIOUS
<1>3. x \in Rings /\ x.start = 0 /\ x.count = 0 /\ x.bytes = 0 /\ x.buffer = in.buffer
  BY <1>2 DEF Rings, Ring!reset
<1>4. 0 < MaxInflight /\ 0 <= MaxInflight
  BY MaxInflightAssumption
<1>5. Len(x.buffer) <= MaxInflight
  BY <1>3 DEF Holds
<1>6. Holds(x, << >>)
  BY <1>1, <1>3, <1>4, <1>5, TotalBytesEmpty DEF Holds
<1> QED BY <1>2, <1>3, <1>6

\* A grown buffer holds what it held, and has room for one more message.
LEMMA GrowIs ==
    ASSUME NEW b \in Seq(Items), NEW n \in Nat, n = Len(b), n < MaxInflight,
           NEW g, g = Ring!grow(b)
    PROVE  /\ g \in Seq(Items) /\ Len(g) > n /\ Len(g) <= MaxInflight
           /\ \A k \in 1..n : g[k] = b[k]
<1>1. MaxInflight \in Nat /\ MaxInflight > 0
  BY MaxInflightAssumption
<1>2. PICK m : m = CASE b = << >> -> 1 [] 2 * Len(b) > MaxInflight -> MaxInflight [] OTHER -> 2 * Len(b)
  OBVIOUS
<1>3. b = << >> <=> n = 0
  BY EmptySeq
<1>4. m \in Nat /\ m > n /\ m <= MaxInflight
  <2>1. CASE n = 0
    <3>1. b = << >>
      BY <1>3, <2>1
    <3>2. ~(2 * Len(b) > MaxInflight)
      BY <1>1, <2>1
    <3>3. m = 1
      BY <1>2, <3>1, <3>2
    <3> QED BY <1>1, <2>1, <3>3
  <2>2. CASE n # 0 /\ 2 * n > MaxInflight
    <3>1. b # << >>
      BY <1>3, <2>2
    <3>2. m = MaxInflight
      BY <1>2, <2>2, <3>1
    <3> QED BY <1>1, <3>2
  <2>3. CASE n # 0 /\ ~(2 * n > MaxInflight)
    <3>1. b # << >>
      BY <1>3, <2>3
    <3>2. m = 2 * n
      BY <1>2, <2>3, <3>1
    <3> QED BY <1>1, <2>3, <3>2
  <2> QED BY <2>1, <2>2, <2>3
<1>5. g = [k \in 1..m |-> IF k <= n THEN b[k] ELSE [index |-> 0, bytes |-> 0]]
  BY <1>2 DEF Ring!grow, Ring!inflight
<1>6. [index |-> 0, bytes |-> 0] \in Items
  BY DEF Items
<1>7. \A k \in 1..m : k <= n => b[k] \in Items
  BY <1>4
<1>8. g \in [1..m -> Items]
  BY <1>5, <1>6, <1>7
<1>9. g \in Seq(Items) /\ Len(g) = m
  BY <1>4, <1>8
<1>10. \A k \in 1..n : g[k] = b[k]
  BY <1>4, <1>5
<1> QED BY <1>4, <1>9, <1>10

\* The buffer after a message was put at position p.
Put(x, b, p, y) ==
    /\ x \in Seq(Items) /\ Len(b) <= Len(x) /\ Len(x) <= MaxInflight
    /\ p < Len(x) /\ x[p + 1] = y
    /\ \A k \in 1..Len(b) : k # p + 1 => x[k] = b[k]

\* Add to a window that is not full: the message is put behind the others.
LEMMA AddHolds ==
    ASSUME NEW in \in Rings, NEW w \in Seq(Items), Holds(in, w), ~Ring!Full(in),
           NEW index \in Nat, NEW bytes \in Nat,
           NEW y, y = [index |-> index, bytes |-> bytes], NEW r, r = Ring!Add(in, index, bytes)
    PROVE  r \in Rings /\ Holds(r, Append(w, y))
<1>1. MaxInflight \in Nat /\ MaxInflight > 0
  BY MaxInflightAssumption
<1>2. PICK s \in Nat, c \in Nat, n \in Nat : s = in.start /\ c = in.count /\ n = Len(in.buffer)
  BY RingTypes
<1>3. /\ c = Len(w) /\ in.bytes = Ring!TotalBytes(w)
      /\ s < MaxInflight /\ c <= MaxInflight /\ n <= MaxInflight /\ (c = 0 => s = 0)
  BY <1>2 DEF Holds
<1>4. \A k \in 1..c : /\ Ring!Rotated(in, k - 1) < n
                      /\ in.buffer[Ring!Rotated(in, k - 1) + 1] = w[k]
  BY <1>2, <1>3 DEF Holds
<1>5. c < MaxInflight
  <2>1. c # MaxInflight
    BY <1>2 DEF Ring!Full
  <2> QED BY <1>1, <1>3, <2>1
<1>6. PICK p : p = Ring!Rotated(in, c)
  OBVIOUS
<1>7. /\ p \in Nat /\ p < MaxInflight
      /\ s + c < MaxInflight => p = s + c
      /\ s + c >= MaxInflight => p = s + c - MaxInflight
  BY <1>2, <1>3, <1>6, RotatedIs
<1>8. ASSUME NEW k \in 1..c
      PROVE  /\ Ring!Rotated(in, k - 1) \in Nat /\ Ring!Rotated(in, k - 1) < MaxInflight
             /\ s + (k - 1) < MaxInflight => Ring!Rotated(in, k - 1) = s + (k - 1)
             /\ s + (k - 1) >= MaxInflight => Ring!Rotated(in, k - 1) = s + (k - 1) - MaxInflight
  <2>1. k - 1 \in Nat /\ k - 1 <= MaxInflight
    BY <1>1, <1>3
  <2> QED BY <1>2, <1>3, <2>1, RotatedIs
<1>9. p <= n
  <2>1. CASE c = 0
    <3>1. p = 0
      BY <1>1, <1>3, <1>7, <2>1
    <3> QED BY <3>1, <1>2
  <2>2. CASE c # 0
    <3>1. c \in 1..c
      BY <2>2
    <3>2. Ring!Rotated(in, c - 1) < n
      BY <1>4, <3>1
    <3>3. PICK o \in Nat : o = Ring!Rotated(in, c - 1)
      BY <1>8, <3>1
    <3>4. /\ s + (c - 1) < MaxInflight => o = s + (c - 1)
          /\ s + (c - 1) >= MaxInflight => o = s + (c - 1) - MaxInflight
      BY <1>8, <3>1, <3>3
    <3>5. o < n
      BY <3>2, <3>3
    <3>6. CASE s + c < MaxInflight
      <4>1. p = s + c /\ s + (c - 1) < MaxInflight
        BY <1>7, <3>6, <1>1
      <4> QED BY <4>1, <3>4, <3>5
    <3>7. CASE s + c = MaxInflight
      <4>1. p = 0
        BY <1>7, <3>7, <1>1
      <4> QED BY <4>1
    <3>8. CASE s + c > MaxInflight
      <4>1. p = s + c - MaxInflight /\ s + (c - 1) >= MaxInflight
        BY <1>7, <3>8, <1>1
      <4> QED BY <4>1, <3>4, <3>5, <1>1
    <3> QED BY <3>6, <3>7, <3>8, <1>1
  <2> QED BY <2>1, <2>2
<1>10. PICK b : b = IF p >= n THEN Ring!grow(in.buffer) ELSE in.buffer
  OBVIOUS
<1>11. in.buffer \in Seq(Items)
  BY RingTypes
<1>12. /\ b \in Seq(Items) /\ n <= Len(b) /\ Len(b) <= MaxInflight /\ p < Len(b)
       /\ \A k \in 1..n : b[k] = in.buffer[k]
  <2>1. CASE p >= n
    <3>1. b = Ring!grow(in.buffer) /\ p = n /\ n < MaxInflight
      BY <1>7, <1>9, <1>10, <2>1
    <3>2. /\ b \in Seq(Items) /\ Len(b) > n /\ Len(b) <= MaxInflight
          /\ \A k \in 1..n : b[k] = in.buffer[k]
      BY <1>2, <1>11, <3>1, GrowIs
    <3>3. Len(b) \in Nat
      BY <3>2
    <3> QED BY <3>1, <3>2, <3>3
  <2>2. CASE ~(p >= n)
    <3>1. b = in.buffer /\ p < n
      BY <1>7, <1>10, <2>2
    <3> QED BY <1>2, <1>3, <1>11, <3>1
  <2> QED BY <2>1, <2>2
<1>13. PICK x : x = [b EXCEPT ![p + 1] = y]
  OBVIOUS
<1>14. y \in Items /\ y.index = index /\ y.bytes = bytes
  BY DEF Items
<1>15. Put(x, in.buffer, p, y)
  <2>1. PICK m \in Nat : m = Len(b)
    BY <1>12
  <2>2. p + 1 \in 1..m
    BY <1>7, <1>12, <2>1
  <2>3. x \in Seq(Items) /\ Len(x) = m
    BY <1>12, <1>13, <1>14, <2>1, <2>2
  <2>4. x[p + 1] = y
    BY <1>12, <1>13, <2>1, <2>2
  <2>5. \A k \in 1..n : k # p + 1 => x[k] = in.buffer[k]
    BY <1>12, <1>13, <2>1
  <2> QED BY <1>2, <1>12, <2>1, <2>3, <2>4, <2>5 DEF Put
<1>16. r = [in EXCEPT !.buffer = x, !.count = @ + 1, !.bytes = @ + bytes]
  BY <1>2, <1>6, <1>10, <1>13 DEF Ring!Add, Ring!inflight
<1>17. /\ r \in Rings /\ r.start = s /\ r.count = c + 1 /\ r.buffer = x
       /\ r.bytes = Ring!TotalBytes(w) + bytes
  <2>1. x \in Seq(Items)
    BY <1>15 DEF Put
  <2>2. PICK t \in Nat : t = in.bytes
    BY RingTypes
  <2>3. r.start = s /\ r.count = c + 1 /\ r.buffer = x /\ r.bytes = t + bytes
    BY <1>2, <1>16, <2>2 DEF Rings
  <2>4. r = [start |-> s, count |-> c + 1, bytes |-> t + bytes, buffer |-> x]
    BY <1>2, <1>16, <2>2 DEF Rings
  <2>5. r \in Rings
    BY <2>1, <2>4 DEF Rings
  <2> QED BY <1>3, <2>2, <2>3, <2>5
<1>18. \A k \in Nat : Ring!Rotated(r, k) = Ring!Rotated(in, k)
  BY <1>2, <1>17 DEF Ring!Rotated
<1>19. PICK u : u = Append(w, y)
  OBVIOUS
<1>20. u \in Seq(Items) /\ Len(u) = c + 1 /\ (\A k \in 1..c : u[k] = w[k]) /\ u[c + 1] = y
  BY <1>3, <1>14, <1>19, AppendIs
<1>21. r.bytes = Ring!TotalBytes(u)
  BY <1>14, <1>17, <1>19, TotalBytesAppend
<1>22. ASSUME NEW k \in 1..(c + 1)
       PROVE  Ring!Rotated(r, k - 1) < Len(x) /\ x[Ring!Rotated(r, k - 1) + 1] = u[k]
  <2>0. k - 1 \in Nat
    OBVIOUS
  <2>1. CASE k = c + 1
    <3>1. k - 1 = c
      BY <2>1
    <3>2. Ring!Rotated(r, k - 1) = p
      BY <1>6, <1>18, <2>0, <3>1
    <3> QED BY <1>15, <1>20, <2>1, <3>2 DEF Put
  <2>2. CASE k # c + 1
    <3>1. k \in 1..c
      BY <2>2
    <3>2. PICK o \in Nat : o = Ring!Rotated(in, k - 1)
      BY <1>8, <3>1
    <3>3. /\ s + (k - 1) < MaxInflight => o = s + (k - 1)
          /\ s + (k - 1) >= MaxInflight => o = s + (k - 1) - MaxInflight
      BY <1>8, <3>1, <3>2
    <3>4. o # p
      BY <1>1, <1>3, <1>5, <1>7, <3>1, <3>3
    <3>5. o < n /\ in.buffer[o + 1] = w[k]
      BY <1>4, <3>1, <3>2
    <3>6. o + 1 \in 1..n /\ o + 1 # p + 1
      BY <1>7, <3>4, <3>5
    <3>7. x[o + 1] = w[k] /\ n <= Len(x)
      BY <1>2, <1>15, <3>5, <3>6 DEF Put
    <3>8. o < Len(x)
      <4>1. Len(x) \in Nat
        BY <1>15 DEF Put
      <4> QED BY <4>1, <3>5, <3>7
    <3>9. Ring!Rotated(r, k - 1) = o
      BY <1>18, <2>0, <3>2
    <3> QED BY <1>20, <3>1, <3>7, <3>8, <3>9
  <2> QED BY <2>1, <2>2
<1>23. Holds(r, u)
  <2>1. c + 1 <= MaxInflight /\ c + 1 # 0
    BY <1>1, <1>5
  <2>2. Len(x) <= MaxInflight
    BY <1>15 DEF Put
  <2> QED BY <1>3, <1>17, <1>20, <1>21, <1>22, <2>1, <2>2 DEF Holds
<1> QED BY <1>17, <1>19, <1>23

\* The first n messages of w are those that an ack up to index `to` frees.
Frees(w, to, n) ==
    /\ n \in 0..Len(w) /\ \A k \in 1..n : w[k].index <= to
    /\ n < Len(w) => w[n + 1].index > to

\* The scan of FreeLE ends.
LEMMA FreedIs ==
    ASSUME NEW w \in Seq(Items), NEW to \in Nat
    PROVE  Frees(w, to, Ring!Freed(w, to))
<1>1. PICK m \in Nat : m = Len(w)
  OBVIOUS
<1> DEFINE S == {n \in 0..m : \A k \in 1..n : w[k].index <= to}
<1>2. 0 \in S
  <2>1. 1..0 = {} /\ 0 \in 0..m
    OBVIOUS
  <2> QED BY <2>1
<1>3. S \subseteq Nat /\ S # {} /\ \A n \in S : n <= m
  <2>1. S \subseteq 0..m
    OBVIOUS
  <2> HIDE DEF S
  <2> QED BY <1>2, <2>1
<1>4. PICK n \in S : \A y \in S : y <= n
  <2> HIDE DEF S
  <2> QED BY <1>3, GreatestExists
<1>5. n < m => w[n + 1].index > to
  <2>1. SUFFICES ASSUME n < m, ~(w[n + 1].index > to) PROVE FALSE
    OBVIOUS
  <2>2. n \in Nat /\ n + 1 \in 0..m /\ n + 1 \in 1..m
    BY <1>4, <2>1
  <2>3. w[n + 1].index \in Nat
    <3>1. w[n + 1] \in Items
      BY <1>1, <2>2
    <3> QED BY <3>1 DEF Items
  <2>4. w[n + 1].index <= to
    BY <2>1, <2>3
  <2>5. \A k \in 1..(n + 1) : k \in 1..n \/ k = n + 1
    BY <2>2
  <2>6. n + 1 \in S
    BY <1>4, <2>2, <2>4, <2>5
  <2> QED BY <1>4, <2>2, <2>6
<1>6. /\ n \in 0..Len(w) /\ \A k \in 1..n : w[k].index <= to
      /\ n < Len(w) => w[n + 1].index > to
  BY <1>1, <1>4, <1>5
<1> HIDE DEF S
<1> QED BY <1>6 DEF Ring!Freed, Frees

\* What is left of w without its first n messages.
LEMMA RestIs ==
    ASSUME NEW w \in Seq(Items), NEW m \in Nat, m = Len(w), NEW n \in 0..m,
           NEW v, v = SubSeq(w, n + 1, Len(w))
    PROVE  /\ v \in Seq(Items) /\ Len(v) = m - n /\ m - n \in Nat
           /\ \A k \in 1..(m - n) : v[k] = w[n + k] /\ n + k \in 1..m
<1>1. n + 1 \in Nat /\ n + 1 > 0 /\ n + 1 <= m + 1 /\ m <= Len(w) /\ m + 1 - (n + 1) = m - n /\ m - n \in Nat
  OBVIOUS
<1>2. \A k \in 1..(m - n) : (n + 1) - 1 + k = n + k /\ n + k \in 1..m
  OBVIOUS
<1>3. /\ v \in Seq(Items) /\ Len(v) = m + 1 - (n + 1)
      /\ \A k \in 1..(m + 1 - (n + 1)) : v[k] = w[(n + 1) - 1 + k]
  BY <1>1, SubSeqIs
<1> QED BY <1>1, <1>2, <1>3

\* x is position s moved on by k in a ring of size M.
Moves(x, s, k, M) == (s + k < M => x = s + k) /\ (s + k >= M => x = s + k - M)

\* Moving on by n and then by j is moving on by n + j.
LEMMA MovesTwice ==
    ASSUME NEW M \in Nat, NEW s \in Nat, NEW n \in Nat, NEW j \in Nat, NEW p \in Nat,
           NEW o \in Nat, NEW u \in Nat,
           s < M, n + j < M, Moves(p, s, n, M), Moves(o, p, j, M), Moves(u, s, n + j, M)
    PROVE  o = u
BY DEF Moves

\* FreeLE drops the messages that the ack frees from the front of the ring.
LEMMA FreeHolds ==
    ASSUME NEW in \in Rings, NEW w \in Seq(Items), Holds(in, w), NEW to \in Nat,
           NEW n, n = Ring!Freed(w, to), NEW v, v = SubSeq(w, n + 1, Len(w)),
           NEW r, r = Ring!FreeLE(in, to)
    PROVE  r \in Rings /\ Holds(r, v)
<1>1. MaxInflight \in Nat /\ MaxInflight > 0
  BY MaxInflightAssumption
<1>2. PICK s \in Nat, c \in Nat, b \in Nat : s = in.start /\ c = in.count /\ b = Len(in.buffer)
  BY RingTypes
<1>3. /\ c = Len(w) /\ in.bytes = Ring!TotalBytes(w)
      /\ s < MaxInflight /\ c <= MaxInflight /\ b <= MaxInflight /\ (c = 0 => s = 0)
  BY <1>2 DEF Holds
<1>4. \A k \in 1..c : /\ Ring!Rotated(in, k - 1) < b
                      /\ in.buffer[Ring!Rotated(in, k - 1) + 1] = w[k]
  BY <1>2, <1>3 DEF Holds
<1>5. n \in 0..c /\ n \in Nat
  BY <1>3, FreedIs DEF Frees
<1>6. /\ v \in Seq(Items) /\ Len(v) = c - n /\ c - n \in Nat
      /\ \A k \in 1..(c - n) : v[k] = w[n + k] /\ n + k \in 1..c
  BY <1>3, <1>5, RestIs
<1>7. PICK a : a = SubSeq(w, 1, n)
  OBVIOUS
<1>8. /\ Ring!TotalBytes(a) \in Nat /\ Ring!TotalBytes(v) \in Nat
      /\ Ring!TotalBytes(w) = Ring!TotalBytes(a) + Ring!TotalBytes(v)
  <2>1. n <= Len(w)
    BY <1>3, <1>5
  <2>2. /\ Ring!TotalBytes(SubSeq(w, 1, n)) \in Nat
        /\ Ring!TotalBytes(SubSeq(w, n + 1, Len(w))) \in Nat
        /\ Ring!TotalBytes(w) = Ring!TotalBytes(SubSeq(w, 1, n)) + Ring!TotalBytes(SubSeq(w, n + 1, Len(w)))
    BY <1>5, <2>1, TotalBytesSplit
  <2> QED BY <1>7, <2>2
<1>9. PICK p : p = IF n = c THEN 0 ELSE Ring!Rotated(in, n)
  OBVIOUS
<1>10. /\ Ring!Rotated(in, n) \in Nat /\ Ring!Rotated(in, n) < MaxInflight
       /\ s + n < MaxInflight => Ring!Rotated(in, n) = s + n
       /\ s + n >= MaxInflight => Ring!Rotated(in, n) = s + n - MaxInflight
  <2>1. n <= MaxInflight
    BY <1>1, <1>3, <1>5
  <2> QED BY <1>2, <1>3, <1>5, <2>1, RotatedIs
<1>11. p \in Nat /\ p < MaxInflight
  BY <1>1, <1>9, <1>10
<1>12. r = [in EXCEPT !.count = @ - n, !.bytes = @ - Ring!TotalBytes(a), !.start = p]
  <2>1. Ring!Window(in) = w
    BY HoldsWindow
  <2> QED BY <1>2, <1>7, <1>9, <2>1 DEF Ring!FreeLE
<1>13. /\ r \in Rings /\ r.start = p /\ r.count = c - n /\ r.buffer = in.buffer
       /\ r.bytes = Ring!TotalBytes(v)
  <2>1. PICK t \in Nat, x \in Nat, z \in Nat :
            t = in.bytes /\ x = Ring!TotalBytes(a) /\ z = Ring!TotalBytes(v)
    BY <1>8, RingTypes
  <2>2. t - x = z
    BY <1>3, <1>8, <2>1
  <2>3. r.start = p /\ r.count = c - n /\ r.buffer = in.buffer /\ r.bytes = t - x
    BY <1>2, <1>12, <2>1 DEF Rings
  <2>4. r = [start |-> p, count |-> c - n, bytes |-> t - x, buffer |-> in.buffer]
    BY <1>2, <1>12, <2>1 DEF Rings
  <2>5. in.buffer \in Seq(Items)
    BY RingTypes
  <2>6. r \in Rings
    BY <1>6, <1>11, <2>2, <2>4, <2>5 DEF Rings
  <2> QED BY <2>1, <2>2, <2>3, <2>6
<1>14. ASSUME NEW k \in 1..(c - n)
       PROVE  Ring!Rotated(r, k - 1) < b /\ in.buffer[Ring!Rotated(r, k - 1) + 1] = v[k]
  <2>1. n + k \in 1..c /\ v[k] = w[n + k]
    BY <1>6
  <2>2. k - 1 \in Nat /\ k - 1 <= MaxInflight /\ n # c
    BY <1>1, <1>3, <1>5
  <2>3. PICK o \in Nat : o = Ring!Rotated(r, k - 1)
    BY <1>11, <1>13, <2>2, RotatedIs
  <2>4. /\ p + (k - 1) < MaxInflight => o = p + (k - 1)
        /\ p + (k - 1) >= MaxInflight => o = p + (k - 1) - MaxInflight
    BY <1>11, <1>13, <2>2, <2>3, RotatedIs
  <2>5. (n + k) - 1 \in Nat /\ (n + k) - 1 <= MaxInflight
    BY <1>1, <1>3, <1>5, <2>1
  <2>6. PICK u \in Nat : u = Ring!Rotated(in, (n + k) - 1)
    BY <1>2, <1>3, <2>5, RotatedIs
  <2>7. /\ s + ((n + k) - 1) < MaxInflight => u = s + ((n + k) - 1)
        /\ s + ((n + k) - 1) >= MaxInflight => u = s + ((n + k) - 1) - MaxInflight
    BY <1>2, <1>3, <2>5, <2>6, RotatedIs
  <2>8. /\ s + n < MaxInflight => p = s + n
        /\ s + n >= MaxInflight => p = s + n - MaxInflight
    BY <1>9, <1>10, <2>2
  <2>9. k - 1 < MaxInflight - n /\ s < MaxInflight
    BY <1>1, <1>3, <1>5
  <2>10. o = u
    <3>1. PICK j \in Nat : j = k - 1
      BY <2>2
    <3>2. (n + k) - 1 = n + j /\ n + j < MaxInflight
      <4>1. (n + k) - 1 = n + j
        BY <1>5, <2>1, <3>1
      <4>2. n + j < MaxInflight
        BY <1>5, <2>9, <3>1, MaxInflightAssumption
      <4> QED BY <4>1, <4>2
    <3>3. Moves(o, p, j, MaxInflight)
      BY <2>4, <3>1 DEF Moves
    <3>4. Moves(u, s, n + j, MaxInflight)
      BY <2>7, <3>2 DEF Moves
    <3>5. Moves(p, s, n, MaxInflight)
      BY <2>8 DEF Moves
    <3> QED BY <1>1, <1>3, <1>5, <1>11, <3>2, <3>3, <3>4, <3>5, MovesTwice
  <2>11. u < b /\ in.buffer[u + 1] = w[n + k]
    BY <1>4, <2>1, <2>6
  <2> QED BY <2>1, <2>3, <2>10, <2>11
<1>15. c - n = 0 => p = 0
  <2>1. c - n = 0 => n = c
    BY <1>5
  <2> QED BY <1>9, <2>1
<1>16. c - n <= MaxInflight
  BY <1>1, <1>3, <1>5
<1>17. Holds(r, v)
  BY <1>2, <1>3, <1>6, <1>11, <1>13, <1>14, <1>15, <1>16 DEF Holds
<1> QED BY <1>13, <1>17

\* The indexes of a window.
Indexes(w) == [k \in 1..Len(w) |-> w[k].index]

\* FreeLE of Progress leaves the indexes of what the ring's FreeLE leaves.
LEMMA FreeIndexes ==
    ASSUME NEW w \in Seq(Items), NEW to \in Nat, NEW n, Frees(w, to, n),
           NEW v, v = SubSeq(w, n + 1, Len(w))
    PROVE  FreeLE(Indexes(w), to) = Indexes(v)
<1>1. PICK m \in Nat : m = Len(w)
  OBVIOUS
<1>2. n \in 0..m /\ (\A k \in 1..n : w[k].index <= to) /\ (n < m => w[n + 1].index > to)
  BY <1>1 DEF Frees
<1>3. /\ v \in Seq(Items) /\ Len(v) = m - n /\ m - n \in Nat
      /\ \A k \in 1..(m - n) : v[k] = w[n + k] /\ n + k \in 1..m
  BY <1>1, <1>2, RestIs
<1>4. PICK q : q = Indexes(w)
  OBVIOUS
<1>5. \A k \in 1..m : w[k].index \in Nat
  <2>1. \A k \in 1..m : w[k] \in Items
    BY <1>1
  <2> QED BY <2>1 DEF Items
<1>6. q \in Seq(Nat) /\ Len(q) = m /\ \A k \in 1..m : q[k] = w[k].index
  <2>1. q = [k \in 1..m |-> w[k].index]
    BY <1>1, <1>4 DEF Indexes
  <2>2. q \in [1..m -> Nat]
    BY <1>5, <2>1
  <2> QED BY <2>1, <2>2
<1>7. PICK B : B = {k \in 1..Len(q) : q[k] > to}
  OBVIOUS
<1>8. CASE n = m
  <2>1. B = {}
    <3>1. \A k \in 1..m : ~(q[k] > to)
      <4>1. SUFFICES ASSUME NEW k \in 1..m PROVE ~(q[k] > to)
        OBVIOUS
      <4>2. w[k].index <= to /\ q[k] = w[k].index /\ q[k] \in Nat
        BY <1>2, <1>5, <1>6, <1>8
      <4> QED BY <4>2
    <3> QED BY <1>6, <1>7, <3>1
  <2>2. FreeLE(q, to) = << >>
    BY <1>7, <2>1 DEF FreeLE
  <2>3. Indexes(v) = << >>
    <3>1. Len(v) = 0
      BY <1>3, <1>8
    <3>2. PICK x : x = Indexes(v)
      OBVIOUS
    <3>3. x = [k \in 1..0 |-> v[k].index]
      BY <3>1, <3>2 DEF Indexes
    <3>4. x \in [1..0 -> Nat]
      BY <3>3
    <3>5. x \in Seq(Nat) /\ Len(x) = 0
      BY <3>4
    <3> QED BY <3>2, <3>5, EmptySeq
  <2> QED BY <1>4, <2>2, <2>3
<1>9. CASE n # m
  <2>1. n < m /\ n + 1 \in 1..m
    BY <1>2, <1>9
  <2>2. n + 1 \in B
    BY <1>2, <1>6, <1>7, <2>1
  <2>3. \A j \in B : n + 1 <= j
    <3>1. SUFFICES ASSUME NEW j \in B, ~(n + 1 <= j) PROVE FALSE
      OBVIOUS
    <3>2. j \in 1..m /\ q[j] > to /\ j \in 1..n
      BY <1>2, <1>6, <1>7, <3>1
    <3>3. w[j].index <= to /\ q[j] = w[j].index /\ q[j] \in Nat
      BY <1>2, <1>5, <1>6, <3>2
    <3> QED BY <3>2, <3>3
  <2>4. \A x \in B : (\A j \in B : x <= j) => x = n + 1
    <3>1. SUFFICES ASSUME NEW x \in B, \A j \in B : x <= j PROVE x = n + 1
      OBVIOUS
    <3>2. x \in Nat /\ n + 1 \in Nat /\ x <= n + 1 /\ n + 1 <= x
      BY <1>2, <1>6, <1>7, <2>2, <2>3, <3>1
    <3> QED BY <3>2
  <2>5. (CHOOSE k \in B : \A j \in B : k <= j) = n + 1
    BY <2>2, <2>3, <2>4
  <2>6. FreeLE(q, to) = SubSeq(q, n + 1, m)
    <3>1. B # {}
      BY <2>2
    <3> QED BY <1>6, <1>7, <2>5, <3>1 DEF FreeLE
  <2>7. PICK y : y = SubSeq(q, n + 1, m)
    OBVIOUS
  <2>8. n + 1 \in Nat /\ n + 1 > 0 /\ n + 1 <= m + 1 /\ m <= Len(q) /\ m + 1 - (n + 1) = m - n
    BY <1>2, <1>6
  <2>9. /\ y \in Seq(Nat) /\ Len(y) = m + 1 - (n + 1)
        /\ \A k \in 1..(m + 1 - (n + 1)) : y[k] = q[(n + 1) - 1 + k]
    <3>1. PICK S : S = Nat
      OBVIOUS
    <3>2. q \in Seq(S)
      BY <1>6, <3>1
    <3>3. y \in Seq(S)
      BY <2>7, <2>8, <3>2, SubSeqIs
    <3>4. /\ Len(y) = m + 1 - (n + 1)
          /\ \A k \in 1..(m + 1 - (n + 1)) : y[k] = q[(n + 1) - 1 + k]
      BY <2>7, <2>8, <3>2, SubSeqIs
    <3> QED BY <3>1, <3>3, <3>4
  <2>10. \A k \in 1..(m - n) : y[k] = v[k].index
    <3>1. SUFFICES ASSUME NEW k \in 1..(m - n) PROVE y[k] = v[k].index
      OBVIOUS
    <3>2. (n + 1) - 1 + k = n + k
      BY <1>2
    <3> QED BY <1>3, <1>6, <2>8, <2>9, <3>2
  <2>11. y = [k \in 1..(m - n) |-> y[k]]
    BY <2>8, <2>9
  <2>12. y = Indexes(v)
    BY <1>3, <2>10, <2>11 DEF Indexes
  <2> QED BY <1>4, <2>6, <2>7, <2>12
<1> QED BY <1>8, <1>9

-----------------------------------------------------------------------------
(* Progress and its window.                                                *)

\* The types of the fields of Progress.
LEMMA ProgressTypes ==
    ASSUME NEW p \in ProgressType
    PROVE  /\ p.Match \in Nat /\ p.Next \in Nat /\ p.Next > 0 /\ p.sentCommit \in Nat
           /\ p.State \in ProgressState /\ p.PendingSnapshot \in Nat
           /\ p.RecentActive \in BOOLEAN /\ p.MsgAppFlowPaused \in BOOLEAN
           /\ p.Inflights \in Seq(Nat)
BY DEF ProgressType

\* A Progress that differs from p only in what the window does not depend on.
SameWindow(p, x) ==
    /\ x \in ProgressType /\ x.Match = p.Match /\ x.Next = p.Next /\ x.State = p.State
    /\ x.PendingSnapshot = p.PendingSnapshot /\ x.Inflights = p.Inflights

\* It keeps its window.
LEMMA FlowSame ==
    ASSUME NEW p, NEW in, NEW n, Flow(p, in, n), NEW x, SameWindow(p, x)
    PROVE  Flow(x, in, n)
BY DEF Flow, SameWindow, Within, Outstanding

\* So does one whose leader's log grows.
LEMMA FlowGrow ==
    ASSUME NEW p, NEW in, NEW n \in Nat, Flow(p, in, n), NEW m \in Nat, n <= m
    PROVE  Flow(p, in, m)
<1>1. p \in ProgressType /\ Within(p, n)
  BY DEF Flow
<1>2. Within(p, m)
  BY <1>1, ProgressTypes DEF Within
<1> QED BY <1>2 DEF Flow

\* A Progress without a window.
Windowless(p) ==
    /\ p \in ProgressType /\ p.Inflights = << >>
    /\ p.State = "StateReplicate" => p.Next - 1 = p.Match

\* The empty window has no indexes.
LEMMA NoIndexes == [k \in 1..Len(<< >>) |-> << >>[k].index] = << >>
<1>1. PICK x : x = [k \in 1..Len(<< >>) |-> << >>[k].index]
  OBVIOUS
<1>2. x = [k \in 1..0 |-> << >>[k].index]
  BY <1>1
<1>3. x \in [1..0 -> Nat]
  BY <1>2
<1>4. x \in Seq(Nat) /\ Len(x) = 0
  BY <1>3
<1> QED BY <1>1, <1>4, EmptySeq

\* The empty window is what a windowless Progress has.
LEMMA EmptyOutstanding ==
    ASSUME NEW p, Windowless(p)
    PROVE  Outstanding(p, << >>)
<1>1. Rising(<< >>, p.Match)
  <2>1. 1..Len(<< >>) = {}
    OBVIOUS
  <2> QED BY <2>1 DEF Rising
<1>2. Limited(<< >>)
  BY DEF Limited
<1> QED BY <1>1, <1>2, NoIndexes DEF Outstanding, Windowless

\* When the ring is reset, Progress has to be windowless.
LEMMA FlowReset ==
    ASSUME NEW p, NEW in, NEW n, Flow(p, in, n), NEW x, Windowless(x), NEW m, Within(x, m)
    PROVE  Flow(x, Ring!reset(in), m)
<1>1. in \in Rings /\ \E w \in Seq(Items) : Holds(in, w)
  BY DEF Flow
<1>2. PICK w \in Seq(Items) : Holds(in, w)
  BY <1>1
<1>3. Ring!reset(in) \in Rings /\ Holds(Ring!reset(in), << >>)
  BY <1>1, <1>2, ResetHolds
<1>4. Outstanding(x, << >>)
  BY EmptyOutstanding
<1>5. << >> \in Seq(Items) /\ x \in ProgressType
  BY DEF Windowless
<1> QED BY <1>3, <1>4, <1>5 DEF Flow

\* The indexes of a window are a sequence of numbers.
LEMMA IndexesIs ==
    ASSUME NEW w \in Seq(Items), NEW m \in Nat, m = Len(w)
    PROVE  /\ Indexes(w) \in Seq(Nat) /\ Len(Indexes(w)) = m
           /\ \A k \in 1..m : Indexes(w)[k] = w[k].index /\ w[k].index \in Nat /\ w[k].bytes \in Nat
<1>1. \A k \in 1..m : w[k].index \in Nat /\ w[k].bytes \in Nat
  <2>1. \A k \in 1..m : w[k] \in Items
    OBVIOUS
  <2> QED BY <2>1 DEF Items
<1>2. Indexes(w) = [k \in 1..m |-> w[k].index]
  BY DEF Indexes
<1>3. Indexes(w) \in [1..m -> Nat]
  BY <1>1, <1>2
<1>4. Indexes(w) \in Seq(Nat) /\ Len(Indexes(w)) = m
  BY <1>3
<1> QED BY <1>1, <1>2, <1>4

\* Progress p in StateReplicate after it has sent n entries up to index last.
Pushed(p, x, last, n) ==
    /\ x \in ProgressType /\ x.State = p.State /\ x.Match = p.Match /\ x.Next = p.Next + n
    /\ x.PendingSnapshot = p.PendingSnapshot /\ x.Inflights = p.Inflights \o <<last>>

\* A message that is sent in StateReplicate enters the window.
LEMMA FlowPush ==
    ASSUME NEW p, NEW in, NEW m \in Nat, Flow(p, in, m), p.State = "StateReplicate",
           ~Ring!Full(in),
           NEW n \in Nat, n > 0, p.Next + n <= m + 1, NEW bytes \in Nat,
           NEW last, last = p.Next - 1 + n, NEW x, Pushed(p, x, last, n)
    PROVE  Flow(x, Ring!Add(in, last, bytes), m)
<1>1. p \in ProgressType /\ in \in Rings /\ Within(p, m)
  BY DEF Flow
<1>2. PICK w \in Seq(Items) : Holds(in, w) /\ Outstanding(p, w)
  BY DEF Flow
<1>3. PICK M \in Nat, N \in Nat : M = p.Match /\ N = p.Next
  BY <1>1, ProgressTypes
<1>4. M < N /\ N <= m + 1 /\ p.PendingSnapshot <= m
  BY <1>1, <1>3 DEF Within
<1>5. last \in Nat /\ last = N - 1 + n /\ last > N - 1
  BY <1>3, <1>4
<1>6. PICK y : y = [index |-> last, bytes |-> bytes]
  OBVIOUS
<1>7. y \in Items /\ y.index = last /\ y.bytes = bytes
  BY <1>5, <1>6 DEF Items
<1>8. PICK u : u = Append(w, y)
  OBVIOUS
<1>9. PICK r : r = Ring!Add(in, last, bytes)
  OBVIOUS
<1>10. r \in Rings /\ Holds(r, u)
  BY <1>1, <1>2, <1>5, <1>6, <1>8, <1>9, AddHolds
<1>11. PICK c \in Nat : c = Len(w)
  OBVIOUS
<1>12. u \in Seq(Items) /\ Len(u) = c + 1 /\ (\A k \in 1..c : u[k] = w[k]) /\ u[c + 1] = y
  BY <1>7, <1>8, <1>11, AppendIs
<1>13. /\ p.Inflights = Indexes(w) /\ Rising(w, M) /\ Limited(w)
       /\ N - 1 = IF w = << >> THEN M ELSE w[c].index
  BY <1>2, <1>3, <1>11 DEF Outstanding, Indexes
<1>14. x.Inflights = Indexes(u)
  <2>1. PICK a : a = Indexes(w)
    OBVIOUS
  <2>2. a \in Seq(Nat) /\ Len(a) = c /\ \A k \in 1..c : a[k] = w[k].index
    BY <1>11, <2>1, IndexesIs
  <2>3. PICK d : d = a \o <<last>>
    OBVIOUS
  <2>4. d \in Seq(Nat) /\ Len(d) = c + 1 /\ (\A k \in 1..c : d[k] = a[k]) /\ d[c + 1] = last
    <3>1. PICK S : S = Nat
      OBVIOUS
    <3>2. a \in Seq(S) /\ last \in S
      BY <1>5, <2>2, <3>1
    <3>3. d = Append(a, last)
      BY <2>3, <3>2
    <3>4. d \in Seq(S) /\ Len(d) = c + 1 /\ (\A k \in 1..c : d[k] = a[k]) /\ d[c + 1] = last
      BY <2>2, <3>2, <3>3, AppendIs
    <3> QED BY <3>1, <3>4
  <2>5. PICK e : e = Indexes(u)
    OBVIOUS
  <2>6. e \in Seq(Nat) /\ Len(e) = c + 1 /\ \A k \in 1..(c + 1) : e[k] = u[k].index
    <3>1. c + 1 \in Nat
      OBVIOUS
    <3> QED BY <1>12, <2>5, <3>1, IndexesIs
  <2>7. \A k \in 1..(c + 1) : d[k] = e[k]
    <3>1. SUFFICES ASSUME NEW k \in 1..(c + 1) PROVE d[k] = e[k]
      OBVIOUS
    <3>2. CASE k = c + 1
      BY <1>7, <1>12, <2>4, <2>6, <3>2
    <3>3. CASE k # c + 1
      <4>1. k \in 1..c
        BY <3>3
      <4> QED BY <1>12, <2>2, <2>4, <2>6, <4>1
    <3> QED BY <3>2, <3>3
  <2>8. d = e
    BY <2>4, <2>6, <2>7
  <2> QED BY <1>13, <2>1, <2>3, <2>5, <2>8 DEF Pushed
<1>15. \A k \in 1..c : w[k].index \in Nat /\ w[k].index > M /\ w[k].index <= N - 1
  <2>1. SUFFICES ASSUME NEW k \in 1..c PROVE w[k].index \in Nat /\ w[k].index > M /\ w[k].index <= N - 1
    OBVIOUS
  <2>2. w[k].index \in Nat /\ w[c].index \in Nat /\ c \in 1..c
    BY <1>11, IndexesIs
  <2>3. w[k].index > M /\ (k < c => w[k].index < w[c].index)
    BY <1>11, <1>13, <2>2 DEF Rising
  <2>4. w # << >>
    BY <1>11
  <2>5. N - 1 = w[c].index
    BY <1>13, <2>4
  <2>6. CASE k = c
    BY <2>2, <2>3, <2>5, <2>6
  <2>7. CASE k # c
    <3>1. k < c
      BY <2>7
    <3> QED BY <2>2, <2>3, <2>5, <3>1
  <2> QED BY <2>6, <2>7
<1>16. Rising(u, M)
  <2>1. ASSUME NEW k \in 1..(c + 1) PROVE u[k].index > M
    <3>1. CASE k = c + 1
      BY <1>3, <1>4, <1>5, <1>7, <1>12, <3>1
    <3>2. CASE k # c + 1
      <4>1. k \in 1..c
        BY <3>2
      <4> QED BY <1>12, <1>15, <4>1
    <3> QED BY <3>1, <3>2
  <2>2. ASSUME NEW j \in 1..(c + 1), NEW k \in 1..(c + 1), j < k PROVE u[j].index < u[k].index
    <3>1. j \in 1..c /\ u[j] = w[j]
      BY <1>12, <2>2
    <3>2. w[j].index \in Nat /\ w[j].index <= N - 1
      BY <1>15, <3>1
    <3>3. CASE k = c + 1
      <4>1. u[k].index = last
        BY <1>7, <1>12, <3>3
      <4> QED BY <1>5, <3>1, <3>2, <4>1
    <3>4. CASE k # c + 1
      <4>1. k \in 1..c /\ u[k] = w[k]
        BY <1>12, <3>4
      <4> QED BY <1>11, <1>13, <2>2, <3>1, <4>1 DEF Rising
    <3> QED BY <3>3, <3>4
  <2> QED BY <1>12, <2>1, <2>2 DEF Rising
<1>17. Limited(u)
  <2>1. SUFFICES ASSUME MaxInflightBytes # 0
                 PROVE  Ring!TotalBytes(SubSeq(u, 1, Len(u) - 1)) < MaxInflightBytes
    BY DEF Limited
  <2>2. in.bytes = Ring!TotalBytes(w) /\ in.bytes \in Nat
    BY <1>1, <1>2, RingTypes DEF Holds
  <2>3. in.bytes < MaxInflightBytes
    <3>1. ~(in.bytes >= MaxInflightBytes)
      BY <2>1 DEF Ring!Full
    <3> QED BY <2>2, <3>1, ReplicationAssumption
  <2>4. SubSeq(u, 1, Len(u) - 1) = w
    <3>1. Len(u) - 1 = c
      BY <1>12
    <3>2. PICK v : v = SubSeq(u, 1, c)
      OBVIOUS
    <3>3. 1 \in Nat /\ 1 > 0 /\ 1 <= c + 1 /\ c <= Len(u) /\ c + 1 - 1 = c
      BY <1>12
    <3>4. /\ v \in Seq(Items) /\ Len(v) = c + 1 - 1
          /\ \A k \in 1..(c + 1 - 1) : v[k] = u[1 - 1 + k]
      BY <1>12, <3>2, <3>3, SubSeqIs
    <3>5. \A k \in 1..c : v[k] = w[k]
      <4>1. \A k \in 1..c : 1 - 1 + k = k
        OBVIOUS
      <4> QED BY <1>12, <3>3, <3>4, <4>1
    <3>6. v = w
      BY <1>11, <3>3, <3>4, <3>5, SeqsEqual
    <3> QED BY <3>1, <3>2, <3>6
  <2> QED BY <2>2, <2>3, <2>4
<1>18. Outstanding(x, u)
  <2>1. u # << >> /\ u[Len(u)].index = last
    BY <1>7, <1>12
  <2>2. x.Next - 1 = last /\ x.Match = M /\ x.State = "StateReplicate"
    BY <1>3, <1>5 DEF Pushed
  <2>3. x.Inflights = [k \in 1..Len(u) |-> u[k].index]
    BY <1>14 DEF Indexes
  <2> QED BY <1>16, <1>17, <2>1, <2>2, <2>3 DEF Outstanding
<1>19. x \in ProgressType /\ Within(x, m)
  BY <1>3, <1>4 DEF Pushed, Within
<1> QED BY <1>9, <1>10, <1>12, <1>18, <1>19 DEF Flow

\* The first n elements of a sequence.
LEMMA PrefixIs ==
    ASSUME NEW S, NEW a \in Seq(S), NEW n \in Nat, n <= Len(a)
    PROVE  /\ SubSeq(a, 1, n) \in Seq(S) /\ Len(SubSeq(a, 1, n)) = n
           /\ \A k \in 1..n : SubSeq(a, 1, n)[k] = a[k]
<1>1. PICK v : v = SubSeq(a, 1, n)
  OBVIOUS
<1>2. 1 \in Nat /\ 1 > 0 /\ 1 <= n + 1 /\ n + 1 - 1 = n
  OBVIOUS
<1>3. /\ v \in Seq(S) /\ Len(v) = n + 1 - 1
      /\ \A k \in 1..(n + 1 - 1) : v[k] = a[1 - 1 + k]
  BY <1>1, <1>2, SubSeqIs
<1>4. \A k \in 1..n : 1 - 1 + k = k
  OBVIOUS
<1>5. \A k \in 1..n : v[k] = a[k]
  BY <1>2, <1>3, <1>4
<1> QED BY <1>1, <1>2, <1>3, <1>5

\* A window that loses its first messages stays within the limit on bytes.
LEMMA LimitedRest ==
    ASSUME NEW w \in Seq(Items), Limited(w), NEW c \in Nat, c = Len(w), NEW n \in 0..c,
           NEW v, v = SubSeq(w, n + 1, Len(w))
    PROVE  Limited(v)
<1>1. /\ v \in Seq(Items) /\ Len(v) = c - n /\ c - n \in Nat
      /\ \A k \in 1..(c - n) : v[k] = w[n + k] /\ n + k \in 1..c
  BY RestIs
<1>2. SUFFICES ASSUME v # << >>, MaxInflightBytes # 0
               PROVE  Ring!TotalBytes(SubSeq(v, 1, Len(v) - 1)) < MaxInflightBytes
  BY DEF Limited
<1>3. n < c /\ n \in Nat /\ c - 1 \in Nat /\ n <= c - 1 /\ c - 1 <= Len(w)
  <2>1. c - n # 0
    BY <1>1, <1>2, EmptySeq
  <2> QED BY <2>1
<1>4. Ring!TotalBytes(SubSeq(w, 1, c - 1)) < MaxInflightBytes
  <2>1. w # << >>
    BY <1>3
  <2> QED BY <1>2, <2>1 DEF Limited
<1>5. PICK a : a = SubSeq(w, 1, c - 1)
  OBVIOUS
<1>6. PICK b \in Nat : b = c - 1
  BY <1>3
<1>7. a \in Seq(Items) /\ Len(a) = b /\ \A k \in 1..b : a[k] = w[k]
  BY <1>3, <1>5, <1>6, PrefixIs
<1>8. n <= b
  BY <1>3, <1>6
<1>9. PICK d : d = SubSeq(a, n + 1, Len(a))
  OBVIOUS
<1>10. /\ Ring!TotalBytes(SubSeq(a, 1, n)) \in Nat /\ Ring!TotalBytes(d) \in Nat
       /\ Ring!TotalBytes(a) = Ring!TotalBytes(SubSeq(a, 1, n)) + Ring!TotalBytes(d)
  BY <1>3, <1>7, <1>8, <1>9, TotalBytesSplit
<1>11. /\ d \in Seq(Items) /\ Len(d) = b - n /\ b - n \in Nat
       /\ \A k \in 1..(b - n) : d[k] = a[n + k] /\ n + k \in 1..b
  <2>1. n \in 0..b
    BY <1>3, <1>8
  <2> QED BY <1>7, <1>9, <2>1, RestIs
<1>12. Len(v) - 1 = b - n
  BY <1>1, <1>3, <1>6
<1>13. PICK e : e = SubSeq(v, 1, b - n)
  OBVIOUS
<1>14. e \in Seq(Items) /\ Len(e) = b - n /\ \A k \in 1..(b - n) : e[k] = v[k]
  <2>1. b - n <= Len(v)
    BY <1>1, <1>3, <1>6
  <2> QED BY <1>1, <1>11, <1>13, <2>1, PrefixIs
<1>15. \A k \in 1..(b - n) : e[k] = d[k]
  <2>1. SUFFICES ASSUME NEW k \in 1..(b - n) PROVE e[k] = d[k]
    OBVIOUS
  <2>2. k \in 1..(c - n)
    BY <1>3, <1>6, <1>11
  <2>3. e[k] = w[n + k]
    BY <1>1, <1>14, <2>2
  <2>4. d[k] = w[n + k]
    BY <1>7, <1>11
  <2> QED BY <2>3, <2>4
<1>16. e = d
  BY <1>11, <1>14, <1>15, SeqsEqual
<1>17. Ring!TotalBytes(d) < MaxInflightBytes
  <2>1. PICK x \in Nat, y \in Nat, z \in Nat :
            x = MaxInflightBytes /\ y = Ring!TotalBytes(d) /\ z = Ring!TotalBytes(SubSeq(a, 1, n))
    BY <1>10, ReplicationAssumption
  <2>2. z + y < x
    BY <1>4, <1>5, <1>10, <2>1
  <2> QED BY <2>1, <2>2
<1> QED BY <1>12, <1>13, <1>16, <1>17

\* Progress p in StateReplicate after an ack up to index `to` that is news.
Popped(p, x, to) ==
    /\ x \in ProgressType /\ x.State = p.State /\ x.Match = to
    /\ x.Next = Greatest(p.Next, to + 1)
    /\ x.PendingSnapshot = p.PendingSnapshot /\ x.Inflights = FreeLE(p.Inflights, to)

\* An ack that is news frees what it covers: the window begins beyond it.
LEMMA FlowPop ==
    ASSUME NEW p, NEW in, NEW m \in Nat, Flow(p, in, m), p.State = "StateReplicate",
           NEW to \in Nat, to > p.Match, to <= m, NEW x, Popped(p, x, to)
    PROVE  Flow(x, Ring!FreeLE(in, to), m)
<1>1. p \in ProgressType /\ in \in Rings /\ Within(p, m)
  BY DEF Flow
<1>2. PICK w \in Seq(Items) : Holds(in, w) /\ Outstanding(p, w)
  BY DEF Flow
<1>3. PICK M \in Nat, N \in Nat : M = p.Match /\ N = p.Next
  BY <1>1, ProgressTypes
<1>4. M < N /\ N <= m + 1 /\ p.PendingSnapshot <= m
  BY <1>1, <1>3 DEF Within
<1>5. PICK c \in Nat : c = Len(w)
  OBVIOUS
<1>6. PICK n : n = Ring!Freed(w, to)
  OBVIOUS
<1>7. Frees(w, to, n)
  BY <1>6, FreedIs
<1>8. n \in 0..c /\ (\A k \in 1..n : w[k].index <= to) /\ (n < c => w[n + 1].index > to)
  BY <1>5, <1>7 DEF Frees
<1>9. PICK v : v = SubSeq(w, n + 1, Len(w))
  OBVIOUS
<1>10. /\ v \in Seq(Items) /\ Len(v) = c - n /\ c - n \in Nat
       /\ \A k \in 1..(c - n) : v[k] = w[n + k] /\ n + k \in 1..c
  BY <1>5, <1>8, <1>9, RestIs
<1>11. PICK r : r = Ring!FreeLE(in, to)
  OBVIOUS
<1>12. r \in Rings /\ Holds(r, v)
  BY <1>1, <1>2, <1>6, <1>9, <1>11, FreeHolds
<1>13. /\ p.Inflights = Indexes(w) /\ Rising(w, M) /\ Limited(w)
       /\ N - 1 = IF w = << >> THEN M ELSE w[c].index
  BY <1>2, <1>3, <1>5 DEF Outstanding, Indexes
<1>14. x.Inflights = Indexes(v)
  <2>1. FreeLE(Indexes(w), to) = Indexes(v)
    BY <1>7, <1>9, FreeIndexes
  <2> QED BY <1>13, <2>1, Zenon DEF Popped
<1>15. Limited(v)
  BY <1>5, <1>8, <1>9, <1>13, LimitedRest
<1>16. \A k \in 1..c : w[k].index \in Nat
  BY <1>5, IndexesIs
<1>17. \A j, k \in 1..c : j < k => w[j].index < w[k].index
  BY <1>5, <1>13 DEF Rising
<1>18. Rising(v, to)
  <2>1. ASSUME NEW k \in 1..(c - n) PROVE v[k].index > to
    <3>1. n + k \in 1..c /\ v[k] = w[n + k] /\ n < c /\ n + 1 \in 1..c /\ n + 1 <= n + k
      BY <1>8, <1>10
    <3>2. w[n + 1].index > to /\ w[n + 1].index \in Nat /\ w[n + k].index \in Nat
      BY <1>8, <1>16, <3>1
    <3>3. CASE k = 1
      BY <3>1, <3>2, <3>3
    <3>4. CASE k # 1
      <4>1. n + 1 < n + k
        BY <1>8, <3>4
      <4>2. w[n + 1].index < w[n + k].index
        BY <1>17, <3>1, <4>1
      <4> QED BY <3>1, <3>2, <4>2
    <3> QED BY <3>3, <3>4
  <2>2. ASSUME NEW j \in 1..(c - n), NEW k \in 1..(c - n), j < k PROVE v[j].index < v[k].index
    <3>1. n + j \in 1..c /\ n + k \in 1..c /\ v[j] = w[n + j] /\ v[k] = w[n + k]
      BY <1>10
    <3>2. n + j < n + k
      BY <1>8, <2>2
    <3> QED BY <1>17, <3>1, <3>2
  <2> QED BY <1>10, <2>1, <2>2 DEF Rising
<1>19. x.Next = IF N > to + 1 THEN N ELSE to + 1
  BY <1>3 DEF Popped, Greatest
<1>20. x.Next - 1 = IF v = << >> THEN to ELSE v[Len(v)].index
  <2>1. CASE n = c
    <3>1. v = << >>
      <4>1. Len(v) = 0
        BY <1>10, <2>1
      <4> QED BY <1>10, <4>1, EmptySeq
    <3>2. N - 1 <= to
      <4>1. CASE w = << >>
        BY <1>3, <1>13, <4>1
      <4>2. CASE w # << >>
        <5>1. c \in 1..c
          BY <1>5, <4>2, EmptySeq
        <5>2. w[c].index <= to
          BY <1>8, <2>1, <5>1
        <5> QED BY <1>13, <4>2, <5>2
      <4> QED BY <4>1, <4>2
    <3> QED BY <1>19, <3>1, <3>2
  <2>2. CASE n # c
    <3>1. c - n \in 1..(c - n) /\ c \in 1..c /\ n + (c - n) = c
      BY <1>8, <2>2
    <3>2. v # << >> /\ w # << >>
      BY <1>5, <1>10, <3>1
    <3>3. v[Len(v)] = w[c]
      BY <1>10, <3>1
    <3>4. w[c].index > to /\ w[c].index \in Nat
      <4>1. v[c - n].index > to
        BY <1>10, <1>18, <3>1 DEF Rising
      <4> QED BY <1>10, <1>16, <3>1, <3>3, <4>1
    <3>5. N - 1 = w[c].index
      BY <1>13, <3>2
    <3>6. N - 1 > to
      BY <3>4, <3>5
    <3>7. x.Next = N
      <4>1. N > to + 1
        BY <3>6
      <4> QED BY <1>19, <4>1
    <3> QED BY <3>2, <3>3, <3>5, <3>7
  <2> QED BY <2>1, <2>2
<1>21. Outstanding(x, v)
  <2>1. x.Match = to /\ x.State = "StateReplicate"
    BY DEF Popped
  <2>2. x.Inflights = [k \in 1..Len(v) |-> v[k].index]
    BY <1>14 DEF Indexes
  <2> QED BY <1>15, <1>18, <1>20, <2>1, <2>2 DEF Outstanding
<1>22. x \in ProgressType /\ Within(x, m)
  <2>1. x \in ProgressType /\ x.Match = to /\ x.PendingSnapshot = p.PendingSnapshot
    BY DEF Popped
  <2>2. to < x.Next /\ x.Next <= m + 1
    BY <1>4, <1>19
  <2> QED BY <1>4, <2>1, <2>2 DEF Within
<1> QED BY <1>10, <1>11, <1>12, <1>21, <1>22 DEF Flow

-----------------------------------------------------------------------------
(* Sending.                                                                *)

\* limitSize returns the first entries of its argument.
LEMMA LimitSizeIs ==
    ASSUME NEW es \in Seq(Ents)
    PROVE  \E m \in 0..Len(es) : limitSize(es) = SubSeq(es, 1, m)
<1>1. PICK n \in Nat : n = Len(es)
  OBVIOUS
<1>2. PICK F : F = {i \in 1..Len(es) : i = 1 \/ entsSize(SubSeq(es, 1, i)) <= MaxSizePerMsg}
  OBVIOUS
<1>3. F \subseteq 1..n
  BY <1>1, <1>2
<1>4. IsFiniteSet(1..n) /\ Cardinality(1..n) = n
  <2>1. 1 \in Int /\ n \in Int
    OBVIOUS
  <2>2. IsFiniteSet(1..n) /\ Cardinality(1..n) = IF 1 > n THEN 0 ELSE n - 1 + 1
    BY <2>1, FS_Interval
  <2> QED BY <2>2
<1>5. IsFiniteSet(F) /\ Cardinality(F) <= Cardinality(1..n)
  BY <1>3, <1>4, FS_Subset
<1>6. Cardinality(F) \in Nat
  BY <1>5, FS_CardinalityType
<1>7. Cardinality(F) \in 0..n
  BY <1>4, <1>5, <1>6
<1>8. limitSize(es) = SubSeq(es, 1, Cardinality(F))
  BY <1>2 DEF limitSize
<1> QED BY <1>1, <1>7, <1>8

\* The types of the leader's fields.
LEMMA LeadTypes ==
    ASSUME NEW l, LeadOK(l)
    PROVE  /\ l.log \in Logs /\ l.log.ents \in Seq(Ents) /\ Len(l.log.ents) \in Nat
           /\ l.log.first \in Nat /\ l.log.first > 0 /\ l.log.committed \in Nat /\ l.snapshot \in Nat /\ l.peer \in Nat
           /\ l.log.first <= l.snapshot + 1 /\ l.snapshot <= l.log.committed
           /\ l.log.committed <= Len(l.log.ents)
BY DEF LeadOK, Leaders, Logs

\* The term at an index of a log is a number.
LEMMA TermAtType ==
    ASSUME NEW L \in Seq(Ents), NEW i \in Nat, i <= Len(L)
    PROVE  TermAt(L, i) \in Nat
<1>1. CASE i = 0
  BY <1>1 DEF TermAt
<1>2. CASE i # 0
  <2>1. L[i] \in Ents
    BY <1>2
  <2> QED BY <1>2, <2>1 DEF TermAt, Ents
<1> QED BY <1>1, <1>2

\* The entries that a MsgApp carries.
Carried(l, s) ==
    IF s.pr.State = "StateReplicate" /\ Ring!Full(s.ring) THEN << >>
    ELSE limitSize(SubSeq(l.log.ents, s.pr.Next, lastIndex(l.log)))

\* The messages that maybeSendAppend sends.
AppMsg(l, s, es) ==
    [type |-> "MsgApp", index |-> s.pr.Next - 1, logTerm |-> TermAt(l.log.ents, s.pr.Next - 1),
     entries |-> es, commit |-> l.log.committed]
SnapMsg(l) == [type |-> "MsgSnap", snapshot |-> SubSeq(l.log.ents, 1, l.snapshot)]

\* What it leaves of the ring and of Progress when it sends entries es.
RingAfter(s, es) ==
    IF Len(es) > 0 /\ s.pr.State = "StateReplicate"
    THEN Ring!Add(s.ring, s.pr.Next - 1 + Len(es), payloadsSize(es)) ELSE s.ring
SentProgress(l, s, es) ==
    SentCommit(SentEntries(s.pr, Len(es), IF Len(es) > 0 THEN <<s.pr.Next - 1 + Len(es)>> ELSE << >>),
               l.log.committed)
ProgressAfter(l, s, es) ==
    IF s.pr.State = "StateReplicate"
    THEN [SentProgress(l, s, es) EXCEPT !.MsgAppFlowPaused = Ring!Full(RingAfter(s, es))]
    ELSE SentProgress(l, s, es)

AfterApp(l, s, es) ==
    [pr |-> ProgressAfter(l, s, es), ring |-> RingAfter(s, es), out |-> Append(s.out, AppMsg(l, s, es))]
AfterSnap(l, s) ==
    [pr |-> BecomeSnapshot(s.pr, l.snapshot), ring |-> Ring!reset(s.ring), out |-> Append(s.out, SnapMsg(l))]

\* maybeSendAppend sends nothing, a MsgApp or a MsgSnap.
LEMMA MaybeSendCases ==
    ASSUME NEW l, NEW s, NEW b \in BOOLEAN, NEW x, x = maybeSendAppend(l, s, b)
    PROVE  \/ x = s
           \/ HasTerm(l.log, s.pr.Next - 1) /\ x = AfterApp(l, s, Carried(l, s))
           \/ ~HasTerm(l.log, s.pr.Next - 1) /\ x = AfterSnap(l, s)
<1>1. x = IF IsPaused(s.pr) THEN s
          ELSE IF HasTerm(l.log, s.pr.Next - 1) THEN
              IF Len(Carried(l, s)) = 0 /\ ~b THEN s ELSE AfterApp(l, s, Carried(l, s))
          ELSE IF ~s.pr.RecentActive THEN s
          ELSE AfterSnap(l, s)
  BY Zenon DEF maybeSendAppend, AfterApp, AfterSnap, Carried, AppMsg, SnapMsg, RingAfter, SentProgress, ProgressAfter
<1> QED BY <1>1, Zenon

\* What is sent so far: Progress and ring keep the window, Match stays M, and the
\* messages are true.
SendOK(l, f, M, s) ==
    /\ Flow(s.pr, s.ring, Len(l.log.ents)) /\ s.pr.Match = M
    /\ s.out \in Seq(TrueToFollower(f, l.log.ents))

\* The entries carried are the leader's, from Next on.
LEMMA CarriedIs ==
    ASSUME NEW l, LeadOK(l), NEW s, s.pr \in ProgressType, s.pr.Next <= Len(l.log.ents) + 1,
           NEW es, es = Carried(l, s)
    PROVE  /\ es \in Seq(Ents) /\ PartOf(es, s.pr.Next, l.log.ents)
           /\ s.pr.State = "StateReplicate" /\ Len(es) > 0 => ~Ring!Full(s.ring)
<1>1. PICK L : L = l.log.ents
  OBVIOUS
<1>2. PICK n \in Nat : n = Len(L)
  BY <1>1, LeadTypes
<1>3. L \in Seq(Ents)
  BY <1>1, LeadTypes
<1>4. PICK N \in Nat : N = s.pr.Next
  BY ProgressTypes
<1>5. N > 0 /\ N <= n + 1
  BY <1>1, <1>2, <1>4, ProgressTypes
<1>6. CASE s.pr.State = "StateReplicate" /\ Ring!Full(s.ring)
  <2>1. es = << >>
    BY <1>6 DEF Carried
  <2>2. es \in Seq(Ents) /\ Len(es) = 0 /\ 1..0 = {}
    BY <2>1
  <2>3. PartOf(es, N, L)
    BY <1>2, <1>5, <2>2 DEF PartOf
  <2> QED BY <1>1, <1>4, <2>2, <2>3
<1>7. CASE ~(s.pr.State = "StateReplicate" /\ Ring!Full(s.ring))
  <2>1. PICK t : t = SubSeq(L, N, n)
    OBVIOUS
  <2>2. es = limitSize(t)
    BY <1>1, <1>2, <1>4, <1>7, <2>1 DEF Carried, lastIndex
  <2>3. PICK c \in Nat : c = n + 1 - N
    BY <1>5
  <2>4. t \in Seq(Ents) /\ Len(t) = c /\ \A k \in 1..c : t[k] = L[N - 1 + k]
    <3>1. n <= Len(L)
      BY <1>2
    <3>2. /\ t \in Seq(Ents) /\ Len(t) = n + 1 - N
          /\ \A k \in 1..(n + 1 - N) : t[k] = L[N - 1 + k]
      BY <1>3, <1>5, <2>1, <3>1, SubSeqIs
    <3> QED BY <2>3, <3>2
  <2>5. PICK m \in 0..c : es = SubSeq(t, 1, m)
    BY <2>2, <2>4, LimitSizeIs
  <2>6. m \in Nat /\ m <= Len(t)
    BY <2>4, <2>5
  <2>7. es \in Seq(Ents) /\ Len(es) = m /\ \A k \in 1..m : es[k] = t[k]
    BY <2>4, <2>5, <2>6, PrefixIs
  <2>8. \A k \in 1..m : es[k] = L[N - 1 + k]
    <3>1. \A k \in 1..m : k \in 1..c
      BY <2>5
    <3> QED BY <2>4, <2>7, <3>1
  <2>9. N + m <= n + 1
    BY <1>5, <2>3, <2>5
  <2>10. PartOf(es, N, L)
    BY <1>2, <2>7, <2>8, <2>9 DEF PartOf
  <2> QED BY <1>1, <1>4, <1>7, <2>7, <2>10
<1> QED BY <1>6, <1>7

\* A MsgApp with them is true.
LEMMA AppMsgTrue ==
    ASSUME NEW l, LeadOK(l), NEW f, NEW s, s.pr \in ProgressType,
           s.pr.Next <= Len(l.log.ents) + 1,
           NEW es \in Seq(Ents), PartOf(es, s.pr.Next, l.log.ents)
    PROVE  AppMsg(l, s, es) \in TrueToFollower(f, l.log.ents)
<1>1. PICK N \in Nat, c \in Nat, L \in Seq(Ents) : N = s.pr.Next /\ c = l.log.committed /\ L = l.log.ents
  BY ProgressTypes, LeadTypes
<1>2. N > 0 /\ N <= Len(L) + 1 /\ N - 1 \in Nat /\ N - 1 <= Len(L) /\ (N - 1) + 1 = N
  BY <1>1, ProgressTypes
<1>3. TermAt(L, N - 1) \in Nat
  BY <1>2, TermAtType
<1>4. PICK m : m = AppMsg(l, s, es)
  OBVIOUS
<1>5. m = [type |-> "MsgApp", index |-> N - 1, logTerm |-> TermAt(L, N - 1), entries |-> es, commit |-> c]
  BY <1>1, <1>4 DEF AppMsg
<1>6. m \in [type : {"MsgApp"}, index : Nat, logTerm : Nat, entries : Seq(Ents), commit : Nat]
  BY <1>2, <1>3, <1>5
<1>7. /\ m.type = "MsgApp" /\ m.index = N - 1 /\ m.logTerm = TermAt(L, N - 1) /\ m.entries = es
  BY <1>5
<1>8. TrueApp(m, L)
  BY <1>1, <1>2, <1>7 DEF TrueApp
<1>9. m \in ToFollower
  BY <1>6 DEF ToFollower
<1> QED BY <1>1, <1>4, <1>7, <1>8, <1>9 DEF TrueToFollower

\* So is a MsgSnap.
LEMMA SnapMsgTrue ==
    ASSUME NEW l, LeadOK(l), NEW f
    PROVE  SnapMsg(l) \in TrueToFollower(f, l.log.ents)
<1>1. PICK n \in Nat, L \in Seq(Ents) : n = l.snapshot /\ L = l.log.ents
  BY LeadTypes
<1>2. n <= Len(L)
  BY <1>1, LeadTypes
<1>3. PICK t : t = SubSeq(L, 1, n)
  OBVIOUS
<1>4. t \in Seq(Ents) /\ Len(t) = n /\ \A k \in 1..n : t[k] = L[k]
  BY <1>2, <1>3, PrefixIs
<1>5. PartOf(t, 1, L)
  <2>1. 1 + n <= Len(L) + 1 /\ \A k \in 1..n : 1 - 1 + k = k
    BY <1>2
  <2> QED BY <1>4, <2>1 DEF PartOf
<1>6. PICK m : m = SnapMsg(l)
  OBVIOUS
<1>7. m = [type |-> "MsgSnap", snapshot |-> t]
  BY <1>1, <1>3, <1>6 DEF SnapMsg
<1>8. m \in ToFollower /\ m.type = "MsgSnap" /\ m.snapshot = t
  BY <1>4, <1>7 DEF ToFollower
<1> QED BY <1>1, <1>5, <1>6, <1>8 DEF TrueToFollower

\* Progress after a MsgApp without entries, or one that probes.
LEMMA SentKeepsWindow ==
    ASSUME NEW l, LeadOK(l), NEW s, s.pr \in ProgressType, NEW es \in Seq(Ents),
           Len(es) = 0 \/ s.pr.State # "StateReplicate"
    PROVE  SameWindow(s.pr, ProgressAfter(l, s, es)) /\ RingAfter(s, es) = s.ring
<1>1. PICK p \in ProgressType, c \in Nat, n \in Nat : p = s.pr /\ c = l.log.committed /\ n = Len(es)
  BY LeadTypes
<1>2. RingAfter(s, es) = s.ring
  BY <1>1 DEF RingAfter
<1>3. CASE p.State = "StateReplicate"
  <2>1. n = 0 /\ ~(n > 0)
    BY <1>1, <1>3
  <2>2. PICK b \in BOOLEAN : b = Ring!Full(RingAfter(s, es))
    BY DEF Ring!Full
  <2>3. PICK d \in BOOLEAN : d = Full(p.Inflights \o << >>)
    BY DEF Full
  <2>4. p.Inflights \in Seq(Nat) /\ p.Inflights \o << >> = p.Inflights /\ p.Next + 0 = p.Next
    BY ProgressTypes
  <2>5. SentProgress(l, s, es)
          = [[p EXCEPT !.Next = @ + n, !.Inflights = @ \o << >>, !.MsgAppFlowPaused = d]
                EXCEPT !.sentCommit = c]
    BY <1>1, <1>3, <2>1, <2>3 DEF SentProgress, SentCommit, SentEntries
  <2>6. PICK y : y = SentProgress(l, s, es)
    OBVIOUS
  <2>7. /\ y \in ProgressType /\ y.Match = p.Match /\ y.Next = p.Next /\ y.State = p.State
        /\ y.PendingSnapshot = p.PendingSnapshot /\ y.Inflights = p.Inflights
    <3>1. y = [p EXCEPT !.MsgAppFlowPaused = d, !.sentCommit = c]
      BY <2>1, <2>4, <2>5, <2>6 DEF ProgressType
    <3> QED BY <3>1 DEF ProgressType
  <2>8. ProgressAfter(l, s, es) = [y EXCEPT !.MsgAppFlowPaused = b]
    BY <1>1, <1>3, <2>2, <2>6 DEF ProgressAfter
  <2>9. SameWindow(p, [y EXCEPT !.MsgAppFlowPaused = b])
    BY <2>7 DEF SameWindow, ProgressType
  <2> QED BY <1>1, <1>2, <2>8, <2>9
<1>4. CASE p.State # "StateReplicate"
  <2>1. PICK b \in BOOLEAN : b = (p.MsgAppFlowPaused \/ n > 0)
    OBVIOUS
  <2>2. SentProgress(l, s, es) = [[p EXCEPT !.MsgAppFlowPaused = b] EXCEPT !.sentCommit = c]
    BY <1>1, <1>4, <2>1 DEF SentProgress, SentCommit, SentEntries, ProgressType
  <2>3. ProgressAfter(l, s, es) = SentProgress(l, s, es)
    BY <1>1, <1>4 DEF ProgressAfter
  <2>4. SameWindow(p, [[p EXCEPT !.MsgAppFlowPaused = b] EXCEPT !.sentCommit = c])
    BY DEF SameWindow, ProgressType
  <2> QED BY <1>1, <1>2, <2>2, <2>3, <2>4
<1> QED BY <1>3, <1>4

\* Progress after a MsgApp with entries in StateReplicate.
LEMMA SentPushes ==
    ASSUME NEW l, LeadOK(l), NEW s, s.pr \in ProgressType, NEW es \in Seq(Ents),
           NEW n \in Nat, n = Len(es), n > 0,
           s.pr.State = "StateReplicate", NEW last, last = s.pr.Next - 1 + n
    PROVE  /\ Pushed(s.pr, ProgressAfter(l, s, es), last, n)
           /\ RingAfter(s, es) = Ring!Add(s.ring, last, payloadsSize(es))
<1>1. PICK p \in ProgressType, c \in Nat : p = s.pr /\ c = l.log.committed
  BY LeadTypes
<1>2. RingAfter(s, es) = Ring!Add(s.ring, last, payloadsSize(es))
  BY DEF RingAfter
<1>3. PICK q \in Seq(Nat), N \in Nat : q = p.Inflights /\ N = p.Next
  BY ProgressTypes
<1>4. N > 0 /\ last = N - 1 + n /\ last \in Nat
  BY <1>1, <1>3, ProgressTypes
<1>5. PICK e : e = q \o <<last>>
  OBVIOUS
<1>6. e \in Seq(Nat)
  BY <1>4, <1>5
<1>7. PICK b \in BOOLEAN : b = Ring!Full(RingAfter(s, es))
  BY DEF Ring!Full
<1>8. PICK d \in BOOLEAN : d = Full(e)
  BY DEF Full
<1>9. PICK y : y = SentProgress(l, s, es)
  OBVIOUS
<1>10. y = [[p EXCEPT !.Next = N + n, !.Inflights = e, !.MsgAppFlowPaused = d] EXCEPT !.sentCommit = c]
  <2>1. p.State = "StateReplicate" /\ (IF n > 0 THEN <<last>> ELSE << >>) = <<last>>
    BY <1>1
  <2>2. y = SentCommit(SentEntries(p, n, <<last>>), c)
    BY <1>1, <1>9, <2>1 DEF SentProgress
  <2>3. SentEntries(p, n, <<last>>) = [p EXCEPT !.Next = N + n, !.Inflights = e, !.MsgAppFlowPaused = d]
    BY <1>3, <1>5, <1>8, <2>1 DEF SentEntries, ProgressType
  <2> QED BY <2>2, <2>3 DEF SentCommit
<1>11. /\ y \in ProgressType /\ y.Match = p.Match /\ y.Next = N + n /\ y.State = p.State
       /\ y.PendingSnapshot = p.PendingSnapshot /\ y.Inflights = e
  <2>1. N + n \in Nat \ {0}
    BY <1>4
  <2> QED BY <1>6, <1>10, <2>1 DEF ProgressType
<1>12. ProgressAfter(l, s, es) = [y EXCEPT !.MsgAppFlowPaused = b]
  BY <1>7, <1>9 DEF ProgressAfter
<1>13. Pushed(p, [y EXCEPT !.MsgAppFlowPaused = b], last, n)
  BY <1>3, <1>5, <1>11 DEF Pushed, ProgressType
<1> QED BY <1>1, <1>2, <1>12, <1>13

\* Progress p becomes x once a snapshot at index n is sent.
Sends(p, x, n) ==
    Windowless(x) /\ x.Match = p.Match /\ x.Next = n + 1 /\ x.PendingSnapshot = n

\* That is what BecomeSnapshot does.
LEMMA BecomeSnapshotIs ==
    ASSUME NEW p \in ProgressType, NEW n \in Nat, NEW x, x = BecomeSnapshot(p, n)
    PROVE  Sends(p, x, n)
<1>1. x = [[p EXCEPT !.MsgAppFlowPaused = FALSE, !.PendingSnapshot = 0, !.State = "StateSnapshot",
                     !.Inflights = << >>] EXCEPT
              !.PendingSnapshot = n, !.Next = n + 1, !.sentCommit = n]
  BY DEF BecomeSnapshot, ResetState
<1>2. n + 1 \in Nat \ {0} /\ "StateSnapshot" \in ProgressState /\ << >> \in Seq(Nat)
  BY DEF ProgressState
<1>3. x \in ProgressType
  BY <1>1, <1>2 DEF ProgressType
<1>4. /\ x.Match = p.Match /\ x.Next = n + 1 /\ x.PendingSnapshot = n /\ x.Inflights = << >>
      /\ x.State = "StateSnapshot"
  BY <1>1 DEF ProgressType
<1> QED BY <1>3, <1>4 DEF Windowless, Sends

\* A call of maybeSendAppend.
LEMMA MaybeSendOK ==
    ASSUME NEW l, LeadOK(l), NEW f, NEW M, NEW s, SendOK(l, f, M, s), NEW b \in BOOLEAN
    PROVE  SendOK(l, f, M, maybeSendAppend(l, s, b))
<1>1. PICK x : x = maybeSendAppend(l, s, b)
  OBVIOUS
<1>2. PICK L \in Seq(Ents), n \in Nat : L = l.log.ents /\ n = Len(L)
  BY LeadTypes
<1>3. Flow(s.pr, s.ring, n) /\ s.pr.Match = M /\ s.out \in Seq(TrueToFollower(f, L))
  BY <1>2 DEF SendOK
<1>4. PICK p : p = s.pr
  OBVIOUS
<1>5. p \in ProgressType /\ p.Match < p.Next /\ p.Next <= n + 1
  BY <1>3, <1>4 DEF Flow, Within
<1>6. CASE x = s
  BY <1>1, <1>6
<1>7. CASE HasTerm(l.log, s.pr.Next - 1) /\ x = AfterApp(l, s, Carried(l, s))
  <2>1. PICK es : es = Carried(l, s)
    OBVIOUS
  <2>2. /\ es \in Seq(Ents) /\ PartOf(es, p.Next, L)
        /\ p.State = "StateReplicate" /\ Len(es) > 0 => ~Ring!Full(s.ring)
    BY <1>2, <1>4, <1>5, <2>1, CarriedIs
  <2>3. x.pr = ProgressAfter(l, s, es) /\ x.ring = RingAfter(s, es) /\ x.out = Append(s.out, AppMsg(l, s, es))
    BY <1>7, <2>1 DEF AfterApp
  <2>4. x.out \in Seq(TrueToFollower(f, L))
    <3>1. AppMsg(l, s, es) \in TrueToFollower(f, L)
      BY <1>2, <1>4, <1>5, <2>2, AppMsgTrue
    <3> QED BY <1>3, <2>3, <3>1
  <2>5. PICK k \in Nat : k = Len(es)
    BY <2>2
  <2>6. CASE k = 0 \/ p.State # "StateReplicate"
    <3>1. SameWindow(p, x.pr) /\ x.ring = s.ring
      BY <1>4, <1>5, <2>2, <2>3, <2>5, <2>6, SentKeepsWindow
    <3>2. Flow(x.pr, x.ring, n)
      BY <1>3, <1>4, <3>1, FlowSame
    <3>3. x.pr.Match = M
      BY <1>3, <1>4, <3>1 DEF SameWindow
    <3> QED BY <1>1, <1>2, <2>4, <3>2, <3>3 DEF SendOK
  <2>7. CASE k # 0 /\ p.State = "StateReplicate"
    <3>1. k > 0
      BY <2>7
    <3>2. PICK last : last = p.Next - 1 + k
      OBVIOUS
    <3>3. Pushed(p, x.pr, last, k) /\ x.ring = Ring!Add(s.ring, last, payloadsSize(es))
      BY <1>4, <1>5, <2>2, <2>3, <2>5, <2>7, <3>1, <3>2, SentPushes
    <3>4. payloadsSize(es) \in Nat
      BY <2>2, PayloadsSizeType
    <3>5. p.Next + k <= n + 1
      BY <1>2, <2>2, <2>5 DEF PartOf
    <3>6. ~Ring!Full(s.ring)
      BY <2>2, <2>5, <2>7, <3>1
    <3>7. Flow(x.pr, x.ring, n)
      BY <1>3, <1>4, <2>7, <3>1, <3>2, <3>3, <3>4, <3>5, <3>6, FlowPush
    <3>8. x.pr.Match = M
      BY <1>3, <1>4, <3>3 DEF Pushed
    <3> QED BY <1>1, <1>2, <2>4, <3>7, <3>8 DEF SendOK
  <2> QED BY <2>6, <2>7
<1>8. CASE ~HasTerm(l.log, s.pr.Next - 1) /\ x = AfterSnap(l, s)
  <2>1. x.pr = BecomeSnapshot(p, l.snapshot) /\ x.ring = Ring!reset(s.ring) /\ x.out = Append(s.out, SnapMsg(l))
    BY <1>4, <1>8 DEF AfterSnap
  <2>2. PICK i \in Nat, fi \in Nat : i = l.snapshot /\ fi = l.log.first
    BY LeadTypes
  <2>3. fi <= i + 1 /\ i <= n
    <3>1. PICK c \in Nat : c = l.log.committed
      BY LeadTypes
    <3>2. fi <= i + 1 /\ i <= c /\ c <= n
      BY <1>2, <2>2, <3>1, LeadTypes
    <3> QED BY <3>2
  <2>4. PICK N \in Nat, m \in Nat : N = p.Next /\ m = p.Match
    BY <1>5, ProgressTypes
  <2>5. N < fi
    <3>1. ~(fi <= (N - 1) + 1 /\ N - 1 <= n)
      BY <1>2, <1>4, <1>8, <2>2, <2>4 DEF HasTerm, lastIndex
    <3>2. N <= n + 1
      BY <1>5, <2>4
    <3> QED BY <3>1, <3>2
  <2>6. /\ Windowless(x.pr) /\ x.pr.Match = m /\ x.pr.Next = i + 1 /\ x.pr.PendingSnapshot = i
    <3>1. PICK z : z = x.pr
      OBVIOUS
    <3>2. z = BecomeSnapshot(p, i)
      BY <2>1, <2>2, <3>1
    <3>3. Sends(p, z, i)
      BY <1>5, <3>2, BecomeSnapshotIs
    <3> QED BY <2>4, <3>1, <3>3 DEF Sends
  <2>7. m < i + 1
    BY <1>5, <2>3, <2>4, <2>5
  <2>8. Within(x.pr, n)
    BY <2>3, <2>6, <2>7 DEF Within
  <2>9. Flow(x.pr, x.ring, n)
    BY <1>3, <2>1, <2>6, <2>8, FlowReset
  <2>10. x.out \in Seq(TrueToFollower(f, L))
    <3>1. SnapMsg(l) \in TrueToFollower(f, L)
      BY <1>2, SnapMsgTrue
    <3> QED BY <1>3, <2>1, <3>1
  <2>11. x.pr.Match = M
    BY <1>3, <1>4, <2>4, <2>6
  <2> QED BY <1>1, <1>2, <2>9, <2>10, <2>11 DEF SendOK
<1> QED BY <1>1, <1>6, <1>7, <1>8, MaybeSendCases

\* A call that sends even an empty message.
LEMMA SendAppendOK ==
    ASSUME NEW l, LeadOK(l), NEW f, NEW M, NEW s, SendOK(l, f, M, s)
    PROVE  SendOK(l, f, M, sendAppend(l, s))
<1>1. SendOK(l, f, M, maybeSendAppend(l, s, TRUE))
  BY MaybeSendOK
<1> QED BY <1>1 DEF sendAppend

\* A call that sends no empty message.
Again(l, s) == maybeSendAppend(l, s, FALSE)

\* F is what the loop of sendMore has sent after each call.
IsLoop(F, l, s, n) ==
    F = [k \in 0..n |-> IF k = 0 THEN s ELSE Again(l, F[k - 1])]

\* There is one: by induction over the calls.
LEMMA LoopExists ==
    ASSUME NEW l, NEW s, NEW n \in Nat
    PROVE  \E F : IsLoop(F, l, s, n)
<1> DEFINE S == {j \in Nat : \E F : IsLoop(F, l, s, j)}
<1>1. 0 \in S
  <2>1. PICK F : F = [k \in 0..0 |-> s]
    OBVIOUS
  <2>2. \A k \in 0..0 : k = 0
    OBVIOUS
  <2>3. IsLoop(F, l, s, 0)
    BY <2>1, <2>2 DEF IsLoop
  <2> QED BY <2>3
<1>2. ASSUME NEW j \in Nat, j \in S PROVE j + 1 \in S
  <2>1. PICK F : IsLoop(F, l, s, j)
    BY <1>2
  <2>2. PICK E : E = [k \in 0..(j + 1) |-> IF k = j + 1 THEN Again(l, F[j]) ELSE F[k]]
    OBVIOUS
  <2>3. \A k \in 0..j : F[k] = IF k = 0 THEN s ELSE Again(l, F[k - 1])
    BY <2>1 DEF IsLoop
  <2>4. \A k \in 0..j : E[k] = F[k]
    BY <2>2
  <2>5. E[j + 1] = Again(l, F[j])
    BY <2>2
  <2>6. ASSUME NEW k \in 0..(j + 1) PROVE E[k] = IF k = 0 THEN s ELSE Again(l, E[k - 1])
    <3>1. CASE k = j + 1
      <4>1. k # 0 /\ k - 1 = j /\ j \in 0..j
        BY <3>1
      <4> QED BY <3>1, <4>1, <2>4, <2>5
    <3>2. CASE k # j + 1
      <4>1. k \in 0..j
        BY <3>2
      <4>2. k # 0 => k - 1 \in 0..j
        BY <4>1
      <4> QED BY <4>1, <4>2, <2>3, <2>4
    <3> QED BY <3>1, <3>2
  <2>7. E = [k \in 0..(j + 1) |-> E[k]]
    BY <2>2
  <2>8. IsLoop(E, l, s, j + 1)
    BY <2>6, <2>7 DEF IsLoop
  <2> QED BY <2>8
<1> HIDE DEF S
<1>3. \A j \in Nat : j \in S
  BY <1>1, <1>2, NatSetInduction
<1>4. n \in S
  BY <1>3
<1> QED BY <1>4 DEF S

\* The loop that sends as much as the window takes.
LEMMA SendMoreOK ==
    ASSUME NEW l, LeadOK(l), NEW f, NEW M, NEW s, SendOK(l, f, M, s)
    PROVE  SendOK(l, f, M, sendMore(l, s))
<1>1. PICK n \in Nat : n = MaxLog
  BY ReplicationAssumption
<1> DEFINE F == CHOOSE G : IsLoop(G, l, s, n)
<1>2. IsLoop(F, l, s, n)
  BY LoopExists
<1>3. sendMore(l, s) = F[n]
  BY <1>1 DEF sendMore, IsLoop, Again
<1> HIDE DEF F
<1>4. F = [k \in 0..n |-> IF k = 0 THEN s ELSE Again(l, F[k - 1])]
  BY <1>2 DEF IsLoop
<1> DEFINE S == {k \in Nat : k <= n => SendOK(l, f, M, F[k])}
<1>5. 0 \in S
  <2>1. F[0] = s
    BY <1>4
  <2> QED BY <2>1
<1>6. ASSUME NEW k \in Nat, k \in S PROVE k + 1 \in S
  <2>1. SUFFICES ASSUME k + 1 <= n PROVE SendOK(l, f, M, F[k + 1])
    OBVIOUS
  <2>2. SendOK(l, f, M, F[k])
    BY <1>6, <2>1
  <2>3. k + 1 \in 0..n /\ k + 1 # 0 /\ (k + 1) - 1 = k
    BY <2>1
  <2>4. F[k + 1] = Again(l, F[k])
    BY <1>4, <2>3
  <2> QED BY <2>2, <2>4, MaybeSendOK DEF Again
<1> HIDE DEF S
<1>7. \A k \in Nat : k \in S
  BY <1>5, <1>6, NatSetInduction
<1>8. n \in S /\ n <= n
  BY <1>7
<1> QED BY <1>3, <1>8 DEF S

-----------------------------------------------------------------------------
(* The follower.                                                           *)

\* Logs that share n entries share fewer.
LEMMA CommonLess ==
    ASSUME NEW a, NEW b, NEW n \in Nat, NEW m \in Nat, m <= n, a \in Seq(Ents),
           b \in Seq(Ents), Common(a, b, n)
    PROVE  Common(a, b, m)
BY DEF Common

\* A MsgApp's fields.
LEMMA AppTypes ==
    ASSUME NEW f, NEW L, NEW m \in TrueToFollower(f, L), m.type = "MsgApp"
    PROVE  /\ m.index \in Nat /\ m.logTerm \in Nat /\ m.entries \in Seq(Ents) /\ m.commit \in Nat
           /\ TrueApp(m, L)
<1>1. m \in ToFollower /\ TrueApp(m, L)
  BY DEF TrueToFollower
<1>2. m \in [type : {"MsgApp"}, index : Nat, logTerm : Nat, entries : Seq(Ents), commit : Nat]
  BY <1>1 DEF ToFollower
<1> QED BY <1>1, <1>2

\* A MsgSnap's fields.
LEMMA SnapTypes ==
    ASSUME NEW f, NEW L, NEW m \in TrueToFollower(f, L), m.type = "MsgSnap"
    PROVE  m.snapshot \in Seq(Ents) /\ PartOf(m.snapshot, 1, L)
<1>1. m \in ToFollower /\ PartOf(m.snapshot, 1, L)
  BY DEF TrueToFollower
<1>2. m \in [type : {"MsgSnap"}, snapshot : Seq(Ents)]
  BY <1>1 DEF ToFollower
<1> QED BY <1>1, <1>2

\* A heartbeat's fields.
LEMMA BeatTypes ==
    ASSUME NEW f, NEW L, NEW m \in TrueToFollower(f, L), m.type = "MsgHeartbeat"
    PROVE  m.commit \in Nat /\ Common(f, L, m.commit)
<1>1. m \in ToFollower /\ Common(f, L, m.commit)
  BY DEF TrueToFollower
<1>2. m \in [type : {"MsgHeartbeat"}, commit : Nat]
  BY <1>1 DEF ToFollower
<1> QED BY <1>1, <1>2

\* The follower f becomes g, and what it shared with the leader it still shares.
FolStep(f, g, L) ==
    FolOK(g, L) /\ \A n \in Nat : Common(f.ents, L, n) => Common(g.ents, L, n)

\* The types of the follower's fields.
LEMMA FolTypes ==
    ASSUME NEW f, NEW L, FolOK(f, L)
    PROVE  /\ f \in Logs /\ f.ents \in Seq(Ents) /\ Len(f.ents) \in Nat /\ f.first \in Nat /\ f.first > 0
           /\ f.committed \in Nat /\ f.first <= f.committed + 1 /\ Common(f.ents, L, f.committed)
           /\ f.committed <= Len(f.ents)
BY DEF FolOK, Logs, Common

\* commitTo an index that the follower shares.
LEMMA CommitToOK ==
    ASSUME NEW L \in Seq(Ents), NEW f, FolOK(f, L), NEW c \in Nat, Common(f.ents, L, c)
    PROVE  FolOK(commitTo(f, c), L) /\ commitTo(f, c).ents = f.ents
<1>1. PICK b \in Nat, fi \in Nat : b = f.committed /\ fi = f.first
  BY FolTypes
<1>2. PICK g : g = commitTo(f, c)
  OBVIOUS
<1>3. PICK d : d = IF b < c THEN c ELSE b
  OBVIOUS
<1>4. f \in Logs /\ fi <= b + 1
  BY <1>1, FolTypes
<1>5. g = [f EXCEPT !.committed = d]
  BY <1>1, <1>2, <1>3, <1>4 DEF commitTo, Logs
<1>6. d \in Nat /\ fi <= d + 1
  BY <1>1, <1>3, <1>4
<1>7. g \in Logs /\ g.first = fi /\ g.committed = d /\ g.ents = f.ents
  BY <1>1, <1>4, <1>5, <1>6 DEF Logs
<1>8. Common(g.ents, L, d)
  BY <1>1, <1>3, <1>7, FolTypes
<1> QED BY <1>2, <1>6, <1>7, <1>8 DEF FolOK

\* The follower's log becomes the first n entries of the leader's.
LEMMA PrefixOK ==
    ASSUME NEW L \in Seq(Ents), NEW f, FolOK(f, L), NEW n \in Nat, n <= Len(L),
           \A k \in Nat : Common(f.ents, L, k) => k <= n,
           NEW g \in Logs, g.ents = SubSeq(L, 1, n), g.first <= g.committed + 1,
           g.committed <= n
    PROVE  FolStep(f, g, L) /\ Common(g.ents, L, n)
<1>1. PICK P : P = g.ents
  OBVIOUS
<1>2. P \in Seq(Ents) /\ Len(P) = n /\ \A k \in 1..n : P[k] = L[k]
  BY <1>1, PrefixIs
<1>3. \A k \in Nat : k <= n => Common(P, L, k)
  BY <1>2 DEF Common
<1>4. Matches(P, L)
  BY <1>2, <1>3 DEF Matches
<1>5. g.committed \in Nat
  BY DEF Logs
<1>6. Common(P, L, g.committed)
  BY <1>3, <1>5
<1>7. \A i \in 1..n : i <= Len(L)
  OBVIOUS
<1>8. FolOK(g, L)
  BY <1>1, <1>2, <1>4, <1>6, <1>7 DEF FolOK
<1>9. n <= n
  OBVIOUS
<1> QED BY <1>1, <1>3, <1>8, <1>9 DEF FolStep

\* matchTerm is true only where the logs are the same.
LEMMA MatchTermCommon ==
    ASSUME NEW L \in Seq(Ents), NEW f, FolOK(f, L), NEW i \in Nat, i <= Len(L),
           NEW t, t = TermAt(L, i),
           matchTerm(f, i, t)
    PROVE  Common(f.ents, L, i)
<1>1. f.ents \in Seq(Ents) /\ i <= Len(f.ents) /\ TermAt(f.ents, i) = TermAt(L, i)
  BY FolTypes DEF matchTerm, HasTerm, lastIndex
<1>2. CASE i = 0
  BY <1>1, <1>2 DEF Common
<1>3. CASE i # 0
  <2>1. i \in 1..Len(f.ents) /\ f.ents[i].term = L[i].term
    BY <1>1, <1>3 DEF TermAt
  <2>2. Matches(f.ents, L)
    BY DEF FolOK
  <2> QED BY <2>1, <2>2 DEF Matches
<1> QED BY <1>2, <1>3

\* And it is true wherever they are, above the commit index.
LEMMA CommonMatchTerm ==
    ASSUME NEW L \in Seq(Ents), NEW f, FolOK(f, L), NEW i \in Nat, f.committed <= i,
           NEW n \in Nat, i <= n,
           Common(f.ents, L, n), NEW t, t = TermAt(L, i)
    PROVE  matchTerm(f, i, t)
<1>1. PICK fi \in Nat, c \in Nat, m \in Nat : fi = f.first /\ c = f.committed /\ m = Len(f.ents)
  BY FolTypes
<1>2. fi <= c + 1 /\ c <= i
  BY <1>1, FolTypes
<1>3. n <= m /\ \A k \in 1..n : f.ents[k] = L[k]
  BY <1>1 DEF Common
<1>4. HasTerm(f, i)
  BY <1>1, <1>2, <1>3 DEF HasTerm, lastIndex
<1>5. TermAt(f.ents, i) = TermAt(L, i)
  <2>1. CASE i = 0
    BY <2>1 DEF TermAt
  <2>2. CASE i # 0
    <3>1. i \in 1..n
      BY <2>2
    <3> QED BY <1>3, <2>2, <3>1 DEF TermAt
  <2> QED BY <2>1, <2>2
<1> QED BY <1>4, <1>5 DEF matchTerm

\* The smaller one of the commit index and the last new index.
LEMMA LeastCommon ==
    ASSUME NEW L \in Seq(Ents), NEW a \in Seq(Ents), NEW n \in Nat, Common(a, L, n),
           NEW c \in Nat,
           NEW d, d = IF c < n THEN c ELSE n
    PROVE  d \in Nat /\ Common(a, L, d)
<1>1. d \in Nat /\ d <= n
  OBVIOUS
<1> QED BY <1>1, CommonLess

\* u is x and then y.
Joins(u, x, y) ==
    /\ u \in Seq(Ents) /\ Len(u) = Len(x) + Len(y)
    /\ \A j \in 1..Len(x) : u[j] = x[j]
    /\ \A j \in 1..Len(y) : u[Len(x) + j] = y[j]

\* That is what \o means.
LEMMA ConcatJoins ==
    ASSUME NEW x \in Seq(Ents), NEW y \in Seq(Ents), NEW u, u = x \o y
    PROVE  Joins(u, x, y)
BY ConcatIs DEF Joins

\* u is the first i entries of a and then those of es from k to n.
IsCut(u, a, i, es, k, n) == u = SubSeq(a, 1, i) \o SubSeq(es, k, n)

\* What maybeAppend keeps of a log, and what it appends, make up a prefix of the
\* leader's log.
LEMMA JoinedPrefix ==
    ASSUME NEW L \in Seq(Ents), NEW a \in Seq(Ents), NEW es \in Seq(Ents),
           NEW prev \in Nat, NEW i \in Nat,
           NEW k \in Nat, NEW n \in Nat, n = Len(es), k > 0, k <= n, i = prev + k - 1,
           Common(a, L, i), PartOf(es, prev + 1, L), NEW u, IsCut(u, a, i, es, k, n)
    PROVE  u = SubSeq(L, 1, prev + n)
<1>1. PICK e \in Nat : e = n + 1 - k
  <2>1. n + 1 - k \in Nat
    OBVIOUS
  <2> QED BY <2>1
<1>2. PICK m \in Nat : m = prev + n
  OBVIOUS
<1>3. i + e = m
  BY <1>1, <1>2
<1>4. m <= Len(L) /\ \A j \in 1..n : es[j] = L[prev + j]
  <2>1. (prev + 1) + n <= Len(L) + 1 /\ \A j \in 1..n : es[j] = L[(prev + 1) - 1 + j]
    BY DEF PartOf
  <2>2. \A j \in 1..n : (prev + 1) - 1 + j = prev + j
    OBVIOUS
  <2> QED BY <1>2, <2>1, <2>2
<1>5. i <= Len(a) /\ \A j \in 1..i : a[j] = L[j]
  BY DEF Common
<1>6. PICK x : x = SubSeq(a, 1, i)
  OBVIOUS
<1>7. x \in Seq(Ents) /\ Len(x) = i /\ \A j \in 1..i : x[j] = a[j]
  BY <1>5, <1>6, PrefixIs
<1>8. PICK y : y = SubSeq(es, k, n)
  OBVIOUS
<1>9. y \in Seq(Ents) /\ Len(y) = e /\ \A j \in 1..e : y[j] = es[k - 1 + j]
  <2>1. k <= n + 1 /\ n <= Len(es)
    OBVIOUS
  <2>2. /\ y \in Seq(Ents) /\ Len(y) = n + 1 - k
        /\ \A j \in 1..(n + 1 - k) : y[j] = es[k - 1 + j]
    BY <1>8, <2>1, SubSeqIs
  <2> QED BY <1>1, <2>2
<1>10. PICK z : z = SubSeq(L, 1, m)
  OBVIOUS
<1>11. z \in Seq(Ents) /\ Len(z) = m /\ \A j \in 1..m : z[j] = L[j]
  BY <1>4, <1>10, PrefixIs
<1>12. u = x \o y
  BY <1>6, <1>8 DEF IsCut
<1>13. Joins(u, x, y)
  BY <1>7, <1>9, <1>12, ConcatJoins
<1>14. u \in Seq(Ents) /\ Len(u) = i + e /\ \A j \in 1..i : u[j] = x[j]
  BY <1>7, <1>9, <1>13 DEF Joins
<1>15. \A j \in 1..e : u[i + j] = y[j]
  BY <1>7, <1>9, <1>13 DEF Joins
<1>16. ASSUME NEW j \in 1..m PROVE u[j] = z[j]
  <2>1. CASE j <= i
    <3>1. j \in 1..i
      BY <2>1
    <3> QED BY <1>5, <1>7, <1>11, <1>14, <3>1
  <2>2. CASE ~(j <= i)
    <3>1. PICK h \in Nat : h = j - i
      BY <2>2
    <3>2. h \in 1..e /\ i + h = j
      BY <1>3, <2>2, <3>1
    <3>3. k - 1 + h \in 1..n /\ prev + (k - 1 + h) = j
      BY <1>1, <3>2
    <3>4. u[j] = es[k - 1 + h]
      BY <1>9, <1>15, <3>2
    <3>5. es[k - 1 + h] = L[j]
      BY <1>4, <3>3
    <3> QED BY <1>11, <3>4, <3>5
  <2> QED BY <2>1, <2>2
<1>17. Len(u) = m
  BY <1>3, <1>14
<1>18. u = z
  BY <1>11, <1>14, <1>16, <1>17, SeqsEqual
<1> QED BY <1>2, <1>10, <1>18

\* maybeAppend of a true MsgApp that fits.
LEMMA MaybeAppendOK ==
    ASSUME NEW L \in Seq(Ents), NEW f, FolOK(f, L), NEW prev \in Nat, NEW es \in Seq(Ents),
           NEW c \in Nat,
           PartOf(es, prev + 1, L), f.committed <= prev, matchTerm(f, prev, TermAt(L, prev)),
           NEW g, g = maybeAppend(f, prev, es, c), NEW last, last = prev + Len(es)
    PROVE  FolStep(f, g, L) /\ last \in Nat /\ Common(g.ents, L, last)
<1>1. PICK n \in Nat, N \in Nat, b \in Nat : n = Len(es) /\ N = Len(L) /\ b = f.committed
  BY FolTypes
<1>2. prev + n <= N /\ \A k \in 1..n : es[k] = L[prev + k]
  <2>1. (prev + 1) + n <= N + 1 /\ \A k \in 1..n : es[k] = L[(prev + 1) - 1 + k]
    BY <1>1 DEF PartOf
  <2>2. \A k \in 1..n : (prev + 1) - 1 + k = prev + k
    OBVIOUS
  <2> QED BY <2>1, <2>2
<1>3. f \in Logs /\ f.ents \in Seq(Ents) /\ b <= prev
  BY <1>1, FolTypes
<1>4. Common(f.ents, L, prev)
  <2>1. prev <= Len(L)
    BY <1>1, <1>2
  <2> QED BY <2>1, MatchTermCommon
<1>5. last = prev + n /\ last \in Nat /\ last <= N
  BY <1>1, <1>2
<1>6. PICK B : B = Conflicts(f, prev, es)
  OBVIOUS
<1>7. B = {k \in 1..n : ~matchTerm(f, prev + k, es[k].term)}
  BY <1>1, <1>6 DEF Conflicts
<1>8. ASSUME NEW k \in 1..n
      PROVE  prev + k \in Nat /\ prev + k # 0 /\ prev + k <= N /\ es[k].term = TermAt(L, prev + k)
  <2>1. prev + k \in Nat /\ prev + k # 0 /\ prev + k <= N
    BY <1>2
  <2> QED BY <1>2, <2>1 DEF TermAt
<1>9. ASSUME NEW k \in 1..n, k \notin B PROVE Common(f.ents, L, prev + k)
  <2>1. matchTerm(f, prev + k, es[k].term)
    BY <1>7, <1>9
  <2> QED BY <1>1, <1>8, <2>1, MatchTermCommon
<1>10. PICK d : d = IF c < last THEN c ELSE last
  OBVIOUS
<1>11. CASE B = {}
  <2>1. Common(f.ents, L, last)
    <3>1. CASE n = 0
      BY <1>4, <1>5, <3>1
    <3>2. CASE n # 0
      <4>1. n \in 1..n /\ n \notin B
        BY <1>11, <3>2
      <4> QED BY <1>5, <1>9, <4>1
    <3> QED BY <3>1, <3>2
  <2>2. findConflict(f, prev, es) = 0
    BY <1>6, <1>11 DEF findConflict
  <2>3. g = commitTo(f, d)
    <3>1. g = commitTo([f EXCEPT !.ents = f.ents], d)
      BY <1>1, <1>5, <1>10, <2>2 DEF maybeAppend
    <3>2. [f EXCEPT !.ents = f.ents] = f
      BY <1>3 DEF Logs
    <3> QED BY <3>1, <3>2
  <2>4. d \in Nat /\ Common(f.ents, L, d)
    BY <1>3, <1>5, <1>10, <2>1, LeastCommon
  <2>5. FolOK(g, L) /\ g.ents = f.ents
    BY <2>3, <2>4, CommitToOK
  <2> QED BY <1>5, <2>1, <2>5 DEF FolStep
<1>12. CASE B # {}
  <2>1. B \subseteq 1..n /\ B \subseteq Nat
    BY <1>7
  <2>2. \E k \in B : \A j \in B : k <= j
    BY <1>12, <2>1, LeastExists
  <2>3. PICK k : k = CHOOSE x \in B : \A j \in B : x <= j
    OBVIOUS
  <2>4. k \in B /\ \A j \in B : k <= j
    BY <2>2, <2>3
  <2>5. k \in 1..n
    BY <2>1, <2>4
  <2>6. PICK ci : ci = prev + k
    OBVIOUS
  <2>7. ci \in Nat /\ ci # 0 /\ ci - 1 \in Nat /\ ci <= N /\ ci > prev /\ ci <= last
    BY <1>5, <1>8, <2>5, <2>6
  <2>8. Common(f.ents, L, ci - 1)
    <3>1. CASE k = 1
      <4>1. ci - 1 = prev
        BY <2>6, <3>1
      <4> QED BY <1>4, <4>1
    <3>2. CASE k # 1
      <4>1. k - 1 \in 1..n /\ ~(k <= k - 1) /\ prev + (k - 1) = ci - 1
        BY <2>5, <2>6, <3>2
      <4>2. k - 1 \notin B
        BY <2>4, <4>1
      <4>3. Common(f.ents, L, prev + (k - 1))
        BY <1>9, <4>1, <4>2
      <4> QED BY <4>1, <4>3
    <3> QED BY <3>1, <3>2
  <2>9. ASSUME NEW j \in Nat, Common(f.ents, L, j) PROVE j < ci
    <3>1. SUFFICES ASSUME ci <= j PROVE FALSE
      BY <2>7
    <3>2. b <= ci
      BY <1>3, <2>7
    <3>3. matchTerm(f, ci, TermAt(L, ci))
      BY <1>1, <2>7, <2>9, <3>1, <3>2, CommonMatchTerm
    <3>4. matchTerm(f, prev + k, es[k].term)
      BY <1>8, <2>5, <2>6, <3>3
    <3> QED BY <1>7, <2>4, <3>4
  <2>10. findConflict(f, prev, es) = ci
    BY <1>6, <1>12, <2>3, <2>6 DEF findConflict
  <2>11. PICK a : a = SubSeq(f.ents, 1, ci - 1) \o SubSeq(es, k, n)
    OBVIOUS
  <2>12. g = commitTo([f EXCEPT !.ents = a], d)
    <3>1. ci - prev = k /\ ci # 0
      BY <2>5, <2>6, <2>7
    <3> QED BY <1>1, <1>5, <1>10, <2>10, <2>11, <3>1 DEF maybeAppend
  <2>13. a = SubSeq(L, 1, last)
    <3>1. PICK i \in Nat, h \in Nat : i = ci - 1 /\ h = k
      BY <2>5, <2>7
    <3>2. /\ h > 0 /\ h <= n /\ i = prev + h - 1 /\ Common(f.ents, L, i)
          /\ a = SubSeq(f.ents, 1, i) \o SubSeq(es, h, n)
      BY <2>5, <2>6, <2>8, <2>11, <3>1
    <3>3. PartOf(es, prev + 1, L)
      OBVIOUS
    <3>4. IsCut(a, f.ents, i, es, h, n)
      BY <3>2 DEF IsCut
    <3>5. PICK q \in Seq(Ents) : q = f.ents
      BY <1>3
    <3>6. IsCut(a, q, i, es, h, n) /\ Common(q, L, i)
      BY <3>2, <3>4, <3>5
    <3>7. a = SubSeq(L, 1, prev + n)
      BY <1>1, <3>2, <3>3, <3>6, JoinedPrefix
    <3> QED BY <1>5, <3>7
  <2>14. PICK g0 : g0 = [f EXCEPT !.ents = a]
    OBVIOUS
  <2>15. a \in Seq(Ents)
    BY <1>1, <1>5, <2>13, PrefixIs
  <2>16. g0 \in Logs /\ g0.ents = a /\ g0.first = f.first /\ g0.committed = b
    BY <1>1, <1>3, <2>14, <2>15 DEF Logs
  <2>17. \A j \in Nat : Common(f.ents, L, j) => j <= last
    <3>1. SUFFICES ASSUME NEW j \in Nat, Common(f.ents, L, j) PROVE j <= last
      OBVIOUS
    <3>2. j < ci
      BY <2>9, <3>1
    <3> QED BY <1>5, <2>7, <3>2
  <2>18. g0.first <= g0.committed + 1 /\ g0.committed <= last /\ last <= Len(L)
    BY <1>1, <1>3, <1>5, <2>7, <2>16, FolTypes
  <2>19. FolStep(f, g0, L) /\ Common(g0.ents, L, last)
    BY <1>5, <2>13, <2>16, <2>17, <2>18, PrefixOK
  <2>20. d \in Nat /\ Common(g0.ents, L, d)
    BY <1>5, <1>10, <2>15, <2>16, <2>19, LeastCommon
  <2>21. FolOK(g, L) /\ g.ents = g0.ents
    <3>1. FolOK(g0, L)
      BY <2>19 DEF FolStep
    <3>2. g = commitTo(g0, d)
      BY <2>12, <2>14
    <3> QED BY <2>20, <3>1, <3>2, CommitToOK
  <2> QED BY <1>5, <2>19, <2>21 DEF FolStep
<1> QED BY <1>11, <1>12

\* What a step of the follower does to the messages on their way: they stay true.
LEMMA FolStepMessages ==
    ASSUME NEW f, NEW g, NEW L, FolStep(f, g, L)
    PROVE  /\ TrueToFollower(f.ents, L) \subseteq TrueToFollower(g.ents, L)
           /\ TrueToLeader(f.ents, L) \subseteq TrueToLeader(g.ents, L)
<1>1. ASSUME NEW m \in TrueToFollower(f.ents, L) PROVE m \in TrueToFollower(g.ents, L)
  <2>1. m.type = "MsgHeartbeat" => Common(g.ents, L, m.commit)
    BY BeatTypes DEF FolStep
  <2> QED BY <2>1 DEF TrueToFollower
<1>2. ASSUME NEW m \in TrueToLeader(f.ents, L) PROVE m \in TrueToLeader(g.ents, L)
  <2>1. SUFFICES ASSUME m.type = "MsgAppResp", ~m.reject PROVE Common(g.ents, L, m.index)
    BY DEF TrueToLeader
  <2>2. m \in ToLeader /\ Common(f.ents, L, m.index)
    BY <2>1 DEF TrueToLeader
  <2>3. m.index \in Nat
    BY <2>1, <2>2 DEF ToLeader
  <2> QED BY <2>2, <2>3 DEF FolStep
<1> QED BY <1>1, <1>2

\* An ack of what the follower shares.
LEMMA AckTrue ==
    ASSUME NEW f, NEW L, NEW i \in Nat, Common(f, L, i)
    PROVE  Ack(i) \in TrueToLeader(f, L)
<1>1. PICK m : m = Ack(i)
  OBVIOUS
<1>2. m = [type |-> "MsgAppResp", reject |-> FALSE, index |-> i]
  BY <1>1 DEF Ack
<1>3. m \in ToLeader /\ m.index = i
  BY <1>2 DEF ToLeader
<1> QED BY <1>1, <1>3 DEF TrueToLeader

\* findConflictByTerm returns an index at or below the one it starts from.
LEMMA FindConflictByTermType ==
    ASSUME NEW lg, NEW index \in Nat, NEW term
    PROVE  findConflictByTerm(lg, index, term) \in 0..index
<1>. DEFINE Fits(k) == k = 0 \/ ~HasTerm(lg, k) \/ TermAt(lg.ents, k) <= term
            S == {k \in 0..index : Fits(k)}
<1>1. S \subseteq Nat /\ S # {} /\ \A k \in S : k <= index
  <2>1. 0 \in S
    OBVIOUS
  <2>. QED
    BY <2>1
<1>2. PICK x \in S : \A y \in S : y <= x
  <2>. HIDE DEF S
  <2>. QED
    BY <1>1, GreatestExists
<1>3. x \in 0..index /\ Fits(x) /\ \A j \in (x + 1)..index : ~Fits(j)
  BY <1>2
<1>4. findConflictByTerm(lg, index, term)
        = CHOOSE k \in 0..index : Fits(k) /\ \A j \in (k + 1)..index : ~Fits(j)
  BY DEF findConflictByTerm
<1>. HIDE DEF Fits
<1>. QED
  BY <1>3, <1>4

\* It acks something that it shares.
LEMMA AnswersAck ==
    ASSUME NEW f, NEW g, NEW L, NEW q \in Seq(TrueToLeader(f.ents, L)), FolStep(f, g, L),
           NEW i \in Nat, Common(g.ents, L, i), NEW r, r = Append(q, Ack(i))
    PROVE  r \in Seq(TrueToLeader(g.ents, L))
<1>1. q \in Seq(TrueToLeader(g.ents, L))
  BY FolStepMessages, SeqMonotone
<1>2. Ack(i) \in TrueToLeader(g.ents, L)
  BY AckTrue
<1> QED BY <1>1, <1>2

\* A step that leaves the log alone.
LEMMA FolStays ==
    ASSUME NEW f, NEW L, FolOK(f, L)
    PROVE  FolStep(f, f, L)
BY DEF FolStep

\* MsgApp.
LEMMA HandleAppendEntriesOK ==
    ASSUME NEW L \in Seq(Ents), FolOK(fol, L), toL \in Seq(TrueToLeader(fol.ents, L)),
           NEW m \in TrueToFollower(fol.ents, L), HandleAppendEntries(m)
    PROVE  FolStep(fol, fol', L) /\ toL' \in Seq(TrueToLeader(fol'.ents, L))
<1>1. m.type = "MsgApp"
  BY DEF HandleAppendEntries
<1>2. PICK i \in Nat, es \in Seq(Ents), c \in Nat, t \in Nat :
          i = m.index /\ es = m.entries /\ c = m.commit /\ t = m.logTerm
  BY <1>1, AppTypes
<1>3. PartOf(es, i + 1, L) /\ t = TermAt(L, i)
  BY <1>1, <1>2, AppTypes DEF TrueApp
<1>4. PICK b \in Nat : b = fol.committed
  BY FolTypes
<1>5. CASE i < b /\ toL' = Append(toL, Ack(b)) /\ fol' = fol
  <2>1. FolStep(fol, fol', L)
    BY <1>5, FolStays
  <2>2. Common(fol'.ents, L, b)
    BY <1>4, <1>5, FolTypes
  <2> QED BY <1>5, <2>1, <2>2, AnswersAck
<1>6. CASE /\ i >= b /\ matchTerm(fol, i, t) /\ fol' = maybeAppend(fol, i, es, c)
           /\ toL' = Append(toL, Ack(i + Len(es)))
  <2>1. b <= i
    BY <1>6
  <2>2. PICK last : last = i + Len(es)
    OBVIOUS
  <2>3. PICK g : g = maybeAppend(fol, i, es, c)
    OBVIOUS
  <2>4. FolStep(fol, g, L) /\ last \in Nat /\ Common(g.ents, L, last)
    BY <1>3, <1>4, <1>6, <2>1, <2>2, <2>3, MaybeAppendOK
  <2>5. fol' = g /\ toL' = Append(toL, Ack(last))
    BY <1>6, <2>2, <2>3
  <2>6. toL' \in Seq(TrueToLeader(g.ents, L))
    BY <2>4, <2>5, AnswersAck
  <2> QED BY <2>4, <2>5, <2>6
<1>7. CASE \E h \in Nat : /\ fol' = fol
                          /\ toL' = Append(toL, [type |-> "MsgAppResp", reject |-> TRUE, index |-> i,
                                                 rejectHint |-> h, logTerm |-> KnownTerm(fol, h)])
  <2>1. PICK h \in Nat : /\ fol' = fol
                         /\ toL' = Append(toL, [type |-> "MsgAppResp", reject |-> TRUE, index |-> i,
                                                rejectHint |-> h, logTerm |-> KnownTerm(fol, h)])
    BY <1>7
  <2>2. KnownTerm(fol, h) \in Nat
    <3>1. CASE HasTerm(fol, h)
      <4>1. h <= Len(fol.ents) /\ fol.ents \in Seq(Ents)
        BY <3>1, FolTypes DEF HasTerm, lastIndex
      <4>2. TermAt(fol.ents, h) \in Nat
        BY <4>1, TermAtType
      <4> QED BY <3>1, <4>2 DEF KnownTerm
    <3>2. CASE ~HasTerm(fol, h)
      BY <3>2 DEF KnownTerm
    <3> QED BY <3>1, <3>2
  <2>3. PICK r : r = [type |-> "MsgAppResp", reject |-> TRUE, index |-> i,
                      rejectHint |-> h, logTerm |-> KnownTerm(fol, h)]
    OBVIOUS
  <2>4. r \in ToLeader /\ r.reject = TRUE
    BY <2>2, <2>3 DEF ToLeader
  <2>5. r \in TrueToLeader(fol.ents, L)
    BY <2>4 DEF TrueToLeader
  <2>6. toL' \in Seq(TrueToLeader(fol.ents, L))
    BY <2>1, <2>3, <2>5
  <2> QED BY <2>1, <2>6, FolStays
<1>8. PICK h : h = findConflictByTerm(fol, Least(i, lastIndex(fol)), t)
  OBVIOUS
<1>9. h \in Nat
  <2>1. lastIndex(fol) \in Nat
    BY FolTypes DEF lastIndex
  <2>2. PICK k \in Nat : k = Least(i, lastIndex(fol))
    BY <2>1 DEF Least
  <2>3. h \in 0..k
    BY <1>8, <2>2, FindConflictByTermType
  <2> QED BY <2>3
<1>10. \/ i < b /\ toL' = Append(toL, Ack(b)) /\ fol' = fol
       \/ /\ i >= b /\ matchTerm(fol, i, t) /\ fol' = maybeAppend(fol, i, es, c)
          /\ toL' = Append(toL, Ack(i + Len(es)))
       \/ /\ fol' = fol
          /\ toL' = Append(toL, [type |-> "MsgAppResp", reject |-> TRUE, index |-> i,
                                 rejectHint |-> h, logTerm |-> KnownTerm(fol, h)])
  BY <1>2, <1>4, <1>8 DEF HandleAppendEntries
<1> QED BY <1>5, <1>6, <1>7, <1>9, <1>10

\* MsgHeartbeat.
LEMMA HandleHeartbeatOK ==
    ASSUME NEW L \in Seq(Ents), FolOK(fol, L), toL \in Seq(TrueToLeader(fol.ents, L)),
           NEW m \in TrueToFollower(fol.ents, L), HandleHeartbeat(m)
    PROVE  FolStep(fol, fol', L) /\ toL' \in Seq(TrueToLeader(fol'.ents, L))
<1>1. m.type = "MsgHeartbeat" /\ fol' = commitTo(fol, m.commit) /\ toL' = Append(toL, [type |-> "MsgHeartbeatResp"])
  BY DEF HandleHeartbeat
<1>2. m.commit \in Nat /\ Common(fol.ents, L, m.commit)
  BY <1>1, BeatTypes
<1>3. FolOK(fol', L) /\ fol'.ents = fol.ents
  BY <1>1, <1>2, CommitToOK
<1>4. FolStep(fol, fol', L)
  BY <1>3 DEF FolStep
<1>5. PICK r : r = [type |-> "MsgHeartbeatResp"]
  OBVIOUS
<1>6. r \in ToLeader /\ r.type # "MsgAppResp"
  BY <1>5 DEF ToLeader
<1>7. r \in TrueToLeader(fol.ents, L)
  BY <1>6 DEF TrueToLeader
<1>8. toL' \in Seq(TrueToLeader(fol.ents, L))
  BY <1>1, <1>5, <1>7
<1> QED BY <1>3, <1>4, <1>8

\* MsgSnap: obsolete, already in the log, or restored.
LEMMA HandleSnapshotOK ==
    ASSUME NEW L \in Seq(Ents), FolOK(fol, L), toL \in Seq(TrueToLeader(fol.ents, L)),
           NEW m \in TrueToFollower(fol.ents, L), HandleSnapshot(m)
    PROVE  FolStep(fol, fol', L) /\ toL' \in Seq(TrueToLeader(fol'.ents, L))
<1>1. m.type = "MsgSnap"
  BY DEF HandleSnapshot
<1>2. PICK e \in Seq(Ents), n \in Nat : e = m.snapshot /\ n = Len(e)
  BY <1>1, SnapTypes
<1>3. n <= Len(L) /\ \A k \in 1..n : e[k] = L[k]
  <2>1. 1 + n <= Len(L) + 1 /\ \A k \in 1..n : e[k] = L[1 - 1 + k]
    BY <1>1, <1>2, SnapTypes DEF PartOf
  <2>2. \A k \in 1..n : 1 - 1 + k = k
    OBVIOUS
  <2> QED BY <2>1, <2>2
<1>4. PICK b \in Nat : b = fol.committed
  BY FolTypes
<1>5. PICK t : t = TermAt(e, n)
  OBVIOUS
<1>6. t = TermAt(L, n)
  <2>1. CASE n = 0
    BY <1>5, <2>1 DEF TermAt
  <2>2. CASE n # 0
    <3>1. n \in 1..n
      BY <2>2
    <3> QED BY <1>3, <1>5, <2>2, <3>1 DEF TermAt
  <2> QED BY <2>1, <2>2
<1>7. \/ n <= b /\ toL' = Append(toL, Ack(b)) /\ fol' = fol
      \/ n > b /\ matchTerm(fol, n, t) /\ fol' = commitTo(fol, n) /\ toL' = Append(toL, Ack(n))
      \/ n > b /\ ~matchTerm(fol, n, t) /\ fol' = [restoreLog(e) EXCEPT !.snap = 0] /\ toL' = Append(toL, Ack(n))
  BY <1>2, <1>4, <1>5 DEF HandleSnapshot
<1>8. CASE n <= b /\ toL' = Append(toL, Ack(b)) /\ fol' = fol
  <2>1. FolStep(fol, fol', L)
    BY <1>8, FolStays
  <2>2. Common(fol'.ents, L, b)
    BY <1>4, <1>8, FolTypes
  <2> QED BY <1>8, <2>1, <2>2, AnswersAck
<1>9. CASE n > b /\ matchTerm(fol, n, t) /\ fol' = commitTo(fol, n) /\ toL' = Append(toL, Ack(n))
  <2>1. Common(fol.ents, L, n)
    BY <1>3, <1>6, <1>9, MatchTermCommon
  <2>2. FolOK(fol', L) /\ fol'.ents = fol.ents
    BY <1>9, <2>1, CommitToOK
  <2>3. FolStep(fol, fol', L)
    BY <2>2 DEF FolStep
  <2>4. Common(fol'.ents, L, n)
    BY <2>1, <2>2
  <2> QED BY <1>9, <2>3, <2>4, AnswersAck
<1>10. CASE n > b /\ ~matchTerm(fol, n, t) /\ fol' = [restoreLog(e) EXCEPT !.snap = 0] /\ toL' = Append(toL, Ack(n))
  <2>1. e = SubSeq(L, 1, n)
    <3>1. PICK z : z = SubSeq(L, 1, n)
      OBVIOUS
    <3>2. z \in Seq(Ents) /\ Len(z) = n /\ \A k \in 1..n : z[k] = L[k]
      BY <1>3, <3>1, PrefixIs
    <3>3. z = e
      BY <1>2, <1>3, <3>2, SeqsEqual
    <3> QED BY <3>1, <3>3
  <2>2. PICK g : g = [ents |-> e, first |-> n + 1, committed |-> n, snap |-> 0]
    OBVIOUS
  <2>3. fol' = g
    BY <1>2, <1>10, <2>2 DEF restoreLog
  <2>4. n + 1 \in Nat \ {0}
    OBVIOUS
  <2>5. g \in Logs
    BY <2>2, <2>4 DEF Logs
  <2>6. g.ents = SubSeq(L, 1, n) /\ g.first <= g.committed + 1 /\ g.committed <= n
    BY <2>1, <2>2
  <2>7. \A k \in Nat : Common(fol.ents, L, k) => k <= n
    <3>1. SUFFICES ASSUME NEW k \in Nat, Common(fol.ents, L, k), n <= k PROVE FALSE
      OBVIOUS
    <3>2. fol.committed <= n
      BY <1>4, <1>10
    <3>3. matchTerm(fol, n, t)
      BY <1>6, <3>1, <3>2, CommonMatchTerm
    <3> QED BY <1>10, <3>3
  <2>8. FolStep(fol, g, L) /\ Common(g.ents, L, n)
    BY <1>3, <2>5, <2>6, <2>7, PrefixOK
  <2>9. toL' \in Seq(TrueToLeader(g.ents, L))
    BY <1>10, <2>8, AnswersAck
  <2> QED BY <2>3, <2>8, <2>9
<1> QED BY <1>7, <1>8, <1>9, <1>10

\* Whatever the follower answers to a message, it is true.
LEMMA FollowerStepsOK ==
    ASSUME NEW L \in Seq(Ents), FolOK(fol, L), toL \in Seq(TrueToLeader(fol.ents, L)),
           NEW m \in TrueToFollower(fol.ents, L), FollowerSteps(m)
    PROVE  FolStep(fol, fol', L) /\ toL' \in Seq(TrueToLeader(fol'.ents, L))
BY HandleAppendEntriesOK, HandleHeartbeatOK, HandleSnapshotOK DEF FollowerSteps

-----------------------------------------------------------------------------
(* The leader.                                                             *)

\* Outside StateReplicate the window is empty, whatever Match and Next are.
LEMMA FlowIdle ==
    ASSUME NEW p, NEW in, NEW n, Flow(p, in, n), p.State # "StateReplicate",
           NEW x \in ProgressType, x.State = p.State, x.Inflights = p.Inflights, Within(x, n)
    PROVE  Flow(x, in, n)
BY DEF Flow, Outstanding

\* Progress x of p has no window, knows as much and stays within n entries.
Restarts(p, x, n) == Windowless(x) /\ x.Match = p.Match /\ Within(x, n)

\* BecomeProbe starts again behind Match or a pending snapshot.
LEMMA BecomeProbeIs ==
    ASSUME NEW p \in ProgressType, NEW n \in Nat, Within(p, n), NEW x, x = BecomeProbe(p)
    PROVE  Restarts(p, x, n) /\ x.State = "StateProbe"
<1>1. PICK M \in Nat, N \in Nat, S \in Nat, c \in Nat :
          M = p.Match /\ N = p.Next /\ S = p.PendingSnapshot /\ c = p.sentCommit
  BY ProgressTypes
<1>2. M < N /\ N <= n + 1 /\ S <= n
  BY <1>1 DEF Within
<1>3. PICK k : k = IF p.State = "StateSnapshot" THEN Greatest(M + 1, S + 1) ELSE M + 1
  OBVIOUS
<1>4. k \in Nat /\ k > M /\ k <= n + 1 /\ k # 0
  BY <1>2, <1>3 DEF Greatest
<1>5. PICK d : d = Least(c, k - 1)
  OBVIOUS
<1>6. d \in Nat
  BY <1>4, <1>5 DEF Least
<1>7. x = [[p EXCEPT !.MsgAppFlowPaused = FALSE, !.PendingSnapshot = 0, !.State = "StateProbe",
                     !.Inflights = << >>] EXCEPT !.Next = k, !.sentCommit = d]
  BY <1>1, <1>3, <1>5 DEF BecomeProbe, ResetState, ProgressType
<1>8. << >> \in Seq(Nat) /\ "StateProbe" \in ProgressState /\ k \in Nat \ {0}
  BY <1>4 DEF ProgressState
<1>9. x \in ProgressType
  <2>1. PICK y : y = [p EXCEPT !.MsgAppFlowPaused = FALSE, !.PendingSnapshot = 0, !.State = "StateProbe",
                               !.Inflights = << >>]
    OBVIOUS
  <2>2. y \in ProgressType
    BY <1>8, <2>1 DEF ProgressType
  <2>3. x = [y EXCEPT !.Next = k, !.sentCommit = d]
    BY <1>7, <2>1
  <2> QED BY <1>6, <1>8, <2>2, <2>3 DEF ProgressType
<1>10. /\ x.Match = M /\ x.Next = k /\ x.PendingSnapshot = 0 /\ x.Inflights = << >>
       /\ x.State = "StateProbe"
  BY <1>1, <1>7 DEF ProgressType
<1>11. Within(x, n)
  BY <1>4, <1>10 DEF Within
<1> QED BY <1>1, <1>9, <1>10, <1>11 DEF Restarts, Windowless

\* BecomeReplicate starts again behind Match.
LEMMA BecomeReplicateIs ==
    ASSUME NEW p \in ProgressType, NEW n \in Nat, p.Match <= n, NEW x, x = BecomeReplicate(p)
    PROVE  Restarts(p, x, n)
<1>1. PICK M \in Nat : M = p.Match
  BY ProgressTypes
<1>2. x = [[p EXCEPT !.MsgAppFlowPaused = FALSE, !.PendingSnapshot = 0, !.State = "StateReplicate",
                     !.Inflights = << >>] EXCEPT !.Next = M + 1]
  BY <1>1 DEF BecomeReplicate, ResetState
<1>3. << >> \in Seq(Nat) /\ "StateReplicate" \in ProgressState /\ M + 1 \in Nat \ {0}
  BY DEF ProgressState
<1>4. x \in ProgressType
  <2>1. PICK y : y = [p EXCEPT !.MsgAppFlowPaused = FALSE, !.PendingSnapshot = 0, !.State = "StateReplicate",
                               !.Inflights = << >>]
    OBVIOUS
  <2>2. y \in ProgressType
    BY <1>3, <2>1 DEF ProgressType
  <2>3. x = [y EXCEPT !.Next = M + 1]
    BY <1>2, <2>1
  <2> QED BY <1>3, <2>2, <2>3 DEF ProgressType
<1>5. x.Match = M /\ x.Next = M + 1 /\ x.PendingSnapshot = 0 /\ x.Inflights = << >>
  BY <1>1, <1>2 DEF ProgressType
<1>6. Within(x, n) /\ x.Next - 1 = x.Match
  BY <1>1, <1>5 DEF Within
<1> QED BY <1>1, <1>4, <1>5, <1>6 DEF Restarts, Windowless

\* Nothing is sent yet.
LEMMA NowOK ==
    ASSUME NEW l, NEW f, NEW p, NEW in, Flow(p, in, Len(l.log.ents)), NEW M, p.Match = M
    PROVE  SendOK(l, f, M, Now(p, in))
<1>1. Now(p, in).pr = p /\ Now(p, in).ring = in /\ Now(p, in).out = << >>
  BY DEF Now
<1>2. << >> \in Seq(TrueToFollower(f, l.log.ents))
  OBVIOUS
<1> QED BY <1>1, <1>2 DEF SendOK

\* What the leader sent is on its way, behind what was.
LEMMA SentOK ==
    ASSUME NEW l, NEW f, NEW M, NEW s, SendOK(l, f, M, s),
           toF \in Seq(TrueToFollower(f, l.log.ents)), Sent(s)
    PROVE  /\ Flow(pr', ring', Len(l.log.ents)) /\ pr'.Match = M
           /\ toF' \in Seq(TrueToFollower(f, l.log.ents))
<1>1. s.out \in Seq(TrueToFollower(f, l.log.ents))
  BY DEF SendOK
<1>2. toF \o s.out \in Seq(TrueToFollower(f, l.log.ents))
  BY <1>1
<1> QED BY <1>2 DEF SendOK, Sent

\* maybeCommit moves the commit index within the log.
LEMMA MaybeCommitOK ==
    ASSUME NEW l, LeadOK(l), NEW k \in Nat
    PROVE  LeadOK(maybeCommit(l, k)) /\ maybeCommit(l, k).log.ents = l.log.ents
<1>1. PICK i : i = Greatest(l.peer, k)
  OBVIOUS
<1>2. i \in Nat
  BY <1>1, LeadTypes DEF Greatest
<1>3. PICK x : x = maybeCommit(l, k)
  OBVIOUS
<1>4. CASE i > l.log.committed /\ matchTerm(l.log, i, Term)
  <2>1. x = [l EXCEPT !.log = commitTo(l.log, i)]
    BY <1>1, <1>3, <1>4 DEF maybeCommit
  <2>2. i <= Len(l.log.ents)
    BY <1>4 DEF matchTerm, HasTerm, lastIndex
  <2>3. PICK c \in Nat : c = l.log.committed
    BY LeadTypes
  <2>4. c < i
    BY <1>2, <1>4, <2>3
  <2>5. l \in Leaders /\ l.log \in Logs
    BY LeadTypes DEF LeadOK
  <2>6. PICK g : g = commitTo(l.log, i)
    OBVIOUS
  <2>7. g = [l.log EXCEPT !.committed = i]
    BY <2>3, <2>4, <2>5, <2>6 DEF commitTo, Logs
  <2>8. g \in Logs /\ g.ents = l.log.ents /\ g.first = l.log.first /\ g.committed = i
    BY <1>2, <2>5, <2>7 DEF Logs
  <2>9. x \in Leaders /\ x.log = g /\ x.snapshot = l.snapshot
    BY <2>1, <2>5, <2>6, <2>8 DEF Leaders
  <2>10. l.snapshot <= i
    BY <1>2, <2>3, <2>4, LeadTypes
  <2>11. l.log.first <= l.snapshot + 1
    BY LeadTypes
  <2> QED BY <1>3, <2>2, <2>8, <2>9, <2>10, <2>11 DEF LeadOK
<1>5. CASE ~(i > l.log.committed /\ matchTerm(l.log, i, Term))
  <2>1. x = l
    BY <1>1, <1>3, <1>5 DEF maybeCommit
  <2> QED BY <1>3, <2>1
<1> QED BY <1>4, <1>5

\* The leader, in this step, has Progress p and ring in, and f is the follower's
\* log.
Leads(l, f, p, in) ==
    LeadOK(l) /\ Common(f, l.log.ents, p.Match) /\ Flow(p, in, Len(l.log.ents))

\* A MsgAppResp of the follower that rejects.
LEMMA RejectTypes ==
    ASSUME NEW f, NEW L, NEW m \in TrueToLeader(f, L), m.type = "MsgAppResp", m.reject
    PROVE  m.index \in Nat /\ m.rejectHint \in Nat /\ m.logTerm \in Nat
<1>1. m \in ToLeader
  BY DEF TrueToLeader
<1>2. m \in [type : {"MsgAppResp"}, reject : {TRUE}, index : Nat, rejectHint : Nat, logTerm : Nat]
  <2>1. m \notin [type : {"MsgAppResp"}, reject : {FALSE}, index : Nat]
    OBVIOUS
  <2>2. m \notin [type : {"MsgHeartbeatResp"}]
    OBVIOUS
  <2> QED BY <1>1, <2>1, <2>2 DEF ToLeader
<1> QED BY <1>2

\* One that acks.
LEMMA AckTypes ==
    ASSUME NEW f, NEW L, NEW m \in TrueToLeader(f, L), m.type = "MsgAppResp", ~m.reject
    PROVE  m.index \in Nat /\ Common(f, L, m.index)
<1>1. m \in ToLeader /\ Common(f, L, m.index)
  BY DEF TrueToLeader
<1>2. m.index \in Nat
  BY <1>1 DEF ToLeader
<1> QED BY <1>1, <1>2

\* Progress that heard of the follower.
LEMMA ActiveIs ==
    ASSUME NEW n, Flow(pr, ring, n)
    PROVE  SameWindow(pr, Active) /\ Flow(Active, ring, n) /\ Active \in ProgressType
<1>1. pr \in ProgressType
  BY DEF Flow
<1>2. SameWindow(pr, Active)
  BY <1>1 DEF SameWindow, Active, ProgressType
<1>3. Flow(Active, ring, n)
  BY <1>2, FlowSame
<1> QED BY <1>2, <1>3 DEF SameWindow

\* A genuine rejection lets Next fall, and not below Match + 1.
LEMMA MaybeDecrToIs ==
    ASSUME NEW p \in ProgressType, NEW n \in Nat, Within(p, n), NEW i \in Nat,
           NEW h \in Nat, IsGenuine(p, i),
           NEW x, x = MaybeDecrTo(p, i, h)
    PROVE  /\ x \in ProgressType /\ x.State = p.State /\ x.Match = p.Match /\ x.Inflights = p.Inflights
           /\ Within(x, n)
<1>1. PICK M \in Nat, N \in Nat, c \in Nat :
          M = p.Match /\ N = p.Next /\ c = p.sentCommit
  BY ProgressTypes
<1>2. M < N /\ N <= n + 1 /\ p.PendingSnapshot <= n
  BY <1>1 DEF Within
<1>3. PICK k : k = IF p.State = "StateReplicate" THEN M + 1 ELSE Greatest(Least(i, h + 1), M + 1)
  OBVIOUS
<1>4. p.State # "StateReplicate" => i = N - 1
  BY <1>1 DEF IsGenuine
<1>5. k \in Nat /\ k > M /\ k <= n + 1 /\ k # 0
  <2>1. CASE p.State = "StateReplicate"
    BY <1>2, <1>3, <2>1
  <2>2. CASE p.State # "StateReplicate"
    BY <1>2, <1>3, <1>4, <2>2 DEF Greatest, Least
  <2> QED BY <2>1, <2>2
<1>6. PICK d : d = Least(c, k - 1)
  OBVIOUS
<1>7. d \in Nat
  BY <1>5, <1>6 DEF Least
<1>8. PICK b \in BOOLEAN : b = (p.MsgAppFlowPaused /\ p.State = "StateReplicate")
  OBVIOUS
<1>9. x = [p EXCEPT !.Next = k, !.sentCommit = d, !.MsgAppFlowPaused = b]
  BY <1>1, <1>3, <1>6, <1>8 DEF MaybeDecrTo, ProgressType
<1>10. x \in ProgressType
  <2>1. k \in Nat \ {0}
    BY <1>5
  <2> QED BY <1>7, <1>9, <2>1 DEF ProgressType
<1>11. /\ x.Match = M /\ x.Next = k /\ x.PendingSnapshot = p.PendingSnapshot /\ x.Inflights = p.Inflights
       /\ x.State = p.State
  BY <1>1, <1>9 DEF ProgressType
<1>12. Within(x, n)
  BY <1>2, <1>5, <1>11 DEF Within
<1> QED BY <1>1, <1>10, <1>11, <1>12

\* MsgAppResp with Reject.
LEMMA HandleAppendRejectOK ==
    ASSUME NEW L \in Seq(Ents), NEW f, L = lead.log.ents, Leads(lead, f, pr, ring),
           toF \in Seq(TrueToFollower(f, L)),
           NEW m \in TrueToLeader(f, L), HandleAppendReject(m)
    PROVE  lead' = lead /\ Leads(lead, f, pr', ring') /\ toF' \in Seq(TrueToFollower(f, L))
<1>0. PICK M : M = pr.Match
  OBVIOUS
<1>1. PICK n \in Nat : n = Len(L)
  OBVIOUS
<1>2. LeadOK(lead) /\ Common(f, L, M) /\ Flow(pr, ring, n)
  BY <1>0, <1>1 DEF Leads
<1>3. m.type = "MsgAppResp" /\ m.reject /\ lead' = lead
  BY DEF HandleAppendReject
<1>4. PICK i \in Nat, h \in Nat : i = m.index /\ h = m.rejectHint
  BY <1>3, RejectTypes
<1>5. PICK probe : probe = IF m.logTerm > 0 THEN findConflictByTerm(lead.log, m.rejectHint, m.logTerm) ELSE m.rejectHint
  OBVIOUS
<1>6. probe \in Nat
  <2>1. findConflictByTerm(lead.log, h, m.logTerm) \in 0..h
    BY FindConflictByTermType
  <2> QED BY <1>4, <1>5, <2>1
<1>7. PICK p : p = Active
  OBVIOUS
<1>8. SameWindow(pr, p) /\ Flow(p, ring, n) /\ p \in ProgressType
  BY <1>2, <1>7, ActiveIs
<1>9. p.Match = M /\ p.State = pr.State /\ Within(p, n)
  BY <1>0, <1>1, <1>8 DEF SameWindow, Flow
<1>10. PICK d : d = MaybeDecrTo(p, i, probe)
  OBVIOUS
<1>11. PICK s : s = IF IsGenuine(p, i)
                    THEN sendAppend(lead, IF pr.State = "StateReplicate"
                                          THEN Now(BecomeProbe(d), Ring!reset(ring)) ELSE Now(d, ring))
                    ELSE Now(p, ring)
  OBVIOUS
<1>12. Sent(s)
  BY <1>4, <1>5, <1>7, <1>10, <1>11 DEF HandleAppendReject
<1>13. SendOK(lead, f, M, s)
  <2>1. CASE ~IsGenuine(p, i)
    <3>1. s = Now(p, ring)
      BY <1>11, <2>1
    <3> QED BY <1>0, <1>1, <1>8, <1>9, <3>1, NowOK
  <2>2. CASE IsGenuine(p, i)
    <3>1. /\ d \in ProgressType /\ d.State = p.State /\ d.Match = M /\ d.Inflights = p.Inflights
          /\ Within(d, n)
      BY <1>6, <1>8, <1>9, <1>10, <2>2, MaybeDecrToIs
    <3>2. CASE pr.State = "StateReplicate"
      <4>1. PICK x : x = BecomeProbe(d)
        OBVIOUS
      <4>2. Restarts(d, x, n)
        BY <3>1, <4>1, BecomeProbeIs
      <4>3. Flow(x, Ring!reset(ring), n) /\ x.Match = M
        BY <1>2, <3>1, <4>2, FlowReset DEF Restarts
      <4>4. SendOK(lead, f, M, Now(x, Ring!reset(ring)))
        BY <1>0, <1>1, <4>3, NowOK
      <4>5. s = sendAppend(lead, Now(x, Ring!reset(ring)))
        BY <1>11, <2>2, <3>2, <4>1
      <4> QED BY <1>2, <4>4, <4>5, SendAppendOK
    <3>3. CASE pr.State # "StateReplicate"
      <4>1. Flow(d, ring, n)
        BY <1>8, <1>9, <3>1, <3>3, FlowIdle
      <4>2. SendOK(lead, f, M, Now(d, ring))
        BY <1>0, <1>1, <3>1, <4>1, NowOK
      <4>3. s = sendAppend(lead, Now(d, ring))
        BY <1>11, <2>2, <3>3
      <4> QED BY <1>2, <4>2, <4>3, SendAppendOK
    <3> QED BY <3>2, <3>3
  <2> QED BY <2>1, <2>2
<1>14. Flow(pr', ring', n) /\ pr'.Match = M /\ toF' \in Seq(TrueToFollower(f, L))
  BY <1>0, <1>1, <1>12, <1>13, SentOK
<1> QED BY <1>0, <1>1, <1>2, <1>3, <1>14 DEF Leads

\* Progress p after an ack up to index i that is news, or is what p knows.
Updated(p, x, i) ==
    /\ x \in ProgressType /\ x.State = p.State /\ x.Match = i /\ x.Inflights = p.Inflights
    /\ x.Next = Greatest(p.Next, i + 1) /\ x.PendingSnapshot = p.PendingSnapshot

\* That is what MaybeUpdate makes of it.
LEMMA MaybeUpdateIs ==
    ASSUME NEW p \in ProgressType, NEW n \in Nat, Within(p, n), NEW i \in Nat, i <= n,
           IsNews(p, i) \/ p.Match = i, NEW x, x = MaybeUpdate(p, i)
    PROVE  Updated(p, x, i) /\ Within(x, n)
<1>1. PICK M \in Nat, N \in Nat : M = p.Match /\ N = p.Next
  BY ProgressTypes
<1>2. M < N /\ N <= n + 1 /\ p.PendingSnapshot <= n
  BY <1>1 DEF Within
<1>3. PICK k : k = Greatest(N, i + 1)
  OBVIOUS
<1>4. k \in Nat \ {0} /\ k > i /\ k <= n + 1
  BY <1>2, <1>3 DEF Greatest
<1>5. CASE IsNews(p, i)
  <2>1. x = [p EXCEPT !.Match = i, !.Next = k, !.MsgAppFlowPaused = FALSE]
    BY <1>1, <1>3, <1>5 DEF MaybeUpdate
  <2>2. x \in ProgressType
    BY <1>4, <2>1 DEF ProgressType
  <2>3. /\ x.State = p.State /\ x.Match = i /\ x.Inflights = p.Inflights
        /\ x.Next = k /\ x.PendingSnapshot = p.PendingSnapshot
    BY <2>1 DEF ProgressType
  <2>4. Within(x, n)
    BY <1>2, <1>4, <2>3 DEF Within
  <2> QED BY <1>1, <1>3, <2>2, <2>3, <2>4 DEF Updated
<1>6. CASE ~IsNews(p, i)
  <2>1. x = p /\ M = i
    BY <1>1, <1>6 DEF MaybeUpdate
  <2>2. k = N
    BY <1>2, <1>3, <2>1 DEF Greatest
  <2> QED BY <1>1, <1>3, <2>1, <2>2 DEF Updated
<1> QED BY <1>5, <1>6

\* The window in StateReplicate after the ack.
LEMMA UpdatedPops ==
    ASSUME NEW p, NEW u, NEW i, Updated(p, u, i),
           NEW x, x = [u EXCEPT !.Inflights = FreeLE(@, i)],
           FreeLE(u.Inflights, i) \in Seq(Nat)
    PROVE  Popped(p, x, i)
<1>1. PICK q \in Seq(Nat) : q = FreeLE(u.Inflights, i)
  OBVIOUS
<1>2. u \in ProgressType
  BY DEF Updated
<1>3. x = [u EXCEPT !.Inflights = q]
  BY <1>1, <1>2 DEF ProgressType
<1>4. x \in ProgressType
  BY <1>2, <1>3 DEF ProgressType
<1>5. /\ x.State = u.State /\ x.Match = u.Match /\ x.Next = u.Next
      /\ x.PendingSnapshot = u.PendingSnapshot /\ x.Inflights = q
  BY <1>2, <1>3 DEF ProgressType
<1>6. u.Inflights = p.Inflights
  BY DEF Updated
<1> QED BY <1>1, <1>4, <1>5, <1>6, Zenon DEF Updated, Popped

\* FreeLE leaves a part of the window.
LEMMA FreeLEType ==
    ASSUME NEW q \in Seq(Nat), NEW i \in Nat
    PROVE  FreeLE(q, i) \in Seq(Nat)
<1>1. PICK B : B = {k \in 1..Len(q) : q[k] > i}
  OBVIOUS
<1>2. CASE B = {}
  BY <1>1, <1>2 DEF FreeLE
<1>3. CASE B # {}
  <2>1. B \subseteq Nat
    BY <1>1
  <2>2. \E k \in B : \A j \in B : k <= j
    BY <1>3, <2>1, LeastExists
  <2>3. PICK c : c = CHOOSE k \in B : \A j \in B : k <= j
    OBVIOUS
  <2>4. c \in B
    BY <2>2, <2>3
  <2>5. c \in 1..Len(q)
    BY <1>1, <2>4
  <2>6. FreeLE(q, i) = SubSeq(q, c, Len(q))
    BY <1>1, <1>3, <2>3 DEF FreeLE
  <2> QED BY <2>5, <2>6
<1> QED BY <1>2, <1>3

\* What an ack makes of Progress and of its window.
LEMMA AckedOK ==
    ASSUME NEW f, LeadOK(lead), NEW n \in Nat, n = Len(lead.log.ents),
           NEW p, Flow(p, ring, n), NEW i \in Nat, i <= n,
           i > p.Match \/ (p.Match = i /\ p.State = "StateProbe"),
           NEW u, Updated(p, u, i), Within(u, n)
    PROVE  SendOK(lead, f, i, Acked(u, i))
<1>1. u \in ProgressType /\ u.State = p.State /\ u.Match = i /\ u.Inflights = p.Inflights /\ u.State \in ProgressState
  BY ProgressTypes DEF Updated
<1>2. CASE u.State = "StateProbe"
  <2>1. PICK x : x = BecomeReplicate(u)
    OBVIOUS
  <2>2. Restarts(u, x, n)
    BY <1>1, <2>1, BecomeReplicateIs
  <2>3. Flow(x, Ring!reset(ring), n) /\ x.Match = i
    BY <1>1, <2>2, FlowReset DEF Restarts
  <2>4. Acked(u, i) = Now(x, Ring!reset(ring))
    BY <1>2, <2>1 DEF Acked
  <2> QED BY <2>3, <2>4, NowOK
<1>3. CASE u.State = "StateSnapshot" /\ u.Match + 1 >= lead.log.first
  <2>1. PICK y : y = BecomeProbe(u)
    OBVIOUS
  <2>2. Restarts(u, y, n)
    BY <1>1, <2>1, BecomeProbeIs
  <2>3. y \in ProgressType /\ y.Match = i
    BY <1>1, <2>2 DEF Restarts, Windowless
  <2>4. PICK x : x = BecomeReplicate(y)
    OBVIOUS
  <2>5. Restarts(y, x, n)
    BY <2>3, <2>4, BecomeReplicateIs
  <2>6. Flow(x, Ring!reset(ring), n) /\ x.Match = i
    BY <2>3, <2>5, FlowReset DEF Restarts
  <2>7. Acked(u, i) = Now(x, Ring!reset(ring))
    BY <1>3, <2>1, <2>4 DEF Acked
  <2> QED BY <2>6, <2>7, NowOK
<1>4. CASE u.State = "StateReplicate"
  <2>1. PICK x : x = [u EXCEPT !.Inflights = FreeLE(@, i)]
    OBVIOUS
  <2>2. FreeLE(u.Inflights, i) \in Seq(Nat)
    BY <1>1, ProgressTypes, FreeLEType
  <2>3. Popped(p, x, i)
    BY <2>1, <2>2, UpdatedPops
  <2>4. i > p.Match
    BY <1>1, <1>4
  <2>5. Flow(x, Ring!FreeLE(ring, i), n)
    BY <1>1, <1>4, <2>3, <2>4, FlowPop
  <2>6. x.Match = i
    BY <2>3 DEF Popped
  <2>7. Acked(u, i) = Now(x, Ring!FreeLE(ring, i))
    BY <1>4, <2>1 DEF Acked
  <2> QED BY <2>5, <2>6, <2>7, NowOK
<1>5. CASE u.State = "StateSnapshot" /\ ~(u.Match + 1 >= lead.log.first)
  <2>1. Flow(u, ring, n)
    BY <1>1, <1>5, FlowIdle
  <2>2. Acked(u, i) = Now(u, ring)
    BY <1>5 DEF Acked
  <2> QED BY <1>1, <2>1, <2>2, NowOK
<1> QED BY <1>1, <1>2, <1>3, <1>4, <1>5 DEF ProgressState

\* SendOK depends on the leader's entries only.
LEMMA SendOKSame ==
    ASSUME NEW l, NEW k, k.log.ents = l.log.ents, NEW f, NEW M, NEW s, SendOK(l, f, M, s)
    PROVE  SendOK(k, f, M, s)
BY DEF SendOK

\* MsgAppResp that is an ack: the commit index may move, and more is sent.
LEMMA HandleAppendAckOK ==
    ASSUME NEW L \in Seq(Ents), NEW f \in Seq(Ents), L = lead.log.ents,
           Leads(lead, f, pr, ring),
           toF \in Seq(TrueToFollower(f, L)), NEW m \in TrueToLeader(f, L), HandleAppendAck(m)
    PROVE  lead'.log.ents = L /\ Leads(lead', f, pr', ring') /\ toF' \in Seq(TrueToFollower(f, L))
<1>0. PICK M : M = pr.Match
  OBVIOUS
<1>1. PICK n \in Nat : n = Len(L)
  OBVIOUS
<1>2. LeadOK(lead) /\ Common(f, L, M) /\ Flow(pr, ring, n)
  BY <1>0, <1>1 DEF Leads
<1>3. m.type = "MsgAppResp" /\ ~m.reject
  BY DEF HandleAppendAck
<1>4. PICK i \in Nat : i = m.index /\ Common(f, L, i) /\ i <= n
  <2>1. m.index \in Nat /\ Common(f, L, m.index)
    BY <1>3, AckTypes
  <2>2. m.index <= n
    BY <1>0, <1>1, <2>1 DEF Common
  <2> QED BY <2>1, <2>2
<1>5. PICK p : p = Active
  OBVIOUS
<1>6. SameWindow(pr, p) /\ Flow(p, ring, n) /\ p \in ProgressType
  BY <1>2, <1>5, ActiveIs
<1>7. p.Match = M /\ p.State = pr.State /\ Within(p, n)
  BY <1>0, <1>1, <1>6 DEF SameWindow, Flow
<1>8. CASE IsNews(pr, i) \/ (pr.Match = i /\ pr.State = "StateProbe")
  <2>1. PICK u : u = MaybeUpdate(p, i)
    OBVIOUS
  <2>2. IsNews(p, i) \/ p.Match = i
    BY <1>0, <1>1, <1>7, <1>8 DEF IsNews
  <2>3. Updated(p, u, i) /\ Within(u, n)
    BY <1>4, <1>6, <1>7, <2>1, <2>2, MaybeUpdateIs
  <2>4. i > p.Match \/ (p.Match = i /\ p.State = "StateProbe")
    BY <1>0, <1>1, <1>7, <1>8 DEF IsNews
  <2>5. PICK s : s = Acked(u, i)
    OBVIOUS
  <2>6. SendOK(lead, f, i, s)
    BY <1>0, <1>1, <1>2, <1>4, <1>6, <2>3, <2>4, <2>5, AckedOK
  <2>7. s.pr.Match = i
    BY <2>6 DEF SendOK
  <2>8. PICK l : l = maybeCommit(lead, i)
    OBVIOUS
  <2>9. LeadOK(l) /\ l.log.ents = L
    BY <1>2, <2>8, MaybeCommitOK
  <2>10. SendOK(l, f, i, s)
    BY <2>6, <2>9, SendOKSame
  <2>11. SendOK(l, f, i, sendAppend(l, s))
    BY <2>9, <2>10, SendAppendOK
  <2>13. PICK z : z = IF l.log.committed > lead.log.committed \/ CanBumpCommit(s.pr, l.log.committed)
                      THEN sendAppend(l, s) ELSE s
    OBVIOUS
  <2>14. SendOK(l, f, i, z)
    BY <2>10, <2>11, <2>13
  <2>15. SendOK(l, f, i, sendMore(l, z))
    BY <2>9, <2>14, SendMoreOK
  <2>16. lead' = l /\ Sent(sendMore(l, z))
    BY <1>4, <1>5, <1>8, <2>1, <2>5, <2>7, <2>8, <2>13 DEF HandleAppendAck
  <2>17. Flow(pr', ring', n) /\ pr'.Match = i /\ toF' \in Seq(TrueToFollower(f, L))
    BY <1>0, <1>1, <2>9, <2>15, <2>16, SentOK
  <2> QED BY <1>0, <1>1, <1>4, <2>9, <2>16, <2>17 DEF Leads
<1>9. CASE ~(IsNews(pr, i) \/ (pr.Match = i /\ pr.State = "StateProbe"))
  <2>1. lead' = lead /\ Sent(Now(p, ring))
    BY <1>4, <1>5, <1>9 DEF HandleAppendAck
  <2>2. SendOK(lead, f, M, Now(p, ring))
    BY <1>0, <1>1, <1>6, <1>7, NowOK
  <2>3. Flow(pr', ring', n) /\ pr'.Match = M /\ toF' \in Seq(TrueToFollower(f, L))
    BY <1>0, <1>1, <2>1, <2>2, SentOK
  <2> QED BY <1>0, <1>1, <1>2, <2>1, <2>3 DEF Leads
<1> QED BY <1>8, <1>9

\* MsgHeartbeatResp: the pause ends.
LEMMA HandleHeartbeatRespOK ==
    ASSUME NEW L \in Seq(Ents), NEW f, L = lead.log.ents, Leads(lead, f, pr, ring),
           toF \in Seq(TrueToFollower(f, L)), NEW m, HandleHeartbeatResp(m)
    PROVE  lead' = lead /\ Leads(lead, f, pr', ring') /\ toF' \in Seq(TrueToFollower(f, L))
<1>0. PICK M : M = pr.Match
  OBVIOUS
<1>1. PICK n \in Nat : n = Len(L)
  OBVIOUS
<1>2. LeadOK(lead) /\ Common(f, L, M) /\ Flow(pr, ring, n)
  BY <1>0, <1>1 DEF Leads
<1>3. PICK p : p = Active
  OBVIOUS
<1>4. SameWindow(pr, p) /\ p \in ProgressType
  BY <1>2, <1>3, ActiveIs
<1>5. PICK x : x = [p EXCEPT !.MsgAppFlowPaused = FALSE]
  OBVIOUS
<1>6. SameWindow(pr, x)
  BY <1>4, <1>5 DEF SameWindow, ProgressType
<1>7. Flow(x, ring, n) /\ x.Match = M
  BY <1>0, <1>1, <1>2, <1>6, FlowSame DEF SameWindow
<1>8. PICK s : s = Now(x, ring)
  OBVIOUS
<1>9. SendOK(lead, f, M, s)
  BY <1>0, <1>1, <1>7, <1>8, NowOK
<1>10. SendOK(lead, f, M, sendAppend(lead, s))
  BY <1>2, <1>9, SendAppendOK
<1>11. lead' = lead /\ (Sent(s) \/ Sent(sendAppend(lead, s)))
  BY <1>3, <1>5, <1>8 DEF HandleHeartbeatResp
<1>12. Flow(pr', ring', n) /\ pr'.Match = M /\ toF' \in Seq(TrueToFollower(f, L))
  BY <1>0, <1>1, <1>9, <1>10, <1>11, SentOK
<1> QED BY <1>0, <1>1, <1>2, <1>11, <1>12 DEF Leads

\* Whatever the leader makes of a message, it sends what is true.
LEMMA LeaderStepsOK ==
    ASSUME NEW L \in Seq(Ents), NEW f \in Seq(Ents), L = lead.log.ents,
           Leads(lead, f, pr, ring),
           toF \in Seq(TrueToFollower(f, L)), NEW m \in TrueToLeader(f, L), LeaderSteps(m)
    PROVE  lead'.log.ents = L /\ Leads(lead', f, pr', ring') /\ toF' \in Seq(TrueToFollower(f, L))
BY HandleAppendRejectOK, HandleAppendAckOK, HandleHeartbeatRespOK DEF LeaderSteps

-----------------------------------------------------------------------------
(* The leader's log grows.                                                 *)

\* L with one more entry, of the leader's term.
Grows(L, K) == \E e \in Ents : e.term = Term /\ K = Append(L, e)

\* What is at the old indexes.
LEMMA GrowsIs ==
    ASSUME NEW L \in Seq(Ents), NEW n \in Nat, n = Len(L), NEW K, Grows(L, K)
    PROVE  /\ K \in Seq(Ents) /\ Len(K) = n + 1 /\ \A i \in 1..n : K[i] = L[i]
           /\ K[n + 1].term = Term
<1>1. PICK e \in Ents : e.term = Term /\ K = Append(L, e)
  BY DEF Grows
<1> QED BY <1>1, AppendIs

\* What was shared is shared still.
LEMMA CommonGrows ==
    ASSUME NEW a \in Seq(Ents), NEW L \in Seq(Ents), NEW K, Grows(L, K),
           NEW i \in Nat, Common(a, L, i)
    PROVE  Common(a, K, i)
<1>1. PICK n \in Nat : n = Len(L)
  OBVIOUS
<1>2. Len(K) = n + 1 /\ \A j \in 1..n : K[j] = L[j]
  BY <1>1, GrowsIs
<1>3. i <= Len(a) /\ i <= n /\ \A j \in 1..i : a[j] = L[j]
  BY <1>1 DEF Common
<1> QED BY <1>2, <1>3 DEF Common

\* The follower, which has no entry of the leader's term that the leader has not,
\* cannot have the new one.
LEMMA FolGrows ==
    ASSUME NEW L \in Seq(Ents), NEW K, Grows(L, K), NEW f, FolOK(f, L)
    PROVE  FolOK(f, K)
<1>1. PICK n \in Nat, a \in Seq(Ents), c \in Nat : n = Len(L) /\ a = f.ents /\ c = f.committed
  BY FolTypes
<1>2. Len(K) = n + 1 /\ (\A j \in 1..n : K[j] = L[j]) /\ K[n + 1].term = Term
  BY <1>1, GrowsIs
<1>3. Common(a, K, c)
  <2>1. Common(a, L, c)
    BY <1>1, FolTypes
  <2> QED BY <2>1, CommonGrows
<1>4. Matches(a, L) /\ \A i \in 1..Len(a) : a[i].term = Term => i <= n
  BY <1>1 DEF FolOK
<1>5. ASSUME NEW i \in 1..Len(a), i <= Len(K), a[i].term = K[i].term
      PROVE  Common(a, K, i)
  <2>1. i <= n
    <3>1. CASE i = n + 1
      <4>1. a[i].term = Term
        BY <1>2, <1>5, <3>1
      <4> QED BY <1>4, <4>1
    <3> QED BY <1>2, <1>5, <3>1
  <2>2. a[i].term = L[i].term
    BY <1>2, <1>5, <2>1
  <2>3. Common(a, L, i)
    BY <1>1, <1>4, <2>1, <2>2 DEF Matches
  <2> QED BY <2>3, CommonGrows
<1>6. Matches(a, K)
  BY <1>5 DEF Matches
<1>7. \A i \in 1..Len(a) : a[i].term = Term => i <= Len(K)
  BY <1>2, <1>4
<1>8. f \in Logs /\ f.first <= f.committed + 1
  BY FolTypes
<1> QED BY <1>1, <1>3, <1>6, <1>7, <1>8 DEF FolOK

\* Entries of the log are entries of the longer one.
LEMMA PartGrows ==
    ASSUME NEW L \in Seq(Ents), NEW K, Grows(L, K), NEW es \in Seq(Ents),
           NEW from \in Nat, from > 0, PartOf(es, from, L)
    PROVE  PartOf(es, from, K)
<1>1. PICK n \in Nat, m \in Nat : n = Len(L) /\ m = Len(es)
  OBVIOUS
<1>2. Len(K) = n + 1 /\ \A j \in 1..n : K[j] = L[j]
  BY <1>1, GrowsIs
<1>3. from + m <= n + 1 /\ \A k \in 1..m : es[k] = L[from - 1 + k]
  BY <1>1 DEF PartOf
<1>4. \A k \in 1..m : es[k] = K[from - 1 + k]
  BY <1>2, <1>3
<1> QED BY <1>1, <1>2, <1>3, <1>4 DEF PartOf

\* The messages stay true.
LEMMA MessagesGrow ==
    ASSUME NEW f \in Seq(Ents), NEW L \in Seq(Ents), NEW K, Grows(L, K)
    PROVE  /\ TrueToFollower(f, L) \subseteq TrueToFollower(f, K)
           /\ TrueToLeader(f, L) \subseteq TrueToLeader(f, K)
<1>1. ASSUME NEW m \in TrueToFollower(f, L)
      PROVE  m \in TrueToFollower(f, K)
  <2>1. m \in ToFollower
    BY DEF TrueToFollower
  <2>2. ASSUME m.type = "MsgApp" PROVE TrueApp(m, K)
    <3>1. m.index \in Nat /\ m.entries \in Seq(Ents) /\ TrueApp(m, L)
      BY <2>2, AppTypes
    <3>2. PICK i \in Nat, es \in Seq(Ents), n \in Nat, k \in Nat :
              i = m.index /\ es = m.entries /\ n = Len(L) /\ k = Len(es)
      BY <3>1
    <3>3. PartOf(es, i + 1, L) /\ m.logTerm = TermAt(L, i)
      BY <3>1, <3>2 DEF TrueApp
    <3>4. PartOf(es, i + 1, K)
      BY <3>3, PartGrows
    <3>5. i <= n
      BY <3>2, <3>3 DEF PartOf
    <3>6. \A j \in 1..n : K[j] = L[j]
      BY <3>2, GrowsIs
    <3>7. TermAt(K, i) = TermAt(L, i)
      BY <3>5, <3>6 DEF TermAt
    <3> QED BY <3>2, <3>3, <3>4, <3>7 DEF TrueApp
  <2>3. ASSUME m.type = "MsgSnap" PROVE PartOf(m.snapshot, 1, K)
    BY <2>3, SnapTypes, PartGrows
  <2>4. ASSUME m.type = "MsgHeartbeat" PROVE Common(f, K, m.commit)
    BY <2>4, BeatTypes, CommonGrows
  <2> QED BY <2>1, <2>2, <2>3, <2>4 DEF TrueToFollower
<1>2. ASSUME NEW m \in TrueToLeader(f, L)
      PROVE  m \in TrueToLeader(f, K)
  <2>1. m \in ToLeader
    BY DEF TrueToLeader
  <2>2. ASSUME m.type = "MsgAppResp", ~m.reject PROVE Common(f, K, m.index)
    BY <2>2, AckTypes, CommonGrows
  <2> QED BY <2>1, <2>2 DEF TrueToLeader
<1> QED BY <1>1, <1>2

-----------------------------------------------------------------------------
(* The initial state.                                                      *)

\* Logs of entries of earlier terms are logs.
LEMMA OldLogs ==
    ASSUME NEW g \in OldLog
    PROVE  g \in Logs /\ \A i \in 1..Len(g.ents) : g.ents[i].term # Term
<1>1. g.ents \in Seq([term : 1..(Term - 1), data : Nat])
  BY DEF OldLog
<1>2. [term : 1..(Term - 1), data : Nat] \subseteq Ents
  BY DEF Ents
<1>3. g.ents \in Seq(Ents)
  BY <1>1, <1>2, SeqMonotone
<1>4. g \in Logs
  <2>1. g = [ents |-> g.ents, first |-> g.first, committed |-> g.committed, snap |-> g.snap]
    BY DEF OldLog
  <2>2. g.first \in Nat \ {0} /\ g.committed \in Nat /\ g.snap \in {0}
    BY DEF OldLog
  <2> QED BY <1>3, <2>1, <2>2 DEF Logs
<1>5. ASSUME NEW i \in 1..Len(g.ents)
      PROVE  g.ents[i].term # Term
  <2>1. PICK S, q : S = [term : 1..(Term - 1), data : Nat] /\ q = g.ents
    OBVIOUS
  <2>2. q \in Seq(S)
    BY <1>1, <2>1
  <2>3. i \in 1..Len(q)
    BY <2>1
  <2>4. q[i] \in S
    BY <2>2, <2>3
  <2>5. q[i].term \in 1..(Term - 1)
    BY <2>1, <2>4
  <2> QED BY <2>1, <2>5, ReplicationAssumption
<1> QED BY <1>4, <1>5

\* A new Progress.
LEMMA NewProgressFlows ==
    ASSUME NEW n \in Nat, n > 0, NEW p, p = NewProgress(0, n, FALSE)
    PROVE  Flow(p, Ring!NewInflights, n)
<1>1. << >> \in Seq(Nat) /\ "StateProbe" \in ProgressState
  BY DEF ProgressState
<1>2. p \in ProgressType
  BY <1>1 DEF ProgressType, NewProgress
<1>3. /\ p.Match = 0 /\ p.Next = n /\ p.State = "StateProbe" /\ p.PendingSnapshot = 0
      /\ p.Inflights = << >>
  BY DEF NewProgress
<1>4. Within(p, n)
  <2>1. 0 < n /\ n <= n + 1 /\ 0 <= n
    OBVIOUS
  <2> QED BY <1>3, <2>1, Zenon DEF Within
<1>5. Outstanding(p, << >>)
  BY <1>2, <1>3, EmptyOutstanding DEF Windowless
<1>6. << >> \in Seq(Items)
  OBVIOUS
<1> QED BY <1>2, <1>4, <1>5, <1>6, NewHolds DEF Flow

\* becomeLeader and bcastAppend establish the invariant.
LEMMA InitOK == Init => ReplicationInv
<1> SUFFICES ASSUME Init PROVE ReplicationInv
  OBVIOUS
<1>1. PICK st \in Starts :
        LET old == st.lead
            l   == [log |-> [ents |-> Append(old.ents, [term |-> Term, data |-> 0]),
                             first |-> old.first, committed |-> old.committed, snap |-> 0],
                    snapshot |-> old.first - 1, peer |-> 0]
            s   == sendAppend(l, Now(NewProgress(0, Len(old.ents) + 1, FALSE), Ring!NewInflights))
        IN  /\ lead = l /\ fol = st.fol
            /\ pr = s.pr /\ ring = s.ring /\ toF = s.out /\ toL = << >>
            /\ reports = {} /\ faults = 0
  BY DEF Init
<1>2. PICK old, f : old = st.lead /\ f = st.fol
  OBVIOUS
<1>3. /\ old \in OldLog /\ old.first <= old.committed + 1 /\ old.committed <= Len(old.ents)
      /\ f \in OldLog /\ f.first <= f.committed + 1
      /\ Matches(f.ents, old.ents) /\ Common(f.ents, old.ents, f.committed)
  BY <1>2, StartAssumption DEF ValidStart, Matches
<1>4. old \in Logs /\ f \in Logs /\ \A i \in 1..Len(f.ents) : f.ents[i].term # Term
  BY <1>3, OldLogs
<1>5. PICK B \in Seq(Ents), n \in Nat, d \in Nat, c \in Nat :
          B = old.ents /\ n = Len(B) /\ d = old.first /\ c = old.committed /\ d > 0
  BY <1>4 DEF Logs
<1>6. d <= c + 1 /\ c <= n
  BY <1>3, <1>5
<1>7. PICK e : e = [term |-> Term, data |-> 0]
  OBVIOUS
<1>8. e \in Ents /\ e.term = Term
  BY <1>7, ReplicationAssumption DEF Ents
<1>9. PICK L : L = Append(B, e)
  OBVIOUS
<1>10. Grows(B, L)
  BY <1>8, <1>9 DEF Grows
<1>11. L \in Seq(Ents) /\ Len(L) = n + 1
  BY <1>5, <1>10, GrowsIs
<1>12. PICK l : l = [log |-> [ents |-> L, first |-> d, committed |-> c, snap |-> 0], snapshot |-> d - 1, peer |-> 0]
  OBVIOUS
<1>13. LeadOK(l) /\ l.log.ents = L
  <2>1. PICK g : g = [ents |-> L, first |-> d, committed |-> c, snap |-> 0]
    OBVIOUS
  <2>2. g \in Logs /\ g.ents = L /\ g.first = d /\ g.committed = c
    BY <1>5, <1>11, <2>1 DEF Logs
  <2>3. PICK k \in Nat : k = d - 1
    BY <1>5
  <2>4. l = [log |-> g, snapshot |-> k, peer |-> 0]
    BY <1>12, <2>1, <2>3
  <2>5. l \in Leaders /\ l.log = g /\ l.snapshot = k
    BY <2>2, <2>4 DEF Leaders
  <2>6. d <= k + 1 /\ k <= c /\ c <= n + 1
    BY <1>5, <1>6, <2>3
  <2> QED BY <1>11, <2>2, <2>5, <2>6 DEF LeadOK
<1>14. FolOK(f, B)
  <2>1. Matches(f.ents, B) /\ Common(f.ents, B, f.committed) /\ f.first <= f.committed + 1
    BY <1>3, <1>5
  <2>2. \A i \in 1..Len(f.ents) : f.ents[i].term = Term => i <= Len(B)
    BY <1>4
  <2> QED BY <1>4, <2>1, <2>2 DEF FolOK
<1>15. FolOK(f, L)
  BY <1>10, <1>14, FolGrows
<1>16. Common(f.ents, L, 0)
  <2>1. f.ents \in Seq(Ents)
    BY <1>4 DEF Logs
  <2> QED BY <1>11, <2>1 DEF Common
<1>17. PICK p, in : p = NewProgress(0, n + 1, FALSE) /\ in = Ring!NewInflights
  OBVIOUS
<1>18. Flow(p, in, n + 1)
  <2>1. PICK k \in Nat : k = n + 1 /\ k > 0
    OBVIOUS
  <2> QED BY <1>17, <2>1, NewProgressFlows
<1>19. p.Match = 0
  BY <1>17 DEF NewProgress
<1>20. SendOK(l, f.ents, 0, Now(p, in))
  BY <1>11, <1>13, <1>18, <1>19, NowOK
<1>21. PICK s : s = sendAppend(l, Now(p, in))
  OBVIOUS
<1>22. SendOK(l, f.ents, 0, s)
  BY <1>13, <1>20, <1>21, SendAppendOK
<1>23. lead = l /\ fol = f /\ pr = s.pr /\ ring = s.ring /\ toF = s.out /\ toL = << >>
  BY <1>1, <1>2, <1>5, <1>7, <1>9, <1>12, <1>17, <1>21
<1>24. << >> \in Seq(TrueToLeader(f.ents, L))
  OBVIOUS
<1> QED BY <1>11, <1>13, <1>15, <1>16, <1>22, <1>23, <1>24 DEF ReplicationInv, SendOK

-----------------------------------------------------------------------------
(* The steps.                                                              *)

\* The invariant with the leader's entries named.
Good(l, f, p, in, x, y, L) ==
    /\ L \in Seq(Ents) /\ l.log.ents = L
    /\ Leads(l, f.ents, p, in) /\ FolOK(f, L)
    /\ x \in Seq(TrueToFollower(f.ents, L)) /\ y \in Seq(TrueToLeader(f.ents, L))

\* It is the invariant.
LEMMA GoodNow == ReplicationInv => \E L : Good(lead, fol, pr, ring, toF, toL, L)
<1> SUFFICES ASSUME ReplicationInv PROVE \E L : Good(lead, fol, pr, ring, toF, toL, L)
  OBVIOUS
<1>1. LeadOK(lead)
  BY DEF ReplicationInv
<1>2. lead.log.ents \in Seq(Ents)
  BY <1>1, LeadTypes
<1> QED BY <1>2 DEF ReplicationInv, Good, Leads

\* So it is after a step.
LEMMA GoodThen ==
    ASSUME NEW L, Good(lead', fol', pr', ring', toF', toL', L)
    PROVE  ReplicationInv'
BY DEF ReplicationInv, Good, Leads

\* The types that go with it.
LEMMA GoodTypes ==
    ASSUME NEW l, NEW f, NEW p, NEW in, NEW x, NEW y, NEW L, Good(l, f, p, in, x, y, L)
    PROVE  /\ LeadOK(l) /\ f.ents \in Seq(Ents) /\ p \in ProgressType /\ p.Match \in Nat
           /\ Flow(p, in, Len(L)) /\ Common(f.ents, L, p.Match) /\ Len(L) \in Nat
<1>1. LeadOK(l) /\ Common(f.ents, L, p.Match) /\ Flow(p, in, Len(L)) /\ FolOK(f, L) /\ L \in Seq(Ents)
  BY DEF Good, Leads
<1>2. f.ents \in Seq(Ents)
  BY <1>1, FolTypes
<1>3. p \in ProgressType
  BY <1>1 DEF Flow
<1> QED BY <1>1, <1>2, <1>3, ProgressTypes

\* Messages get through, are lost or are added: nothing else changes.
LEMMA GoodMessages ==
    ASSUME NEW l, NEW f, NEW p, NEW in, NEW x, NEW y, NEW L, Good(l, f, p, in, x, y, L),
           NEW u \in Seq(TrueToFollower(f.ents, L)), NEW v \in Seq(TrueToLeader(f.ents, L))
    PROVE  Good(l, f, p, in, u, v, L)
BY DEF Good

\* Only Progress and its ring change, and not Match.
LEMMA GoodProgress ==
    ASSUME NEW l, NEW f, NEW p, NEW in, NEW x, NEW y, NEW L, Good(l, f, p, in, x, y, L),
           NEW q, NEW out, Flow(q, out, Len(L)), q.Match = p.Match
    PROVE  Good(l, f, q, out, x, y, L)
BY DEF Good, Leads

\* The leader sends.
LEMMA GoodSent ==
    ASSUME NEW l, NEW L, Good(l, fol, pr, ring, toF, toL, L),
           NEW s, SendOK(l, fol.ents, pr.Match, s), Sent(s)
    PROVE  Good(l, fol, pr', ring', toF', toL, L)
<1>1. l.log.ents = L /\ toF \in Seq(TrueToFollower(fol.ents, L)) /\ toL \in Seq(TrueToLeader(fol.ents, L))
  BY DEF Good
<1>2. PICK M : M = pr.Match
  OBVIOUS
<1>3. PICK f : f = fol.ents
  OBVIOUS
<1>4. Flow(pr', ring', Len(L)) /\ pr'.Match = M /\ toF' \in Seq(TrueToFollower(f, L))
  BY <1>1, <1>2, <1>3, SentOK
<1>5. Good(l, fol, pr', ring', toF, toL, L)
  BY <1>2, <1>4, GoodProgress
<1> QED BY <1>1, <1>3, <1>4, <1>5, GoodMessages

\* A call of sendAppend.
LEMMA GoodSendAppend ==
    ASSUME NEW l, NEW L, Good(l, fol, pr, ring, toF, toL, L), Sent(sendAppend(l, Now(pr, ring)))
    PROVE  Good(l, fol, pr', ring', toF', toL, L)
<1>1. LeadOK(l) /\ Flow(pr, ring, Len(L)) /\ l.log.ents = L
  BY GoodTypes DEF Good
<1>2. PICK M, f, p, in : M = pr.Match /\ f = fol.ents /\ p = pr /\ in = ring
  OBVIOUS
<1>3. SendOK(l, f, M, Now(p, in))
  BY <1>1, <1>2, NowOK
<1>4. SendOK(l, f, M, sendAppend(l, Now(p, in)))
  BY <1>1, <1>3, SendAppendOK
<1> QED BY <1>2, <1>4, GoodSent

\* The leader's commit index, snapshot or peer changes.
LEMMA GoodLead ==
    ASSUME NEW l, NEW f, NEW p, NEW in, NEW x, NEW y, NEW L, Good(l, f, p, in, x, y, L),
           NEW k, LeadOK(k), k.log.ents = l.log.ents
    PROVE  Good(k, f, p, in, x, y, L)
BY DEF Good, Leads

\* MsgProp.
LEMMA ProposeOK ==
    ASSUME ReplicationInv, NEW v \in Value, Propose(v)
    PROVE  ReplicationInv'
<1>1. PICK L : Good(lead, fol, pr, ring, toF, toL, L)
  BY GoodNow
<1>2. PICK n \in Nat : n = Len(L)
  BY <1>1, GoodTypes
<1>3. L \in Seq(Ents) /\ L = lead.log.ents
  BY <1>1 DEF Good
<1>4. PICK e : e = [term |-> Term, data |-> v]
  OBVIOUS
<1>5. e \in Ents /\ e.term = Term
  BY <1>4, ReplicationAssumption DEF Ents
<1>6. PICK K : K = Append(L, e)
  OBVIOUS
<1>7. Grows(L, K)
  BY <1>5, <1>6 DEF Grows
<1>8. K \in Seq(Ents) /\ Len(K) = n + 1
  BY <1>2, <1>3, <1>7, GrowsIs
<1>9. PICK l0 : l0 = lead
  OBVIOUS
<1>10. LeadOK(l0) /\ l0.log.ents = L
  BY <1>1, <1>9, GoodTypes DEF Good
<1>11. PICK l : l = [l0 EXCEPT !.log.ents = K]
  OBVIOUS
<1>12. LeadOK(l) /\ l.log.ents = K
  <2>1. PICK g : g = [l0.log EXCEPT !.ents = K]
    OBVIOUS
  <2>2. l0 \in Leaders /\ l0.log \in Logs
    BY <1>10, LeadTypes DEF LeadOK
  <2>3. l = [l0 EXCEPT !.log = g]
    BY <1>11, <2>1, <2>2 DEF Leaders
  <2>4. g \in Logs /\ g.ents = K /\ g.first = l0.log.first /\ g.committed = l0.log.committed
    BY <1>8, <2>1, <2>2 DEF Logs
  <2>5. l \in Leaders /\ l.log = g /\ l.snapshot = l0.snapshot
    BY <2>2, <2>3, <2>4 DEF Leaders
  <2>6. PICK c \in Nat : c = l0.log.committed /\ c <= n
    BY <1>2, <1>10, LeadTypes
  <2>7. c <= n + 1
    BY <2>6
  <2>8. l0.log.first <= l0.snapshot + 1 /\ l0.snapshot <= c
    BY <1>10, <2>6, LeadTypes
  <2> QED BY <1>8, <2>4, <2>5, <2>6, <2>7, <2>8 DEF LeadOK
<1>13. Propose(v) => lead' = l /\ Sent(sendAppend(l, Now(pr, ring))) /\ UNCHANGED <<fol, toL>>
  <2>1. l = [lead EXCEPT !.log.ents = Append(@, [term |-> Term, data |-> v])]
    <3>1. l0 \in Leaders /\ l0.log \in Logs
      BY <1>10, LeadTypes DEF LeadOK
    <3> QED BY <1>3, <1>4, <1>6, <1>9, <1>11, <3>1 DEF Leaders, Logs
  <2> QED BY <2>1 DEF Propose
<1>14. Good(l, fol, pr, ring, toF, toL, K)
  <2>1. PICK a \in Seq(Ents), M \in Nat : a = fol.ents /\ M = pr.Match
    BY <1>1, GoodTypes
  <2>2. FolOK(fol, L) /\ toF \in Seq(TrueToFollower(a, L)) /\ toL \in Seq(TrueToLeader(a, L))
    BY <1>1, <2>1 DEF Good
  <2>3. FolOK(fol, K)
    BY <1>3, <1>7, <2>2, FolGrows
  <2>4. toF \in Seq(TrueToFollower(a, K)) /\ toL \in Seq(TrueToLeader(a, K))
    <3>1. TrueToFollower(a, L) \subseteq TrueToFollower(a, K) /\ TrueToLeader(a, L) \subseteq TrueToLeader(a, K)
      BY <1>3, <1>7, MessagesGrow
    <3> QED BY <2>2, <3>1, SeqMonotone
  <2>5. Common(a, L, M) /\ Flow(pr, ring, n)
    BY <1>1, <1>2, <2>1, GoodTypes
  <2>6. Common(a, K, M)
    BY <1>3, <1>7, <2>5, CommonGrows
  <2>7. Flow(pr, ring, n + 1)
    <3>1. PICK m \in Nat : m = n + 1 /\ n <= m
      OBVIOUS
    <3> QED BY <2>5, <3>1, FlowGrow
  <2> QED BY <1>8, <1>12, <2>1, <2>3, <2>4, <2>6, <2>7 DEF Good, Leads
<1>15. Good(l, fol, pr', ring', toF', toL, K)
  BY <1>13, <1>14, GoodSendAppend
<1> QED BY <1>13, <1>15, GoodThen

\* An ack of the peer.
LEMMA PeerAckOK ==
    ASSUME ReplicationInv, PeerAck
    PROVE  ReplicationInv'
<1>1. PICK L : Good(lead, fol, pr, ring, toF, toL, L)
  BY GoodNow
<1>2. LeadOK(lead) /\ lead.log.ents = L /\ L \in Seq(Ents)
  BY <1>1, GoodTypes DEF Good
<1>3. PICK n \in Nat, M \in Nat : n = lastIndex(lead.log) /\ M = pr.Match
  BY <1>1, <1>2, GoodTypes DEF lastIndex
<1>4. PICK k : k = [lead EXCEPT !.peer = n]
  OBVIOUS
<1>5. LeadOK(k) /\ k.log.ents = L
  <2>1. lead \in Leaders
    BY <1>2 DEF LeadOK
  <2>2. k \in Leaders /\ k.log = lead.log /\ k.snapshot = lead.snapshot
    BY <1>4, <2>1 DEF Leaders
  <2> QED BY <1>2, <2>2 DEF LeadOK
<1>6. PICK l : l = maybeCommit(k, M)
  OBVIOUS
<1>7. LeadOK(l) /\ l.log.ents = L
  BY <1>5, <1>6, MaybeCommitOK
<1>8. Good(l, fol, pr, ring, toF, toL, L)
  BY <1>1, <1>2, <1>7, GoodLead
<1>9. /\ lead' = l /\ UNCHANGED <<fol, toL>>
      /\ Sent(sendAppend(l, Now(pr, ring))) \/ UNCHANGED <<pr, ring, toF>>
  BY <1>3, <1>4, <1>6 DEF PeerAck
<1>10. CASE Sent(sendAppend(l, Now(pr, ring)))
  <2>1. Good(l, fol, pr', ring', toF', toL, L)
    BY <1>8, <1>10, GoodSendAppend
  <2> QED BY <1>9, <2>1, GoodThen
<1>11. CASE UNCHANGED <<pr, ring, toF>>
  BY <1>8, <1>9, <1>11, GoodThen
<1> QED BY <1>9, <1>10, <1>11

\* MsgBeat: the commit index that it carries is capped at Match.
LEMMA BeatOK ==
    ASSUME ReplicationInv, Beat
    PROVE  ReplicationInv'
<1>1. PICK L : Good(lead, fol, pr, ring, toF, toL, L)
  BY GoodNow
<1>2. PICK a \in Seq(Ents), M \in Nat, d \in Nat : a = fol.ents /\ M = pr.Match /\ d = lead.log.committed
  BY <1>1, GoodTypes, LeadTypes
<1>3. PICK c : c = Least(M, d)
  OBVIOUS
<1>4. c \in Nat /\ c <= M
  BY <1>3 DEF Least
<1>5. L \in Seq(Ents) /\ toF \in Seq(TrueToFollower(a, L)) /\ toL \in Seq(TrueToLeader(a, L))
  BY <1>1, <1>2 DEF Good
<1>6. Common(a, L, M) /\ Flow(pr, ring, Len(L)) /\ pr \in ProgressType
  BY <1>1, <1>2, GoodTypes
<1>7. Common(a, L, c)
  BY <1>4, <1>5, <1>6, CommonLess
<1>8. PICK m : m = [type |-> "MsgHeartbeat", commit |-> c]
  OBVIOUS
<1>9. m \in TrueToFollower(a, L)
  <2>1. m \in ToFollower
    BY <1>4, <1>8 DEF ToFollower
  <2> QED BY <1>7, <1>8, <2>1 DEF TrueToFollower
<1>10. /\ toF' = Append(toF, m) /\ pr' = SentCommit(pr, c)
       /\ UNCHANGED <<lead, fol, ring, toL>>
  BY <1>2, <1>3, <1>8 DEF Beat
<1>11. toF' \in Seq(TrueToFollower(a, L))
  <2>1. PICK S : S = TrueToFollower(a, L)
    OBVIOUS
  <2>2. toF \in Seq(S) /\ m \in S
    BY <1>5, <1>9, <2>1
  <2>3. Append(toF, m) \in Seq(S)
    BY <2>2
  <2> QED BY <1>10, <2>1, <2>3
<1>12. SameWindow(pr, pr')
  BY <1>4, <1>6, <1>10 DEF SameWindow, SentCommit, ProgressType
<1>13. Flow(pr', ring, Len(L)) /\ pr'.Match = pr.Match
  BY <1>6, <1>12, FlowSame DEF SameWindow
<1>14. Good(lead, fol, pr', ring, toF, toL, L)
  BY <1>1, <1>13, GoodProgress
<1>15. Good(lead, fol, pr', ring, toF', toL, L)
  BY <1>2, <1>5, <1>11, <1>14, GoodMessages
<1> QED BY <1>10, <1>15, GoodThen

\* The application makes a snapshot and compacts.
LEMMA CompactOK ==
    ASSUME ReplicationInv, Compact
    PROVE  ReplicationInv'
<1>1. PICK L : Good(lead, fol, pr, ring, toF, toL, L)
  BY GoodNow
<1>2. LeadOK(lead) /\ lead \in Leaders /\ lead.log \in Logs
  BY <1>1, GoodTypes, LeadTypes DEF LeadOK
<1>3. PICK c \in Nat, s \in Nat, d \in Nat :
          /\ c = lead.log.committed /\ s = lead.snapshot /\ d = lead.log.first
          /\ d > 0 /\ d <= s + 1 /\ s <= c /\ c <= Len(lead.log.ents)
  BY <1>2, LeadTypes
<1>4. PICK first \in {lead.log.first, lead.log.committed + 1} :
          lead' = [lead EXCEPT !.snapshot = lead.log.committed, !.log.first = first]
  BY DEF Compact
<1>5. first \in Nat \ {0} /\ first <= c + 1
  BY <1>3, <1>4
<1>6. PICK g : g = [lead.log EXCEPT !.first = first]
  OBVIOUS
<1>7. g \in Logs /\ g.ents = lead.log.ents /\ g.first = first /\ g.committed = c
  BY <1>2, <1>3, <1>5, <1>6 DEF Logs
<1>8. lead' = [lead EXCEPT !.snapshot = c, !.log = g]
  BY <1>2, <1>3, <1>4, <1>6 DEF Leaders
<1>9. lead' \in Leaders /\ lead'.log = g /\ lead'.snapshot = c
  BY <1>2, <1>7, <1>8 DEF Leaders
<1>10. LeadOK(lead') /\ lead'.log.ents = lead.log.ents
  BY <1>3, <1>5, <1>7, <1>9 DEF LeadOK
<1>11. Good(lead', fol, pr, ring, toF, toL, L)
  BY <1>1, <1>10, GoodLead
<1> QED BY <1>11, GoodThen DEF Compact

\* MsgSnapStatus.
LEMMA ReportSnapshotOK ==
    ASSUME ReplicationInv, NEW failed \in BOOLEAN, ReportSnapshot(failed)
    PROVE  ReplicationInv'
<1>1. PICK L : Good(lead, fol, pr, ring, toF, toL, L)
  BY GoodNow
<1>2. PICK n \in Nat : n = Len(L)
  BY <1>1, GoodTypes
<1>3. pr \in ProgressType /\ Flow(pr, ring, n)
  BY <1>1, <1>2, GoodTypes
<1>4. UNCHANGED <<lead, fol, toF, toL>>
  BY DEF ReportSnapshot
<1>5. CASE UNCHANGED <<pr, ring>>
  BY <1>1, <1>4, <1>5, GoodThen
<1>6. CASE /\ pr' = [BecomeProbe(IF failed THEN [pr EXCEPT !.PendingSnapshot = 0] ELSE pr)
                        EXCEPT !.MsgAppFlowPaused = TRUE]
           /\ ring' = Ring!reset(ring)
  <2>1. PICK p : p = IF failed THEN [pr EXCEPT !.PendingSnapshot = 0] ELSE pr
    OBVIOUS
  <2>2. p \in ProgressType /\ p.Match = pr.Match /\ Within(p, n)
    <3>1. CASE failed
      <4>1. p = [pr EXCEPT !.PendingSnapshot = 0]
        BY <2>1, <3>1
      <4>2. p \in ProgressType
        BY <1>3, <4>1 DEF ProgressType
      <4>3. p.Match = pr.Match /\ p.Next = pr.Next /\ p.PendingSnapshot = 0
        BY <1>3, <4>1 DEF ProgressType
      <4>4. Within(p, n)
        BY <1>3, <4>3 DEF Within, Flow
      <4> QED BY <4>2, <4>3, <4>4
    <3>2. CASE ~failed
      BY <1>3, <2>1, <3>2 DEF Flow
    <3> QED BY <3>1, <3>2
  <2>3. PICK y : y = BecomeProbe(p)
    OBVIOUS
  <2>4. Restarts(p, y, n) /\ y.State = "StateProbe"
    BY <2>2, <2>3, BecomeProbeIs
  <2>5. PICK x : x = [y EXCEPT !.MsgAppFlowPaused = TRUE]
    OBVIOUS
  <2>6. y \in ProgressType
    BY <2>4 DEF Restarts, Windowless
  <2>7. SameWindow(y, x)
    BY <2>5, <2>6 DEF SameWindow, ProgressType
  <2>8. Flow(y, Ring!reset(ring), n)
    BY <1>3, <2>4, FlowReset DEF Restarts
  <2>9. Flow(x, Ring!reset(ring), n) /\ x.Match = pr.Match
    BY <2>2, <2>4, <2>7, <2>8, FlowSame DEF SameWindow, Restarts
  <2>10. pr' = x /\ ring' = Ring!reset(ring)
    BY <1>6, <2>1, <2>3, <2>5
  <2>11. Good(lead, fol, x, Ring!reset(ring), toF, toL, L)
    BY <1>1, <1>2, <2>9, GoodProgress
  <2> QED BY <1>4, <2>10, <2>11, GoodThen
<1> QED BY <1>5, <1>6 DEF ReportSnapshot

\* The follower takes a message, of which u are left.
LEMMA GoodFollower ==
    ASSUME NEW L, Good(lead, fol, pr, ring, toF, toL, L),
           NEW m \in TrueToFollower(fol.ents, L), FollowerSteps(m),
           NEW u \in Seq(TrueToFollower(fol.ents, L))
    PROVE  Good(lead, fol', pr, ring, u, toL', L)
<1>1. /\ L \in Seq(Ents) /\ lead.log.ents = L /\ FolOK(fol, L) /\ toL \in Seq(TrueToLeader(fol.ents, L))
      /\ LeadOK(lead) /\ Common(fol.ents, L, pr.Match) /\ Flow(pr, ring, Len(L)) /\ pr.Match \in Nat
  BY GoodTypes DEF Good
<1>2. FolStep(fol, fol', L) /\ toL' \in Seq(TrueToLeader(fol'.ents, L))
  BY <1>1, FollowerStepsOK
<1>3. TrueToFollower(fol.ents, L) \subseteq TrueToFollower(fol'.ents, L)
  BY <1>2, FolStepMessages
<1>4. u \in Seq(TrueToFollower(fol'.ents, L))
  BY <1>3, SeqMonotone
<1>5. FolOK(fol', L) /\ Common(fol'.ents, L, pr.Match)
  BY <1>1, <1>2 DEF FolStep
<1> QED BY <1>1, <1>2, <1>4, <1>5 DEF Good, Leads

\* The leader takes a message, of which v are left.
LEMMA GoodLeader ==
    ASSUME NEW L, Good(lead, fol, pr, ring, toF, toL, L),
           NEW m \in TrueToLeader(fol.ents, L), LeaderSteps(m),
           NEW v \in Seq(TrueToLeader(fol.ents, L))
    PROVE  Good(lead', fol, pr', ring', toF', v, L)
<1>1. PICK f \in Seq(Ents) : f = fol.ents
  BY GoodTypes
<1>2. L \in Seq(Ents) /\ lead.log.ents = L /\ Leads(lead, f, pr, ring) /\ toF \in Seq(TrueToFollower(f, L))
  BY <1>1 DEF Good
<1>3. lead'.log.ents = L /\ Leads(lead', f, pr', ring') /\ toF' \in Seq(TrueToFollower(f, L))
  BY <1>1, <1>2, LeaderStepsOK
<1> QED BY <1>1, <1>2, <1>3 DEF Good

\* The next message reaches the follower.
LEMMA DeliverToFollowerOK ==
    ASSUME ReplicationInv, DeliverToFollower
    PROVE  ReplicationInv'
<1>1. PICK L : Good(lead, fol, pr, ring, toF, toL, L)
  BY GoodNow
<1>2. toF # << >> /\ FollowerSteps(Head(toF)) /\ toF' = Tail(toF) /\ UNCHANGED <<lead, pr, ring>>
  BY DEF DeliverToFollower
<1>3. toF \in Seq(TrueToFollower(fol.ents, L))
  BY <1>1 DEF Good
<1>4. Head(toF) \in TrueToFollower(fol.ents, L) /\ Tail(toF) \in Seq(TrueToFollower(fol.ents, L))
  BY <1>2, <1>3, HeadTailType
<1>5. Good(lead, fol', pr, ring, Tail(toF), toL', L)
  BY <1>1, <1>2, <1>4, GoodFollower
<1> QED BY <1>2, <1>5, GoodThen

\* The next message reaches the leader.
LEMMA DeliverToLeaderOK ==
    ASSUME ReplicationInv, DeliverToLeader
    PROVE  ReplicationInv'
<1>1. PICK L : Good(lead, fol, pr, ring, toF, toL, L)
  BY GoodNow
<1>2. toL # << >> /\ LeaderSteps(Head(toL)) /\ toL' = Tail(toL) /\ fol' = fol
  BY DEF DeliverToLeader
<1>3. toL \in Seq(TrueToLeader(fol.ents, L))
  BY <1>1 DEF Good
<1>4. Head(toL) \in TrueToLeader(fol.ents, L) /\ Tail(toL) \in Seq(TrueToLeader(fol.ents, L))
  BY <1>2, <1>3, HeadTailType
<1>5. Good(lead', fol, pr', ring', toF', Tail(toL), L)
  BY <1>1, <1>2, <1>4, GoodLeader
<1> QED BY <1>2, <1>5, GoodThen

\* A message is lost.
LEMMA LoseOK ==
    ASSUME ReplicationInv, NEW k \in 1..(Len(toF) + Len(toL)), Lose(k)
    PROVE  ReplicationInv'
<1>1. PICK L : Good(lead, fol, pr, ring, toF, toL, L)
  BY GoodNow
<1>2. toF \in Seq(TrueToFollower(fol.ents, L)) /\ toL \in Seq(TrueToLeader(fol.ents, L))
  BY <1>1 DEF Good
<1>3. UNCHANGED <<lead, fol, pr, ring>>
  BY DEF Lose
<1>4. CASE k <= Len(toF) /\ toF' = Without(toF, k) /\ UNCHANGED toL
  <2>1. k \in 1..Len(toF)
    BY <1>2, <1>4
  <2>2. Without(toF, k) \in Seq(TrueToFollower(fol.ents, L))
    BY <1>2, <2>1, WithoutType
  <2>3. Good(lead, fol, pr, ring, Without(toF, k), toL, L)
    BY <1>1, <1>2, <2>2, GoodMessages
  <2> QED BY <1>3, <1>4, <2>3, GoodThen
<1>5. CASE k <= Len(toL) /\ toL' = Without(toL, k) /\ UNCHANGED toF
  <2>1. k \in 1..Len(toL)
    BY <1>2, <1>5
  <2>2. Without(toL, k) \in Seq(TrueToLeader(fol.ents, L))
    BY <1>2, <2>1, WithoutType
  <2>3. Good(lead, fol, pr, ring, toF, Without(toL, k), L)
    BY <1>1, <1>2, <2>2, GoodMessages
  <2> QED BY <1>3, <1>5, <2>3, GoodThen
<1> QED BY <1>4, <1>5 DEF Lose

\* The connection breaks.
LEMMA BreakOK ==
    ASSUME ReplicationInv, Break
    PROVE  ReplicationInv'
<1>1. PICK L : Good(lead, fol, pr, ring, toF, toL, L)
  BY GoodNow
<1>2. PICK n \in Nat : n = Len(L)
  BY <1>1, GoodTypes
<1>3. pr \in ProgressType /\ Flow(pr, ring, n) /\ toL \in Seq(TrueToLeader(fol.ents, L))
  BY <1>1, <1>2, GoodTypes DEF Good
<1>4. << >> \in Seq(TrueToFollower(fol.ents, L))
  OBVIOUS
<1>5. Good(lead, fol, pr, ring, << >>, toL, L)
  BY <1>1, <1>3, <1>4, GoodMessages
<1>6. toF' = << >> /\ UNCHANGED <<lead, fol, toL>>
  BY DEF Break
<1>7. CASE UNCHANGED <<pr, ring>>
  BY <1>5, <1>6, <1>7, GoodThen
<1>8. CASE pr' = BecomeProbe(pr) /\ ring' = Ring!reset(ring)
  <2>1. PICK x : x = BecomeProbe(pr)
    OBVIOUS
  <2>2. Within(pr, n)
    BY <1>3 DEF Flow
  <2>3. Restarts(pr, x, n)
    BY <1>3, <2>1, <2>2, BecomeProbeIs
  <2>4. Flow(x, Ring!reset(ring), n) /\ x.Match = pr.Match
    BY <1>3, <2>3, FlowReset DEF Restarts
  <2>5. Good(lead, fol, x, Ring!reset(ring), << >>, toL, L)
    BY <1>2, <1>5, <2>4, GoodProgress
  <2> QED BY <1>6, <1>8, <2>1, <2>5, GoodThen
<1> QED BY <1>7, <1>8 DEF Break

\* A message overtakes others.
LEMMA OvertakeOK ==
    ASSUME ReplicationInv, NEW k \in 1..(Len(toF) + Len(toL)), Overtake(k)
    PROVE  ReplicationInv'
<1>1. PICK L : Good(lead, fol, pr, ring, toF, toL, L)
  BY GoodNow
<1>2. toF \in Seq(TrueToFollower(fol.ents, L)) /\ toL \in Seq(TrueToLeader(fol.ents, L))
  BY <1>1 DEF Good
<1>3. CASE k <= Len(toF) /\ FollowerSteps(toF[k]) /\ UNCHANGED <<lead, pr, ring, toF>>
  <2>1. k \in 1..Len(toF)
    BY <1>2, <1>3
  <2>2. toF[k] \in TrueToFollower(fol.ents, L)
    BY <1>2, <2>1
  <2>3. Good(lead, fol', pr, ring, toF, toL', L)
    BY <1>1, <1>2, <1>3, <2>2, GoodFollower
  <2> QED BY <1>3, <2>3, GoodThen
<1>4. CASE k <= Len(toL) /\ LeaderSteps(toL[k]) /\ UNCHANGED <<fol, toL>>
  <2>1. k \in 1..Len(toL)
    BY <1>2, <1>4
  <2>2. toL[k] \in TrueToLeader(fol.ents, L)
    BY <1>2, <2>1
  <2>3. Good(lead', fol, pr', ring', toF', toL, L)
    BY <1>1, <1>2, <1>4, <2>2, GoodLeader
  <2> QED BY <1>4, <2>3, GoodThen
<1> QED BY <1>3, <1>4 DEF Overtake

-----------------------------------------------------------------------------
(* The theorems.                                                           *)

\* Every step keeps the inductive invariant.
LEMMA StepsKeepInv == ReplicationInv /\ [Next]_vars => ReplicationInv'
<1> SUFFICES ASSUME ReplicationInv, [Next]_vars PROVE ReplicationInv'
  OBVIOUS
<1>1. CASE Next
  BY <1>1, ProposeOK, PeerAckOK, CompactOK, BeatOK, ReportSnapshotOK, DeliverToFollowerOK,
     DeliverToLeaderOK, BreakOK, LoseOK, OvertakeOK DEF Next
<1>2. CASE UNCHANGED vars
  <2>1. PICK L : Good(lead, fol, pr, ring, toF, toL, L)
    BY GoodNow
  <2>2. Good(lead', fol', pr', ring', toF', toL', L)
    BY <1>2, <2>1 DEF vars
  <2> QED BY <2>2, GoodThen
<1> QED BY <1>1, <1>2

(***************************************************************************)
(* The inductive invariant: what stepLeader, maybeSendAppend, the          *)
(* follower's handlers and Inflights keep, from any start an election can  *)
(* leave, whatever the network loses, doubles or reorders.                 *)
(***************************************************************************)
THEOREM ReplicationInductive == Spec => []ReplicationInv
BY InitOK, StepsKeepInv, PTL DEF Spec

(***************************************************************************)
(* The leader never believes that the follower has what it does not have:  *)
(* Progress.Match, which maybeCommit counts, is an index up to which the   *)
(* two logs are the same, however old the ack that set it.                 *)
(***************************************************************************)
THEOREM MatchStaysReal == Spec => []MatchIsReal
<1>1. ReplicationInv => MatchIsReal
  <2> SUFFICES ASSUME ReplicationInv PROVE MatchIsReal
    OBVIOUS
  <2>1. PICK L : Good(lead, fol, pr, ring, toF, toL, L)
    BY GoodNow
  <2>2. PICK a \in Seq(Ents), M \in Nat : a = fol.ents /\ M = pr.Match
    BY <2>1, GoodTypes
  <2>3. L \in Seq(Ents) /\ lead.log.ents = L /\ Common(a, L, M) /\ Flow(pr, ring, Len(L))
    BY <2>1, <2>2, GoodTypes DEF Good
  <2>4. M <= Len(a) /\ M <= Len(L) /\ \A k \in 1..M : a[k] = L[k]
    BY <2>3 DEF Common
  <2>5. SubSeq(a, 1, M) = SubSeq(L, 1, M)
    <3>1. PICK x, y : x = SubSeq(a, 1, M) /\ y = SubSeq(L, 1, M)
      OBVIOUS
    <3>2. x \in Seq(Ents) /\ Len(x) = M /\ \A k \in 1..M : x[k] = a[k]
      BY <2>4, <3>1, PrefixIs
    <3>3. y \in Seq(Ents) /\ Len(y) = M /\ \A k \in 1..M : y[k] = L[k]
      BY <2>3, <2>4, <3>1, PrefixIs
    <3>4. \A k \in 1..Len(x) : x[k] = y[k]
      BY <2>4, <3>2, <3>3
    <3>5. x = y
      BY <3>2, <3>3, <3>4, SeqsEqual
    <3> QED BY <3>1, <3>5
  <2>6. pr.Match < pr.Next
    BY <2>3 DEF Flow, Within
  <2> QED BY <2>2, <2>3, <2>4, <2>5, <2>6 DEF MatchIsReal, lastIndex
<1> QED BY <1>1, ReplicationInductive, PTL

\* The window of the ring is the one that Progress has.
LEMMA WindowIs ==
    ASSUME ReplicationInv
    PROVE  LET w == Ring!Window(ring) IN w \in Seq(Items) /\ Holds(ring, w) /\ Outstanding(pr, w)
<1>1. ring \in Rings /\ \E w \in Seq(Items) : Holds(ring, w) /\ Outstanding(pr, w)
  BY DEF ReplicationInv, Flow
<1>2. PICK w \in Seq(Items) : Holds(ring, w) /\ Outstanding(pr, w)
  BY <1>1
<1>3. Ring!Window(ring) = w
  BY <1>1, <1>2, HoldsWindow
<1> QED BY <1>2, <1>3

(***************************************************************************)
(* The ring buffer of Inflights holds the window as Progress sees it after *)
(* any sequence of Add, FreeLE and reset, and its count of bytes is exact. *)
(***************************************************************************)
THEOREM RingStaysWindow == Spec => []RingIsWindow
<1>1. ReplicationInv => RingIsWindow
  BY WindowIs DEF RingIsWindow, Holds, Outstanding
<1> QED BY <1>1, ReplicationInductive, PTL

(***************************************************************************)
(* In StateReplicate the window is what is sent and not acked, from Match  *)
(* to Next - 1; in the other states it is empty; Inflights.Full keeps it   *)
(* within MaxInflightMsgs, and all but its last message within             *)
(* MaxInflightBytes.                                                       *)
(***************************************************************************)
THEOREM WindowStaysOutstanding == Spec => []WindowIsOutstanding
<1>1. ReplicationInv => WindowIsOutstanding
  <2> SUFFICES ASSUME ReplicationInv PROVE WindowIsOutstanding
    OBVIOUS
  <2>1. PICK w \in Seq(Items) : w = Ring!Window(ring) /\ Holds(ring, w) /\ Outstanding(pr, w)
    BY WindowIs
  <2>2. Len(w) <= MaxInflight
    BY <2>1 DEF Holds
  <2>3. ASSUME pr.State = "StateReplicate", NEW k \in 1..Len(w)
        PROVE  w[k].index > IF k = 1 THEN pr.Match ELSE w[k - 1].index
    <3>1. Rising(w, pr.Match)
      BY <2>1, <2>3 DEF Outstanding
    <3>2. CASE k = 1
      BY <3>1, <3>2 DEF Rising
    <3>3. CASE k # 1
      <4>1. k - 1 \in 1..Len(w) /\ k - 1 < k
        BY <3>3
      <4>2. w[k - 1].index < w[k].index
        BY <3>1, <4>1 DEF Rising
      <4>3. w[k].index \in Nat /\ w[k - 1].index \in Nat
        BY <4>1, IndexesIs
      <4> QED BY <3>3, <4>2, <4>3
    <3> QED BY <3>2, <3>3
  <2>4. pr.State = "StateReplicate" => pr.Next - 1 = IF w = << >> THEN pr.Match ELSE w[Len(w)].index
    BY <2>1 DEF Outstanding
  <2>5. pr.State # "StateReplicate" => w = << >>
    BY <2>1 DEF Outstanding
  <2>6. Limited(w)
    BY <2>1 DEF Outstanding
  <2> QED BY <2>1, <2>2, <2>3, <2>4, <2>5, <2>6 DEF WindowIsOutstanding, Limited
<1> QED BY <1>1, ReplicationInductive, PTL
=============================================================================
