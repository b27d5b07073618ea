---------------------------- MODULE MCLogStorage ----------------------------
(* A few histories of leaders for LogStorage.                              *)
EXTENDS LogStorage

CONSTANTS
    Histories,  \* leaders' logs by term
    Modes       \* the values of AsyncStorageWrites

\* n entries of term t, the first one empty.
Own(t, n) == [i \in 1..n |-> [term |-> t, size |-> IF i = 1 THEN 0 ELSE 1]]

\* The largest index that every later leader agrees on.
CommitOf(h, t) ==
    LET agreed == {k \in 0..Len(h[t]) :
                     \A u \in (t + 1)..Len(h) : h[u] # << >> => Agree(k, h[t], h[u])}
    IN  CHOOSE k \in agreed : \A j \in agreed : j <= k

World(a, h, m) ==
    [async |-> a, log |-> h, commit |-> [t \in 1..Len(h) |-> CommitOf(h, t)], mine |-> m]

MCWorlds == {World(a, h[1], h[2]) : a \in Modes, h \in Histories}

\* The leader of term 3 has the entry of term 1 that the one of term 2 replaced.
WrittenBack == <<Own(1, 1), Own(2, 1), Own(1, 1) \o Own(3, 1)>>
\* A second leader replaces one of two entries.
Replaced    == <<Own(1, 2), Own(1, 1) \o Own(2, 1)>>
\* One leader with more than can be applied at once.
Steady      == <<Own(1, 3)>>

(***************************************************************************)
(* The order in which the documentation has the parts of a Ready saved, and *)
(* what a crash leaves after the first k of them.                          *)
(***************************************************************************)
DocumentedOrder == <<"Entries", "HardState", "Snapshot">>

Part(w, p) ==
    [w EXCEPT !.hs       = IF p = "HardState" THEN @ ELSE EmptyHardState,
              !.snapshot = IF p = "Snapshot" THEN @ ELSE NoSnap,
              !.ents     = IF p = "Entries" THEN @ ELSE << >>]

AfterParts(m, w) ==
    LET after[k \in 0..Len(DocumentedOrder)] ==
            IF k = 0 THEN m ELSE Written(after[k - 1], Part(w, DocumentedOrder[k]))
    IN  after

\* README.md: "Write Entries, HardState and Snapshot to persistent storage in
\* order, i.e. Entries first, then HardState and Snapshot". Wherever a crash stops
\* such a save, loadState and appliedTo accept what is on disk. They do not: the
\* HardState commits the index of a snapshot that is not there yet.
DocumentedOrderRestarts ==
    \A q \in DOMAIN appendQ \cap {1} : \A k \in 0..Len(DocumentedOrder) :
        CanRestart(AfterParts(ms, appendQ[q])[k])

MCHistories == {<<WrittenBack, {}>>, <<Replaced, {}>>, <<Replaced, {1}>>, <<Replaced, {2}>>,
                <<Steady, {}>>, <<Steady, {1}>>}
=============================================================================
