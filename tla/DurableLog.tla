----------------------------- MODULE DurableLog -----------------------------
(***************************************************************************)
(* What the log promises to the state machine above it: one log in memory, *)
(* one on disk, and between them whole logs on their way to the disk. How  *)
(* few entries a write carries, and when the memory of an entry is freed,  *)
(* is nobody's business at this level, but that a crash may come between   *)
(* the entries of a log and its HardState is. Module Raft is written       *)
(* against this picture (its appendQ holds whole logs) with atomic saves;  *)
(* LogStorage implements it.                                               *)
(*                                                                         *)
(* A log is a record [Term, committed, index, term, ents]: the HardState,  *)
(* the index and term of the last compacted entry, the entries above it.   *)
(***************************************************************************)
EXTENDS Integers, Sequences

VARIABLES
    log,     \* the log that raft sees
    disk,    \* the log that a restart finds
    queue    \* logs handed out to be saved, oldest first

vars == <<log, disk, queue>>

EmptyLog == [Term |-> 0, committed |-> 0, index |-> 0, term |-> 0, ents |-> << >>]

Last(l) == l.index + Len(l.ents)

\* l without its entries up to k.
Cut(l, k) ==
    IF k <= l.index THEN l
    ELSE [l EXCEPT !.index = k,
                   !.term  = l.ents[k - l.index].term,
                   !.ents  = SubSeq(l.ents, k - l.index + 1, Len(l.ents))]

Init == log = EmptyLog /\ disk = EmptyLog /\ queue = << >>

(***************************************************************************)
(* Raft appends, overwrites what is not committed, commits, changes its    *)
(* term, or puts a snapshot above its commit index in the place of all.    *)
(***************************************************************************)
Write ==
    /\ log'.Term >= log.Term
    /\ log'.committed >= log.committed
    /\ log'.committed <= Last(log')
    /\ \/ /\ log'.index = log.index /\ log'.term = log.term
          /\ \A i \in 1..(log.committed - log.index) : log'.ents[i] = log.ents[i]
       \/ log'.index > log.committed
    /\ UNCHANGED <<disk, queue>>

HandOut == queue' = Append(queue, log) /\ UNCHANGED <<log, disk>>

Flush ==
    /\ queue # << >>
    /\ disk'  = Head(queue)
    /\ queue' = Tail(queue)
    /\ UNCHANGED log

Compact == \E k \in 1..Last(disk) :
    /\ log'   = Cut(log, k)
    /\ disk'  = Cut(disk, k)
    /\ queue' = [i \in DOMAIN queue |-> Cut(queue[i], k)]

\* The entries of the next log without its HardState: then came a crash.
Torn == [disk EXCEPT !.ents = Head(queue).ents]

Crash ==
    /\ \/ disk' = disk
       \/ queue # << >> /\ Head(queue).index = disk.index /\ disk' = Torn
    /\ log' = disk' /\ queue' = << >>

Next == Write \/ HandOut \/ Flush \/ Compact \/ Crash

Spec == Init /\ [][Next]_vars
=============================================================================
