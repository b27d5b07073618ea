------------------------------ MODULE RaftLog ------------------------------
(***************************************************************************)
(* raftLog as the raft state machine reads and writes it: one logical log, *)
(* whose split into unstable and stable parts is module LogStorage's       *)
(* subject. A log is a record                                              *)
(*   ents      the entries from index 1 on (those below `first` stand for  *)
(*             the state-machine image the snapshot at first - 1 holds),   *)
(*   first     firstIndex(): entries below it are compacted away,          *)
(*   committed the commit index,                                           *)
(*   snap      the index of the unstable snapshot, 0 if there is none.     *)
(***************************************************************************)
EXTENDS Integers, Sequences

CONSTANT Value          \* payloads a client proposes

\* emptyEnt of becomeLeader: an entry whose Data is nil.
NoData == "nil"

Entry   == [term : Nat, data : Value \cup {NoData}]
LogType == [ents : Seq(Entry), first : Nat \ {0}, committed : Nat, snap : Nat]

EmptyLog == [ents |-> << >>, first |-> 1, committed |-> 0, snap |-> 0]

lastIndex(lg) == Len(lg.ents)

\* term(i) succeeds on firstIndex-1 .. lastIndex; index 0 is the dummy entry.
HasTerm(lg, i) == lg.first <= i + 1 /\ i <= lastIndex(lg)
TermAt(ents, i) == IF i = 0 THEN 0 ELSE ents[i].term
lastTerm(lg)   == TermAt(lg.ents, lastIndex(lg))

matchTerm(lg, i, t) == HasTerm(lg, i) /\ TermAt(lg.ents, i) = t

\* Mutants: only the terms are compared; nothing is.
isUpToDate_TermOnly(lg, i, t) == t >= lastTerm(lg)
isUpToDate_Any(lg, i, t) == TRUE

isUpToDate(lg, i, t) ==
    t > lastTerm(lg) \/ (t = lastTerm(lg) /\ i >= lastIndex(lg))

commitTo(lg, tocommit) ==
    [lg EXCEPT !.committed = IF @ < tocommit THEN tocommit ELSE @]

\* The positions of ents, placed after index prev, that differ from the log.
Conflicts(lg, prev, ents) ==
    {k \in 1..Len(ents) : ~matchTerm(lg, prev + k, ents[k].term)}

\* findConflict: the index of the first conflicting or new entry, 0 if none.
findConflict(lg, prev, ents) ==
    LET c == Conflicts(lg, prev, ents)
    IN  IF c = {} THEN 0 ELSE prev + (CHOOSE k \in c : \A j \in c : k <= j)

\* maybeAppend, once matchTerm(prev) holds: cut at the conflict and append.
\* Mutant: the entries after the new ones survive a conflict.
maybeAppend_KeepTail(lg, prev, ents, committed) ==
    LET lastnewi == prev + Len(ents)
    IN  commitTo([lg EXCEPT !.ents = SubSeq(@, 1, prev) \o ents
                              \o SubSeq(@, lastnewi + 1, Len(@))],
                 IF committed < lastnewi THEN committed ELSE lastnewi)

maybeAppend(lg, prev, ents, committed) ==
    LET ci       == findConflict(lg, prev, ents)
        lastnewi == prev + Len(ents)
        appended == IF ci = 0 THEN lg.ents
                    ELSE SubSeq(lg.ents, 1, ci - 1)
                           \o SubSeq(ents, ci - prev, Len(ents))
    IN  commitTo([lg EXCEPT !.ents = appended],
                 IF committed < lastnewi THEN committed ELSE lastnewi)

\* findConflictByTerm: the largest index at or below `index` whose term is at
\* most `term` or is not known; its term is 0 when it is not known.
findConflictByTerm(lg, index, term) ==
    LET Fits(k) == k = 0 \/ ~HasTerm(lg, k) \/ TermAt(lg.ents, k) <= term
    IN  CHOOSE k \in 0..index : Fits(k) /\ \A j \in (k + 1)..index : ~Fits(j)

KnownTerm(lg, k) == IF HasTerm(lg, k) THEN TermAt(lg.ents, k) ELSE 0

\* raftLog.restore: the snapshot, which stands for these entries, replaces the
\* log.
restoreLog(ents) ==
    [ents |-> ents, first |-> Len(ents) + 1, committed |-> Len(ents),
     snap |-> Len(ents)]
=============================================================================
