--------------------------- MODULE MCReplication ---------------------------
(***************************************************************************)
(* Replication on small logs. The elections that led here left the leader  *)
(* with the entries of terms 1 and 3, and the follower short of them, with *)
(* a tail of term 2 that lost, or ahead in what it knows to be committed.  *)
(***************************************************************************)
EXTENDS Replication

Log(terms, committed, first) ==
    [ents |-> [k \in 1..Len(terms) |-> [term |-> terms[k], data |-> 1]],
     first |-> first, committed |-> committed, snap |-> 0]

MCStarts ==
    {[lead |-> Log(<<1, 3>>, 0, 1), fol |-> Log(<<1, 2, 2>>, 1, 1)],
     [lead |-> Log(<<1, 3>>, 1, 2), fol |-> Log(<< >>, 0, 1)]}
=============================================================================
