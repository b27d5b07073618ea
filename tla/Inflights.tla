------------------------------ MODULE Inflights ------------------------------
(***************************************************************************)
(* tracker.Inflights: the MsgApps on their way to one follower, in a ring  *)
(* buffer that grows on demand, with a limit on their number and a soft    *)
(* limit on their bytes. A window is a record                              *)
(*   start, count   the ring positions in use (positions count from 0),    *)
(*   bytes          the running total,                                     *)
(*   buffer         the ring, a sequence of [index, bytes].                *)
(* The operators go from a record to a record, as the methods do.          *)
(***************************************************************************)
EXTENDS Integers, Sequences

CONSTANTS
    size,       \* the max number of inflight messages
    maxBytes    \* the max total bytes of inflight messages, 0 for no limit

inflight(index, bytes) == [index |-> index, bytes |-> bytes]

NewInflights == [start |-> 0, count |-> 0, bytes |-> 0, buffer |-> << >>]

Full(in) == in.count = size \/ (maxBytes # 0 /\ in.bytes >= maxBytes)

\* Mutant: the ring is as long as the buffer of the moment.
Rotated_AtBuffer(in, k) == (in.start + k) % (IF in.buffer = << >> THEN 1 ELSE Len(in.buffer))

\* The position k messages after the start, rotated at the size of the window
\* and not at the length of the buffer.
Rotated(in, k) == IF in.start + k >= size THEN in.start + k - size ELSE in.start + k

\* The buffer doubles, from 1 up to size. New positions hold a zero inflight.
grow(buffer) ==
    LET n == CASE buffer = << >>          -> 1
               [] 2 * Len(buffer) > size  -> size
               [] OTHER                   -> 2 * Len(buffer)
    IN  [k \in 1..n |-> IF k <= Len(buffer) THEN buffer[k] ELSE inflight(0, 0)]

\* Add, guarded by ~Full: the code panics on a full window.
Add(in, index, bytes) ==
    LET next   == Rotated(in, in.count)
        buffer == IF next >= Len(in.buffer) THEN grow(in.buffer) ELSE in.buffer
    IN  [in EXCEPT !.buffer = [buffer EXCEPT ![next + 1] = inflight(index, bytes)],
                   !.count = @ + 1, !.bytes = @ + bytes]

\* What the ring holds, oldest message first.
Window(in) == [k \in 1..in.count |-> in.buffer[Rotated(in, k - 1) + 1]]

TotalBytes(w) ==
    LET Sum[k \in 0..Len(w)] == IF k = 0 THEN 0 ELSE Sum[k - 1] + w[k].bytes
    IN  Sum[Len(w)]

\* Mutant: the acked message itself is not freed.
Freed_Strict(w, to) ==
    CHOOSE n \in 0..Len(w) :
        /\ \A k \in 1..n : w[k].index < to
        /\ n < Len(w) => w[n + 1].index >= to

\* The scan of FreeLE stops at the first message beyond `to`.
Freed(w, to) ==
    CHOOSE n \in 0..Len(w) :
        /\ \A k \in 1..n : w[k].index <= to
        /\ n < Len(w) => w[n + 1].index > to

FreeLE(in, to) ==
    LET n == Freed(Window(in), to)
    IN  [in EXCEPT !.count = @ - n,
                   !.bytes = @ - TotalBytes(SubSeq(Window(in), 1, n)),
                   !.start = IF n = in.count THEN 0 ELSE Rotated(in, n)]

reset(in) == [in EXCEPT !.start = 0, !.count = 0, !.bytes = 0]
=============================================================================
