------------------------------- MODULE Ringbuf -------------------------------
(***************************************************************************)
(* jab::io::ringbuffer (ringbuf.hpp): a ring over a borrowed array.  The   *)
(* pointers are offsets from m_buffer, so m_buffer_end is the capacity; a   *)
(* tail may stand there, a head may not.  Unread cells are read and free   *)
(* ones are filled in contiguous segments, the get range and the put range. *)
(***************************************************************************)
EXTENDS Integers, Sequences

CONSTANT Junk   \* what a cell holds that nobody has written

Buf(capacity) ==
    [capacity |-> capacity, size |-> 0, head |-> 0, tail |-> 0,
     cell |-> [i \in 0 .. (capacity - 1) |-> Junk]]

\* What an empty ring's cells held is forgotten: they are written before they
\* are read again.
Clear(r) == Buf(r.capacity)

-----------------------------------------------------------------------------
(* The two ranges.                                                         *)

GetEnd(r) == IF r.tail >= r.head THEN r.tail ELSE r.capacity

PutBegin(r) == IF r.tail = r.capacity THEN 0 ELSE r.tail

PutEnd(r) == IF r.tail >= r.head THEN r.capacity ELSE r.head

GetAvail(r) == GetEnd(r) - r.head

PutAvail(r) == PutEnd(r) - PutBegin(r)

\* The first n cells of the get range.
Front(r, n) == [i \in 1 .. n |-> r.cell[r.head + i - 1]]

\* All that is unread, past the end of the array.
Unread(r) == [i \in 1 .. r.size |-> r.cell[(r.head + i - 1) % r.capacity]]

\* The ring with s written at the start of its put range, which push then commits.
Stored(r, s) ==
    [r EXCEPT !.cell = [i \in DOMAIN r.cell |->
        IF i \in PutBegin(r) .. (PutBegin(r) + Len(s) - 1)
        THEN s[i - PutBegin(r) + 1] ELSE r.cell[i]]]

-----------------------------------------------------------------------------
Push(r, n) ==
    IF n = 0 THEN r
    ELSE [r EXCEPT !.tail = PutBegin(r) + n, !.size = @ + n]

\* Mutant: an emptied ring keeps its pointers.
PopOnly(r, n) ==
    [r EXCEPT !.size = @ - n, !.head = IF @ + n >= r.capacity THEN 0 ELSE @ + n]

\* A ring that becomes empty starts again at the beginning of its array.
Pop(r, n) ==
    IF r.size = n THEN Clear(r)
    ELSE [r EXCEPT !.size = @ - n, !.head = IF @ + n >= r.capacity THEN 0 ELSE @ + n]

\* Mutant: the head does not wrap around.
UnpopStraight(r) == [r EXCEPT !.size = @ + 1, !.head = @ - 1]

\* One cell is added before the head, to be written through the get range.
Unpop(r) ==
    [r EXCEPT !.size = @ + 1, !.head = IF @ = 0 THEN r.capacity - 1 ELSE @ - 1]

-----------------------------------------------------------------------------
(* What goes wrong with the two ranges.                                    *)

\* The put range reaches into unread cells: the tail stands at the end of the
\* array, or a full ring has its tail at its head.
Overlaps(r) == r.size > 0 /\ PutAvail(r) > r.capacity - r.size

\* The get range is empty although the ring is not: its tail is at its head.
Hidden(r) == r.size > 0 /\ GetAvail(r) = 0
=============================================================================
