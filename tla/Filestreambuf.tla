---------------------------- MODULE Filestreambuf ----------------------------
(***************************************************************************)
(* jab::file::Filestreambuf (File.hpp): a std::streambuf over two rings and *)
(* a file.  The rings lag behind the get and put pointers of the streambuf: *)
(* a guard commits what the pointers say was read or put, and sets them     *)
(* again from the ring when it goes.  An operation of the stream is a step. *)
(*                                                                         *)
(* The bytes a file gives are named by their positions, 1, 2, ..., and so   *)
(* are the bytes its user puts.                                             *)
(***************************************************************************)
EXTENDS Ringbuf, FiniteSets

CONSTANTS
    Capacity,   \* of each ring: half of the buffer
    FileSize,   \* bytes the file has to give
    PutLimit    \* bytes its user puts

ASSUME CapacityAssumption == Capacity \in Nat \ {0}
ASSUME LimitsAssumption == FileSize \in Nat /\ PutLimit \in Nat /\ Junk \notin Nat

VARIABLES
    rbuf, wbuf,     \* the rings
    get,            \* eback, gptr and egptr, as offsets in rbuf's array
    put,            \* pbase, pptr and epptr, as offsets in wbuf's array
    filepos,        \* bytes the file has given
    written,        \* what was passed to the file's write, in order
    position,       \* history: bytes the user has consumed
    delivered,      \* history: the bytes the last read returned
    eof,            \* history: the last read reported the end of the file
    sent,           \* history: bytes the user has put
    filled,         \* history: bytes added to rbuf since it was last empty,
                    \* counted up to its capacity
    misread,        \* history: a read used a range of rbuf that was wrong
    miswrote,       \* history: bytes in wbuf were written over
    cut             \* history: a write took less than it was given

vars == <<rbuf, wbuf, get, put, filepos, written, position, delivered, eof,
          sent, filled, misread, miswrote, cut>>
putVars == <<wbuf, put, written, sent, miswrote, cut>>
getVars == <<rbuf, get, filepos, position, delivered, eof, filled, misread>>

AtMost(a, b) == IF a < b THEN a ELSE b

\* Mutant: two bytes are kept back.
ShortGetWindow(r) ==
    [begin |-> r.head, next |-> r.head,
     end |-> IF r.size > 1 THEN GetEnd(r) - 2 ELSE GetEnd(r)]

\* update_gptrs: with more than one byte in the ring, the last one is kept back
\* as a reliable put-back space.
GetWindow(r) ==
    [begin |-> r.head, next |-> r.head,
     end |-> IF r.size > 1 THEN GetEnd(r) - 1 ELSE GetEnd(r)]

\* update_pptrs
PutWindow(w) == [begin |-> PutBegin(w), next |-> PutBegin(w), end |-> PutEnd(w)]

Init ==
    /\ rbuf = Buf(Capacity) /\ wbuf = Buf(Capacity)
    /\ get = GetWindow(rbuf) /\ put = PutWindow(wbuf)
    /\ filepos = 0 /\ written = <<>>
    /\ position = 0 /\ delivered = <<>> /\ eof = FALSE
    /\ sent = 0 /\ filled = 0 /\ misread = FALSE /\ miswrote = FALSE /\ cut = FALSE

-----------------------------------------------------------------------------
(* Reading.                                                                *)

\* commit_rbuf, by GetGuard.  The guard also sets the put pointers, and commits
\* nothing first: what was put since the last commit is forgotten.
Committed == Pop(rbuf, get.next - get.begin)

ForgetPuts == put' = PutWindow(wbuf) /\ UNCHANGED <<wbuf, written, sent, miswrote, cut>>

\* The file gives from 1 to n bytes, or none: its end, or a receive timeout.
Given(n) == 0 .. AtMost(n, FileSize - filepos)

FromFile(n) == [i \in 1 .. n |-> filepos + i]

\* The ring after underflow() has read n bytes into the put range of r.
Refilled(r, n) == Push(Stored(r, FromFile(n)), n)

Added(r, n) == AtMost(Capacity, (IF r.size = 0 THEN 0 ELSE filled) + n)

\* underflow(): r is what the ring holds when it is called.
Underflow(r, n) ==
    /\ n \in Given(PutAvail(r))
    /\ rbuf' = Refilled(r, n)
    /\ filepos' = filepos + n
    /\ filled' = Added(r, n)
    /\ misread' = (misread \/ Overlaps(r))
    /\ eof' = (n = 0)

\* sbumpc in the window of the get pointers.
GetBuffered ==
    /\ get.next < get.end
    /\ delivered' = <<rbuf.cell[get.next]>>
    /\ get' = [get EXCEPT !.next = @ + 1]
    /\ position' = position + 1
    /\ eof' = FALSE
    /\ UNCHANGED <<rbuf, filepos, filled, misread, putVars>>

\* sbumpc at the end of the window: uflow() calls underflow() and steps over the
\* byte it returned.
GetUnderflow ==
    /\ get.next >= get.end
    /\ \E n \in 0 .. Capacity :
        /\ Underflow(Committed, n)
        /\ get' = [GetWindow(rbuf') EXCEPT !.next = IF n = 0 THEN @ ELSE @ + 1]
        /\ delivered' = IF n = 0 THEN <<>> ELSE Front(rbuf', 1)
        /\ position' = position + Len(delivered')
    /\ ForgetPuts

\* sgetc at the end of the window.
PeekUnderflow ==
    /\ get.next >= get.end
    /\ \E n \in 0 .. Capacity : Underflow(Committed, n)
    /\ get' = GetWindow(rbuf')
    /\ delivered' = <<>>
    /\ UNCHANGED position
    /\ ForgetPuts

\* xsgetn: the ring is drained twice, as it may be in two segments, and then
\* the file is read, directly for as much as a ring or more.
Drained(r, n) == AtMost(n, GetAvail(r))

ReadSome(n) ==
    LET r1 == Committed
        n1 == Drained(r1, n)
        r2 == Pop(r1, n1)
        n2 == Drained(r2, n - n1)
        r3 == Pop(r2, n2)
        more == n - n1 - n2
        buffered == Front(r1, n1) \o Front(r2, n2)
    IN
    /\ \/ /\ more = 0
          /\ rbuf' = r3
          /\ delivered' = buffered
          /\ misread' = (misread \/ Hidden(r1))
          /\ eof' = FALSE
          /\ UNCHANGED <<filepos, filled>>
       \/ /\ more >= Capacity
          /\ \E ct \in Given(more) :
                /\ delivered' = buffered \o FromFile(ct)
                /\ filepos' = filepos + ct
                /\ eof' = (ct = 0)
          /\ rbuf' = r3
          /\ misread' = (misread \/ r3.size > 0)
          /\ UNCHANGED filled
       \/ /\ more > 0 /\ more < Capacity
          /\ \E ct \in Given(PutAvail(r3)) :
                LET r4 == Refilled(r3, ct)
                    n4 == IF ct = 0 THEN 0 ELSE Drained(r4, more)
                IN /\ rbuf' = IF ct = 0 THEN r3 ELSE Pop(r4, n4)
                   /\ delivered' = buffered \o Front(r4, n4)
                   /\ filepos' = filepos + ct
                   /\ filled' = Added(r3, ct)
                   /\ eof' = (ct = 0)
          /\ misread' = (misread \/ r3.size > 0)
    /\ get' = GetWindow(rbuf')
    /\ position' = position + Len(delivered')
    /\ ForgetPuts

\* The file throws.  What xsgetn has drained before is in its caller's buffer, although
\* istream::read() counts none of it.
UnderflowFails ==
    /\ get.next >= get.end
    /\ rbuf' = Committed /\ delivered' = <<>>

ReadFails(n) ==
    LET r1 == Committed
        n1 == Drained(r1, n)
        r2 == Pop(r1, n1)
        n2 == Drained(r2, n - n1)
    IN
    /\ n1 + n2 < n
    /\ rbuf' = Pop(r2, n2)
    /\ delivered' = Front(r1, n1) \o Front(r2, n2)

ReadThrows ==
    /\ UnderflowFails \/ \E n \in 1 .. (Capacity + 1) : ReadFails(n)
    /\ get' = GetWindow(rbuf')
    /\ position' = position + Len(delivered') /\ eof' = FALSE
    /\ UNCHANGED <<filepos, filled, misread>>
    /\ ForgetPuts

\* Mutant: the ring may become full.
Overfull(w) == w.size > w.capacity

Full(w) == w.size >= w.capacity

\* sputbackc with the byte that was read last: a step back in the window, or
\* pbackfail, which makes room in the ring unless it is full.
PutBackBuffered ==
    /\ position > 0 /\ delivered # <<>>
    /\ get.next > get.begin
    /\ get' = [get EXCEPT !.next = @ - 1]
    /\ position' = position - 1
    /\ delivered' = <<>> /\ eof' = FALSE
    /\ UNCHANGED <<rbuf, filepos, filled, misread, putVars>>

PutBackFail ==
    /\ position > 0 /\ delivered # <<>>
    /\ get.next = get.begin
    /\ IF Full(rbuf)
       THEN UNCHANGED <<rbuf, position, filled>>
       ELSE LET r == Unpop(rbuf) IN
            /\ rbuf' = [r EXCEPT !.cell[r.head] = delivered[Len(delivered)]]
            /\ position' = position - 1
            /\ filled' = Added(rbuf, 1)
    /\ get' = GetWindow(rbuf')
    /\ delivered' = <<>> /\ eof' = FALSE
    /\ UNCHANGED <<filepos, misread>>
    /\ ForgetPuts

-----------------------------------------------------------------------------
(* Writing.  The file may take any part of what it is given: a short write,  *)
(* or nothing at a send timeout.  If it throws, it has taken nothing, and     *)
(* the call ends.                                                          *)

FromUser(n) == [i \in 1 .. n |-> sent + i]

Taken(n) == 0 .. n

\* commit_wbuf, by PutGuard.
CommittedPuts == Push(wbuf, put.next - put.begin)

\* Mutant: the bytes that were written stay in the ring.
OverflowKept(w, n) == [ring |-> w, out |-> Front(w, n)]

\* overflow(): of the get range of the ring n bytes are written.
Overflow(w, n) == [ring |-> Pop(w, n), out |-> Front(w, n)]

\* fill_wbuf.
FillAvail(w, n) == AtMost(n, PutAvail(w))
Fill(w, s) == Push(Stored(w, s), Len(s))

\* Unread bytes are written over by n more.
Overwrites(w, n) == n > Capacity - w.size

\* sputc in the window of the put pointers, and at its end, where a file that takes
\* nothing makes it fail.
PutBuffered ==
    /\ put.next < put.end
    /\ wbuf' = [wbuf EXCEPT !.cell[put.next] = sent + 1]
    /\ put' = [put EXCEPT !.next = @ + 1]
    /\ sent' = sent + 1
    /\ miswrote' = (miswrote \/ Overwrites(CommittedPuts, 1))
    /\ UNCHANGED <<written, cut, getVars>>

PutOverflow ==
    /\ put.next = put.end
    /\ LET w == CommittedPuts IN
       \E n \in Taken(GetAvail(w)) :
          LET over == Overflow(w, n)
              s == IF GetAvail(w) > 0 /\ n = 0 THEN <<>> ELSE FromUser(1)
          IN /\ written' = written \o over.out
             /\ wbuf' = Fill(over.ring, s)
             /\ sent' = sent + Len(s)
             /\ cut' = (cut \/ n < GetAvail(w))
             /\ miswrote' = (miswrote \/ Overwrites(over.ring, Len(s)))
    /\ put' = PutWindow(wbuf')
    /\ UNCHANGED getVars

\* xsputn: a ring in use is filled up first, and written when it is full; the
\* rest goes to the file directly if it would fill the ring again, and what is left
\* of it to the ring as far as there is room.
WriteSome(n) ==
    LET s == FromUser(n)
        w1 == CommittedPuts
        n1 == IF w1.size = 0 THEN 0 ELSE FillAvail(w1, n)
        w2 == Fill(w1, SubSeq(s, 1, n1))
        offered == IF Full(w2) THEN GetAvail(w2) ELSE 0
    IN
    /\ \E n2 \in Taken(offered) :
       LET over == Overflow(w2, n2)
           direct == IF over.ring.size = 0 /\ n - n1 >= Capacity THEN n - n1 ELSE 0
       IN \E n3 \in Taken(direct), thrown \in BOOLEAN :
          LET n4 == IF thrown THEN 0 ELSE FillAvail(over.ring, n - n1 - n3) IN
          /\ thrown => (offered > 0 /\ n2 = 0) \/ (direct > 0 /\ n3 = 0)
          /\ written' = written \o over.out \o SubSeq(s, n1 + 1, n1 + n3)
          /\ wbuf' = Fill(over.ring, SubSeq(s, n1 + n3 + 1, n1 + n3 + n4))
          /\ sent' = sent + n1 + n3 + n4
          /\ cut' = (cut \/ n2 < offered \/ n3 < direct)
          /\ miswrote' = (miswrote \/ Overwrites(w1, n1) \/ Overwrites(over.ring, n4))
    /\ put' = PutWindow(wbuf')
    /\ UNCHANGED getVars

\* drain_write_buffer, of sync() and seekoff(): the ring is written, in two segments
\* perhaps, until it is empty or nothing is taken.
DrainWriteBuffer ==
    LET w == CommittedPuts  n1 == GetAvail(w) IN
    /\ \E n \in Taken(IF n1 = 0 THEN 0 ELSE w.size) :
          LET first == Overflow(w, AtMost(n, n1))
              second == Overflow(first.ring, n - AtMost(n, n1))
          IN /\ written' = written \o first.out \o second.out
             /\ wbuf' = second.ring
             /\ cut' = (cut \/ n < w.size)
    /\ put' = PutWindow(wbuf')
    /\ UNCHANGED <<sent, miswrote>>

Sync == DrainWriteBuffer /\ UNCHANGED getVars

\* seekoff, in whichever direction: what was read ahead is dropped, what was put is
\* written, and the file is moved.  From ios_base::cur it is moved from where it is
\* itself, not from where its user is.
Seek(pos) ==
    /\ rbuf' = Clear(rbuf)
    /\ get' = GetWindow(rbuf')
    /\ DrainWriteBuffer
    /\ filepos' = pos /\ position' = pos
    /\ delivered' = <<>> /\ eof' = FALSE /\ filled' = 0
    /\ UNCHANGED misread

\* The file cannot be moved, or throws when it is written to: it stays where it is, and
\* its user, whose bytes were dropped, is moved on.
SeekFails == Seek(filepos)

-----------------------------------------------------------------------------
(* A user that flushes what it has put before it reads, as the session does *)
(* with each command (baw.cpp, send_command).                               *)

Flushed == put.next = put.begin

Read ==
    \/ GetBuffered \/ GetUnderflow \/ PeekUnderflow
    \/ PutBackBuffered \/ PutBackFail
    \/ \E n \in 1 .. (Capacity + 1) : ReadSome(n)
    \/ ReadThrows

Write ==
    \/ sent < PutLimit /\ (PutBuffered \/ PutOverflow)
    \/ \E n \in 1 .. (PutLimit - sent) : WriteSome(n)
    \/ Sync

\* A bound: where its user seeks to.
SeekPositions == {0, FileSize \div 2}

Next ==
    \/ Write \/ (Flushed /\ Read)
    \/ (\E pos \in SeekPositions : Seek(pos)) \/ SeekFails

Spec == Init /\ [][Next]_vars
-----------------------------------------------------------------------------
RingOK(r) ==
    /\ r.capacity = Capacity
    /\ r.head \in 0 .. (Capacity - 1) /\ r.tail \in 0 .. Capacity
    /\ r.size \in Nat
    /\ r.cell \in [0 .. (Capacity - 1) -> Nat \cup {Junk}]

WindowOK(w) ==
    /\ w.begin \in 0 .. Capacity
    /\ w.next \in w.begin .. Capacity

TypeOK ==
    /\ RingOK(rbuf) /\ RingOK(wbuf)
    /\ WindowOK(get) /\ WindowOK(put)
    /\ filepos \in 0 .. FileSize /\ position \in Nat
    /\ written \in Seq(Nat \cup {Junk}) /\ delivered \in Seq(Nat \cup {Junk})
    /\ eof \in BOOLEAN /\ misread \in BOOLEAN /\ miswrote \in BOOLEAN /\ cut \in BOOLEAN
    /\ sent \in 0 .. PutLimit /\ filled \in 0 .. Capacity

InPlace == \A i \in DOMAIN delivered : delivered[i] = position - Len(delivered) + i

\* Every read returns the bytes at the user's position, each once and in order,
\* across reads of any kind, put-backs, early ends and seeks, until some read
\* uses a range of the ring that overlaps unread bytes or hides them.
ReadsInOrder == misread \/ InPlace

\* A read uses a wrong range only of a ring that has been filled to its
\* capacity since it was last empty.
RangesRightUntilFull ==
    (filled < Capacity /\ ~misread) => ~Overlaps(Committed) /\ ~Hidden(Committed)

\* When the end of the file is reported at most one byte the file has given is
\* kept back.
AtMostOneKeptBack == (eof /\ ~misread) => filepos - position <= 1

\* What was written, what waits in the ring and what is still in the window of
\* the put pointers are together what the user has put, in order, whatever the
\* mixture of single puts, bulk writes, flushes and reads and however the file cuts
\* the writes, until bytes are put into a ring without room for them.
WritesInOrder ==
    miswrote \/ written \o Unread(CommittedPuts) = [i \in 1 .. sent |-> i]

\* With a file that takes everything only single puts leave the ring full: a bulk
\* write always leaves room for the next one, or an empty ring.
OnlyPutsFill ==
    (~miswrote /\ ~cut /\ Overlaps(CommittedPuts)) =>
        put.next = Capacity /\ put.begin < put.next

\* "IO Test string read did not match expected": a reader gets what the file holds.
ReadMatchesFile == InPlace
=============================================================================
