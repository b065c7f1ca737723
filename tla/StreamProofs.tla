---------------------------- MODULE StreamProofs ----------------------------
(***************************************************************************)
(* What Filestreambuf does for a ring of any capacity, a file of any size   *)
(* and any number of bytes put.  The invariant has a half for the writer,    *)
(* which holds until bytes are put into a ring without room for them, and a   *)
(* half for the reader, which holds until a read uses a range of the ring    *)
(* that is wrong.  The lemmas follow the stream: the ring, the runs of bytes  *)
(* it holds, then each operation.                                           *)
(***************************************************************************)
EXTENDS Filestreambuf, SequenceTheorems, TLAPS

-----------------------------------------------------------------------------
(* The invariant.                                                          *)

\* Where the j-th unread byte of a ring stands, from 0 on.
PlaceFrom(h, j) == IF h + j < Capacity THEN h + j ELSE h + j - Capacity
Place(r, j) == PlaceFrom(r.head, j)

Cells == [0 .. (Capacity - 1) -> Nat \cup {Junk}]

Rings == [capacity : {Capacity}, size : 0 .. Capacity, head : 0 .. (Capacity - 1),
          tail : 0 .. Capacity, cell : Cells]

\* The tail is where the unread bytes end, in one segment or two.
RingShape(r) ==
    /\ r \in Rings
    /\ r.tail = r.head + r.size \/ r.tail = r.head + r.size - Capacity
    /\ r.size = 0 => r.head = 0 /\ r.tail = 0

\* Its unread bytes are consecutive.
Holds(r, from) ==
    RingShape(r) /\ \A j \in 0 .. (r.size - 1) : r.cell[Place(r, j)] = from + j + 1

Windows == [begin : 0 .. Capacity, next : 0 .. Capacity, end : Int]

Bytes(from, n) == [i \in 1 .. n |-> from + i]

\* Of wbuf and its window together: what has not been written of what was put.
Putting == put.next - put.begin

\* What is written are the first bytes, and the ring w holds the next ones.
Waits(w, out) ==
    out \in Seq(Nat) /\ out = Bytes(0, Len(out)) /\ Holds(w, Len(out))

Straight(w) == w.head = 0 /\ w.tail = w.size /\ w.size < Capacity

WriteInv ==
    /\ Waits(wbuf, written)
    /\ put \in Windows /\ put.begin = PutBegin(wbuf) /\ put.end = PutEnd(wbuf)
    /\ Putting \in 0 .. (Capacity - wbuf.size) /\ put.next <= put.end
    /\ \A j \in 0 .. (Putting - 1) : wbuf.cell[put.begin + j] = Len(written) + wbuf.size + j + 1
    /\ sent \in 0 .. PutLimit /\ sent = Len(written) + wbuf.size + Putting
    /\ cut \in BOOLEAN
    /\ ~cut /\ Capacity > 1 => Straight(wbuf)

Getting == get.next - get.begin

\* The read ring stays in one segment, but for a byte that was put back into an empty one.
\* Its unread bytes come after the first of them.
Loaded(r, first) ==
    /\ first \in Nat /\ Holds(r, first)
    /\ r.tail = r.head + r.size \/ (r.size = 1 /\ r.head = Capacity - 1 /\ r.tail = 0)

\* The bytes added since the ring was last empty reach as far as its tail.
Reached(r, f) ==
    f \in 0 .. Capacity /\ r.tail <= f /\ (r.tail = 0 /\ r.size > 0 => f > 0)

\* There is room before a byte to be put back.
Roomy(r) == r.size > 0 => r.head > 0 /\ r.tail > 0

ReadInv ==
    /\ position \in Nat /\ Loaded(rbuf, position - Getting)
    /\ get \in Windows /\ get.begin = rbuf.head /\ get.end = GetWindow(rbuf).end
    /\ get.begin <= get.next /\ get.next <= get.end
    /\ filepos \in 0 .. FileSize /\ filepos = position - Getting + rbuf.size
    /\ delivered \in Seq(Nat) /\ InPlace /\ Len(delivered) <= position
    /\ eof \in BOOLEAN /\ (eof => rbuf.size - Getting <= 1)
    /\ Reached(rbuf, filled)
    /\ delivered # <<>> /\ Getting = 0 => Roomy(rbuf)

StreamInv ==
    /\ misread \in BOOLEAN /\ miswrote \in BOOLEAN
    /\ miswrote \/ WriteInv
    /\ misread \/ ReadInv

-----------------------------------------------------------------------------
(* The rings.                                                              *)

\* The ranges of a ring lie in its array.
LEMMA RangeFacts ==
  ASSUME NEW r, RingShape(r)
  PROVE  /\ r.capacity = Capacity /\ r.size \in 0 .. Capacity /\ r.head \in 0 .. (Capacity - 1)
         /\ r.tail \in 0 .. Capacity /\ r.cell \in Cells /\ Capacity \in Nat \ {0}
         /\ PutBegin(r) \in 0 .. (Capacity - 1) /\ PutEnd(r) \in 0 .. Capacity
         /\ PutAvail(r) \in 1 .. Capacity
         /\ GetEnd(r) \in 0 .. Capacity
         /\ GetAvail(r) \in 0 .. r.size /\ r.head + GetAvail(r) <= Capacity
  <1>1. /\ r.capacity = Capacity /\ r.size \in 0 .. Capacity /\ r.head \in 0 .. (Capacity - 1)
        /\ r.tail \in 0 .. Capacity /\ r.cell \in Cells /\ Capacity \in Nat \ {0}
        /\ r.tail = r.head + r.size \/ r.tail = r.head + r.size - Capacity
    BY CapacityAssumption DEF RingShape, Rings
  <1>2. /\ PutBegin(r) \in 0 .. (Capacity - 1) /\ PutEnd(r) \in 0 .. Capacity
        /\ PutBegin(r) < PutEnd(r)
    <2>1. CASE r.tail = r.capacity
      <3>1. PutBegin(r) = 0 /\ PutEnd(r) = Capacity
        BY <1>1, <2>1 DEF PutBegin, PutEnd
      <3> QED
        BY <1>1, <3>1
    <2>2. CASE r.tail # r.capacity
      <3>1. PutBegin(r) = r.tail /\ r.tail < Capacity
        BY <1>1, <2>2 DEF PutBegin
      <3>2. PutEnd(r) = IF r.tail >= r.head THEN Capacity ELSE r.head
        BY <1>1 DEF PutEnd
      <3> QED
        BY <1>1, <3>1, <3>2
    <2> QED
      BY <2>1, <2>2
  <1>3. /\ GetEnd(r) \in 0 .. Capacity
        /\ GetAvail(r) \in 0 .. r.size /\ r.head + GetAvail(r) <= Capacity
    BY <1>1 DEF GetEnd, GetAvail
  <1>4. PutAvail(r) \in 1 .. Capacity
    BY <1>1, <1>2 DEF PutAvail
  <1> QED
    BY <1>1, <1>2, <1>3, <1>4

\* A place is in the array.
LEMMA PlaceFacts ==
  ASSUME NEW h \in 0 .. (Capacity - 1), NEW j \in 0 .. (Capacity - 1)
  PROVE  PlaceFrom(h, j) \in 0 .. (Capacity - 1)
  BY CapacityAssumption DEF PlaceFrom

\* What is put behind the unread bytes, if there is room for it.
LEMMA FillFacts ==
  ASSUME NEW r, RingShape(r), NEW s, Len(s) \in 0 .. PutAvail(r),
         \A i \in 1 .. Len(s) : s[i] \in Nat
  PROVE  LET q == Fill(r, s) IN
         /\ q.capacity = Capacity /\ q.size = r.size + Len(s) /\ q.head = r.head
         /\ q.tail = IF Len(s) = 0 THEN r.tail ELSE PutBegin(r) + Len(s)
         /\ q.cell \in Cells
         /\ \A i \in 0 .. (Capacity - 1) :
               q.cell[i] = IF i \in PutBegin(r) .. (PutBegin(r) + Len(s) - 1)
                           THEN s[i - PutBegin(r) + 1] ELSE r.cell[i]
         /\ r.size + Len(s) <= Capacity => q \in Rings
  <1> DEFINE n == Len(s)
             stored == Stored(r, s)
             cell == [i \in 0 .. (Capacity - 1) |->
                         IF i \in PutBegin(r) .. (PutBegin(r) + n - 1)
                         THEN s[i - PutBegin(r) + 1] ELSE r.cell[i]]
  <1>1. /\ r.capacity = Capacity /\ r.size \in 0 .. Capacity /\ r.head \in 0 .. (Capacity - 1)
        /\ r.tail \in 0 .. Capacity /\ r.cell \in Cells /\ Capacity \in Nat \ {0}
        /\ PutBegin(r) \in 0 .. (Capacity - 1) /\ n \in Nat
    BY RangeFacts
  <1>2. r = [capacity |-> r.capacity, size |-> r.size, head |-> r.head, tail |-> r.tail,
             cell |-> r.cell]
    BY DEF RingShape, Rings
  <1>3. DOMAIN r.cell = 0 .. (Capacity - 1)
    BY <1>1 DEF Cells
  <1>4. stored = [r EXCEPT !.cell = cell]
    BY <1>3 DEF Stored
  <1>5. stored = [capacity |-> r.capacity, size |-> r.size, head |-> r.head, tail |-> r.tail,
                  cell |-> cell]
    <2> HIDE DEF cell, stored
    <2> QED
      BY <1>2, <1>4
  <1>6. cell \in Cells
    <2>1. \A i \in 0 .. (Capacity - 1) :
              (IF i \in PutBegin(r) .. (PutBegin(r) + n - 1)
               THEN s[i - PutBegin(r) + 1] ELSE r.cell[i]) \in Nat \cup {Junk}
      <3> TAKE i \in 0 .. (Capacity - 1)
      <3>1. r.cell[i] \in Nat \cup {Junk}
        BY <1>1 DEF Cells
      <3>2. i \in PutBegin(r) .. (PutBegin(r) + n - 1) => i - PutBegin(r) + 1 \in 1 .. n
        BY <1>1
      <3> QED
        BY <3>1, <3>2
    <2> QED
      BY <2>1 DEF Cells
  <1>7. Fill(r, s) = IF n = 0 THEN stored
                     ELSE [stored EXCEPT !.tail = PutBegin(stored) + n, !.size = @ + n]
    BY DEF Fill, Push
  <1>8. PutBegin(stored) = PutBegin(r)
    <2> HIDE DEF stored, cell
    <2> QED
      BY <1>5 DEF PutBegin
  <1>9. Fill(r, s) = [capacity |-> Capacity, size |-> r.size + n, head |-> r.head,
                      tail |-> IF n = 0 THEN r.tail ELSE PutBegin(r) + n, cell |-> cell]
    <2> HIDE DEF stored, cell, n
    <2>1. CASE n = 0
      <3>1. r.size + n = r.size
        BY <1>1, <2>1
      <3> QED
        BY <1>1, <1>5, <1>7, <2>1, <3>1
    <2>2. CASE n # 0
      BY <1>1, <1>5, <1>7, <1>8, <2>2
    <2> QED
      BY <2>1, <2>2
  <1>10. \A i \in 0 .. (Capacity - 1) :
            cell[i] = IF i \in PutBegin(r) .. (PutBegin(r) + n - 1)
                      THEN s[i - PutBegin(r) + 1] ELSE r.cell[i]
    OBVIOUS
  <1>11. PutBegin(r) + n \in 0 .. Capacity
    BY RangeFacts DEF PutAvail
  <1> HIDE DEF cell, stored
  <1>12. r.size + n <= Capacity => Fill(r, s) \in Rings
    BY <1>1, <1>6, <1>9, <1>11 DEF Rings
  <1> QED
    BY <1>6, <1>9, <1>10, <1>12

\* A ring stays a ring of consecutive bytes when the next ones are put behind them, into
\* cells that are free.
LEMMA FillHolds ==
  ASSUME NEW r, NEW from \in Nat, Holds(r, from), NEW s, Len(s) \in 0 .. PutAvail(r),
         r.size + Len(s) <= Capacity, \A i \in 1 .. Len(s) : s[i] = from + r.size + i
  PROVE  /\ Holds(Fill(r, s), from) /\ Fill(r, s).size = r.size + Len(s)
         /\ Fill(r, s).head = r.head
         /\ Fill(r, s).tail = IF Len(s) = 0 THEN r.tail ELSE PutBegin(r) + Len(s)
  <1> DEFINE q == Fill(r, s)
             n == Len(s)
  <1>1. /\ r.capacity = Capacity /\ r.size \in 0 .. Capacity /\ r.head \in 0 .. (Capacity - 1)
        /\ r.tail \in 0 .. Capacity /\ r.cell \in Cells /\ Capacity \in Nat \ {0} /\ n \in Nat
        /\ PutBegin(r) \in 0 .. (Capacity - 1) /\ PutBegin(r) + n <= PutEnd(r)
        /\ PutEnd(r) \in 0 .. Capacity
    BY RangeFacts DEF Holds, PutAvail
  <1>2. \A i \in 1 .. n : s[i] \in Nat
    BY <1>1
  <1>3. /\ q \in Rings /\ q.size = r.size + n /\ q.head = r.head
        /\ q.tail = IF n = 0 THEN r.tail ELSE PutBegin(r) + n
        /\ \A i \in 0 .. (Capacity - 1) :
               q.cell[i] = IF i \in PutBegin(r) .. (PutBegin(r) + n - 1)
                           THEN s[i - PutBegin(r) + 1] ELSE r.cell[i]
    BY <1>2, FillFacts DEF Holds
  <1> HIDE DEF q
  <1>4. /\ r.tail = r.head + r.size \/ r.tail = r.head + r.size - Capacity
        /\ r.size = 0 => r.head = 0 /\ r.tail = 0
        /\ \A j \in 0 .. (r.size - 1) : r.cell[Place(r, j)] = from + j + 1
    BY DEF Holds, RingShape
  <1>5. PutBegin(r) = IF r.tail = Capacity THEN 0 ELSE r.tail
    BY <1>1 DEF PutBegin
  <1>6. PutEnd(r) = IF r.tail >= r.head THEN Capacity ELSE r.head
    BY <1>1 DEF PutEnd
  <1> HIDE DEF n
  <1>7. n # 0 => \/ PutBegin(r) = r.head + r.size
                 \/ PutBegin(r) = r.head + r.size - Capacity /\ PutBegin(r) + n <= r.head
    <2>1. CASE r.tail = Capacity
      BY <1>1, <1>4, <1>5, <2>1 DEF n
    <2>2. CASE r.tail # Capacity
      <3>1. PutBegin(r) = r.tail
        BY <1>5, <2>2
      <3> QED
        BY <1>1, <1>4, <3>1 DEF n
    <2> QED
      BY <2>1, <2>2
  <1>8. /\ r.head \in Int /\ r.size \in Int /\ PutBegin(r) \in Int /\ n \in Int /\ Capacity \in Int
        /\ 0 <= r.head /\ r.head < Capacity /\ 0 <= r.size /\ 0 <= PutBegin(r) /\ 0 <= n
        /\ r.size + n <= Capacity /\ PutBegin(r) + n <= Capacity
    BY <1>1 DEF n
  <1>9. CASE n = 0
    <2>1. q.size = r.size /\ q.head = r.head /\ q.tail = r.tail
      BY <1>3, <1>8, <1>9
    <2>2. \A i \in 0 .. (Capacity - 1) : q.cell[i] = r.cell[i]
      BY <1>3, <1>8, <1>9
    <2>3. \A j \in 0 .. (r.size - 1) : j \in 0 .. (Capacity - 1)
      BY <1>1, <1>8
    <2>4. \A j \in 0 .. (r.size - 1) : Place(q, j) = Place(r, j) /\ Place(r, j) \in 0 .. (Capacity - 1)
      BY <1>1, <2>1, <2>3, PlaceFacts DEF Place
    <2>5. RingShape(q)
      BY <1>3, <1>4, <2>1 DEF RingShape
    <2>6. Holds(q, from)
      BY <1>4, <2>1, <2>2, <2>4, <2>5 DEF Holds
    <2> QED
      BY <1>3, <2>6 DEF q, n
  <1>10. CASE n # 0
    <2>1. q.size = r.size + n /\ q.head = r.head /\ q.tail = PutBegin(r) + n /\ q.size # 0
      BY <1>3, <1>8, <1>10
    <2>2. PutBegin(r) + n = r.head + (r.size + n) \/ PutBegin(r) + n = r.head + (r.size + n) - Capacity
      BY <1>7, <1>8, <1>10
    <2>3. RingShape(q)
      BY <1>3, <2>1, <2>2 DEF RingShape
    <2>4. \A j \in 0 .. (r.size - 1) : r.cell[PlaceFrom(r.head, j)] = from + j + 1
      BY <1>4 DEF Place
    <2>5. \A i \in 1 .. n : s[i] = from + r.size + i
      BY DEF n
    <2>6. \A i \in 0 .. (Capacity - 1) :
               q.cell[i] = IF i \in PutBegin(r) .. (PutBegin(r) + n - 1)
                           THEN s[i - PutBegin(r) + 1] ELSE r.cell[i]
      BY <1>3
    <2>7. \/ PutBegin(r) = r.head + r.size
          \/ PutBegin(r) = r.head + r.size - Capacity /\ PutBegin(r) + n <= r.head
      BY <1>7, <1>10
    <2>8. 0 < n /\ n \in Nat
      BY <1>8, <1>10
    <2>9. ASSUME NEW j \in 0 .. (q.size - 1)
          PROVE  q.cell[Place(q, j)] = from + j + 1
      <3>1. PICK h \in 0 .. (Capacity - 1), k \in 0 .. Capacity, b \in 0 .. (Capacity - 1) :
                h = r.head /\ k = r.size /\ b = PutBegin(r)
        BY <1>1
      <3>2. /\ k + n <= Capacity /\ b + n <= Capacity
            /\ b = h + k \/ (b = h + k - Capacity /\ b + n <= h)
        BY <1>8, <2>7, <3>1
      <3>3. j \in 0 .. (k + n - 1) /\ j \in 0 .. (Capacity - 1)
        <4>1. q.size = k + n
          BY <2>1, <3>1
        <4> QED
          BY <1>1, <2>8, <3>2, <4>1
      <3>4. PICK place \in 0 .. (Capacity - 1) : place = PlaceFrom(h, j)
        BY <3>3, PlaceFacts
      <3>5. place = IF h + j < Capacity THEN h + j ELSE h + j - Capacity
        BY <3>4 DEF PlaceFrom
      <3>6. Place(q, j) = place
        BY <2>1, <3>1, <3>4 DEF Place
      <3>7. q.cell[place] = IF place \in b .. (b + n - 1) THEN s[place - b + 1] ELSE r.cell[place]
        BY <2>6, <3>1
      <3>8. CASE j < k
        <4>1. place \notin b .. (b + n - 1)
          BY <1>1, <2>8, <3>2, <3>3, <3>5, <3>8
        <4>2. r.cell[place] = from + j + 1
          <5>1. j \in 0 .. (r.size - 1)
            BY <3>1, <3>3, <3>8
          <5> QED
            BY <2>4, <3>1, <3>4, <5>1
        <4> QED
          BY <3>6, <3>7, <4>1, <4>2
      <3>9. CASE j >= k
        <4>1. place = b + (j - k)
          BY <1>1, <3>2, <3>3, <3>5, <3>9
        <4>2. place \in b .. (b + n - 1) /\ place - b + 1 = j - k + 1 /\ j - k + 1 \in 1 .. n
          BY <2>8, <3>3, <3>9, <4>1
        <4>3. s[j - k + 1] = from + k + (j - k + 1)
          BY <2>5, <3>1, <4>2
        <4>4. from + k + (j - k + 1) = from + j + 1
          OBVIOUS
        <4> QED
          BY <3>6, <3>7, <4>2, <4>3, <4>4
      <3> QED
        BY <3>3, <3>8, <3>9
    <2>10. Holds(q, from)
      BY <2>3, <2>9 DEF Holds
    <2> QED
      BY <1>3, <2>10 DEF q, n
  <1> QED
    BY <1>9, <1>10

-----------------------------------------------------------------------------
(* Runs of consecutive bytes.                                              *)

\* What a run of bytes is.
LEMMA BytesFacts ==
  ASSUME NEW from \in Nat, NEW n \in Nat
  PROVE  /\ Bytes(from, n) \in Seq(Nat) /\ Len(Bytes(from, n)) = n
         /\ \A i \in 1 .. n : Bytes(from, n)[i] = from + i
         /\ Bytes(from, 0) = <<>>
  BY DEF Bytes

\* Two runs that meet are one.
LEMMA BytesJoin ==
  ASSUME NEW from \in Nat, NEW m \in Nat, NEW n \in Nat
  PROVE  Bytes(from, m) \o Bytes(from + m, n) = Bytes(from, m + n)
  <1> DEFINE a == Bytes(from, m)
             b == Bytes(from + m, n)
             c == Bytes(from, m + n)
  <1>1. /\ a \in Seq(Nat) /\ Len(a) = m /\ b \in Seq(Nat) /\ Len(b) = n
        /\ c \in Seq(Nat) /\ Len(c) = m + n
        /\ \A i \in 1 .. m : a[i] = from + i
        /\ \A i \in 1 .. n : b[i] = from + m + i
        /\ \A i \in 1 .. (m + n) : c[i] = from + i
    BY BytesFacts, m + n \in Nat, from + m \in Nat
  <1> HIDE DEF a, b, c
  <1>2. /\ a \o b \in Seq(Nat) /\ Len(a \o b) = m + n
        /\ \A i \in 1 .. (m + n) : (a \o b)[i] = IF i <= m THEN a[i] ELSE b[i - m]
    <2>1. a \in Seq(Nat) /\ b \in Seq(Nat) /\ Len(a) = m /\ Len(b) = n
      BY <1>1
    <2> QED
      BY <2>1, ConcatProperties
  <1>3. \A i \in 1 .. (m + n) : (a \o b)[i] = c[i]
    <2> TAKE i \in 1 .. (m + n)
    <2>1. (a \o b)[i] = IF i <= m THEN a[i] ELSE b[i - m]
      BY <1>2
    <2>2. CASE i <= m
      BY <1>1, <2>1, <2>2
    <2>3. CASE i > m
      <3>1. i - m \in 1 .. n
        BY <2>3
      <3>2. b[i - m] = from + m + (i - m) /\ from + m + (i - m) = from + i
        BY <1>1, <3>1
      <3> QED
        BY <1>1, <2>1, <2>3, <3>2
    <2> QED
      BY <2>2, <2>3, i <= m \/ i > m
  <1>4. a \o b = c
    BY <1>1, <1>2, <1>3, SeqEqual
  <1> QED
    BY <1>4 DEF a, b, c

\* A part of a run is a run.
LEMMA BytesPart ==
  ASSUME NEW from \in Nat, NEW n \in Nat, NEW k \in Nat, NEW m \in Nat, k + m <= n
  PROVE  SubSeq(Bytes(from, n), k + 1, k + m) = Bytes(from + k, m)
  <1> DEFINE a == Bytes(from, n)
             b == SubSeq(a, k + 1, k + m)
             c == Bytes(from + k, m)
  <1>1. /\ a \in Seq(Nat) /\ Len(a) = n /\ c \in Seq(Nat) /\ Len(c) = m
        /\ \A i \in 1 .. n : a[i] = from + i
        /\ \A i \in 1 .. m : c[i] = from + k + i
    BY BytesFacts, from + k \in Nat
  <1> HIDE DEF a, c
  <1>2. b \in Seq(Nat) /\ Len(b) = m /\ \A i \in 1 .. m : b[i] = a[k + 1 + i - 1]
    <2>1. b = [i \in 1 .. m |-> a[k + 1 + i - 1]]
      BY DEF b
    <2>2. \A i \in 1 .. m : a[k + 1 + i - 1] \in Nat
      <3> TAKE i \in 1 .. m
      <3>1. k + 1 + i - 1 \in 1 .. n
        OBVIOUS
      <3> QED
        BY <1>1, <3>1
    <2> HIDE DEF b
    <2> QED
      BY <2>1, <2>2
  <1>3. \A i \in 1 .. m : b[i] = c[i]
    <2> TAKE i \in 1 .. m
    <2>1. k + 1 + i - 1 \in 1 .. n /\ from + (k + 1 + i - 1) = from + k + i
      OBVIOUS
    <2> HIDE DEF b
    <2> QED
      BY <1>1, <1>2, <2>1
  <1> HIDE DEF b
  <1>4. b = c
    BY <1>1, <1>2, <1>3, SeqEqual
  <1> QED
    BY <1>4 DEF a, b, c

\* The next bytes put behind the unread ones.
LEMMA FillBytes ==
  ASSUME NEW r, NEW from \in Nat, Holds(r, from), NEW n \in 0 .. PutAvail(r),
         r.size + n <= Capacity
  PROVE  LET q == Fill(r, Bytes(from + r.size, n)) IN
         /\ Holds(q, from) /\ q.size = r.size + n /\ q.head = r.head
         /\ q.tail = IF n = 0 THEN r.tail ELSE PutBegin(r) + n
  <1>1. r.size \in Nat /\ n \in Nat /\ from + r.size \in Nat
    BY RangeFacts DEF Holds
  <1> DEFINE s == Bytes(from + r.size, n)
  <1>2. Len(s) = n /\ \A i \in 1 .. Len(s) : s[i] = from + r.size + i
    BY <1>1, BytesFacts
  <1> HIDE DEF s
  <1>3. /\ Holds(Fill(r, s), from) /\ Fill(r, s).size = r.size + Len(s)
        /\ Fill(r, s).head = r.head
        /\ Fill(r, s).tail = IF Len(s) = 0 THEN r.tail ELSE PutBegin(r) + Len(s)
    BY <1>2, FillHolds
  <1> QED
    BY <1>2, <1>3 DEF s

\* An empty ring may be said to hold what comes next, whatever it is.
LEMMA EmptyHolds ==
  ASSUME NEW from \in Nat
  PROVE  /\ Holds(Buf(Capacity), from) /\ Buf(Capacity).size = 0
         /\ Buf(Capacity).head = 0 /\ Buf(Capacity).tail = 0
  <1>1. [i \in 0 .. (Capacity - 1) |-> Junk] \in Cells
    BY DEF Cells
  <1>2. /\ Buf(Capacity) \in Rings /\ Buf(Capacity).size = 0
        /\ Buf(Capacity).head = 0 /\ Buf(Capacity).tail = 0
    BY <1>1, CapacityAssumption DEF Rings, Buf
  <1> QED
    BY <1>2 DEF Holds, RingShape

\* What is popped is what comes first, and the rest stays.
LEMMA PopHolds ==
  ASSUME NEW r, NEW from \in Nat, Holds(r, from), NEW n \in 0 .. GetAvail(r)
  PROVE  /\ Holds(Pop(r, n), from + n) /\ Pop(r, n).size = r.size - n
         /\ Front(r, n) = Bytes(from, n)
         /\ Pop(r, n).tail = IF n = r.size THEN 0 ELSE r.tail
         /\ Pop(r, n).head = IF n = r.size \/ r.head + n = Capacity THEN 0 ELSE r.head + n
  <1> DEFINE q == Pop(r, n)
  <1>1. /\ r.capacity = Capacity /\ r.size \in 0 .. Capacity /\ r.head \in 0 .. (Capacity - 1)
        /\ r.tail \in 0 .. Capacity /\ r.cell \in Cells /\ Capacity \in Nat \ {0}
        /\ GetAvail(r) \in 0 .. r.size /\ r.head + GetAvail(r) <= Capacity
    BY RangeFacts DEF Holds
  <1>2. /\ r.tail = r.head + r.size \/ r.tail = r.head + r.size - Capacity
        /\ \A j \in 0 .. (r.size - 1) : r.cell[Place(r, j)] = from + j + 1
    BY DEF Holds, RingShape
  <1>3. n \in 0 .. r.size /\ r.head + n <= Capacity /\ from + n \in Nat
    BY <1>1
  <1>4. Front(r, n) = Bytes(from, n)
    <2>1. ASSUME NEW i \in 1 .. n
          PROVE  r.cell[r.head + i - 1] = from + i
      <3>1. i - 1 \in 0 .. (r.size - 1) /\ from + (i - 1) + 1 = from + i
        <4>1. PICK k \in 0 .. Capacity : k = r.size
          BY <1>1
        <4>2. n <= k
          BY <1>3, <4>1
        <4> QED
          BY <4>1, <4>2
      <3>2. PICK h \in 0 .. (Capacity - 1) : h = r.head
        BY <1>1
      <3>3. PlaceFrom(h, i - 1) = h + i - 1
        BY <1>1, <1>3, <3>1, <3>2 DEF PlaceFrom
      <3> QED
        BY <1>2, <3>1, <3>2, <3>3 DEF Place
    <2> QED
      BY <2>1 DEF Front, Bytes
  <1>5. CASE n = r.size
    <2>1. q = Buf(Capacity)
      BY <1>1, <1>5 DEF Pop, Clear
    <2>2. Holds(q, from + n) /\ q.size = 0 /\ q.head = 0 /\ q.tail = 0
      BY <1>3, <2>1, EmptyHolds
    <2> HIDE DEF q
    <2>3. q.size = r.size - n
      BY <1>1, <1>5, <2>2
    <2> QED
      BY <1>4, <1>5, <2>2, <2>3 DEF q
  <1>6. CASE n # r.size
    <2>1. q = [r EXCEPT !.size = @ - n, !.head = IF @ + n >= r.capacity THEN 0 ELSE @ + n]
      BY <1>6 DEF Pop
    <2>2. r = [capacity |-> r.capacity, size |-> r.size, head |-> r.head, tail |-> r.tail,
               cell |-> r.cell]
      BY DEF Holds, RingShape, Rings
    <2> HIDE DEF q
    <2>3. /\ q.capacity = Capacity /\ q.size = r.size - n /\ q.tail = r.tail /\ q.cell = r.cell
          /\ q.head = IF r.head + n >= Capacity THEN 0 ELSE r.head + n
          /\ q = [capacity |-> q.capacity, size |-> q.size, head |-> q.head, tail |-> q.tail,
                  cell |-> q.cell]
      BY <1>1, <2>1, <2>2
    <2>4. PICK h \in 0 .. (Capacity - 1), k \in 0 .. Capacity, t \in 0 .. Capacity :
              h = r.head /\ k = r.size /\ t = r.tail
      BY <1>1
    <2>5. PICK g \in 0 .. (Capacity - 1) :
              g = q.head /\ g = IF h + n = Capacity THEN 0 ELSE h + n
      BY <1>1, <1>3, <2>3, <2>4
    <2>6. /\ k - n \in 0 .. Capacity /\ k - n # 0 /\ n <= k
          /\ t = h + k \/ t = h + k - Capacity
      <3>1. n \in 0 .. k /\ n # k
        BY <1>3, <1>6, <2>4
      <3>2. t = h + k \/ t = h + k - Capacity
        BY <1>2, <2>4
      <3> QED
        BY <1>1, <3>1, <3>2
    <2>7. q \in Rings
      BY <1>1, <2>3, <2>4, <2>5, <2>6 DEF Rings
    <2>8. t = g + (k - n) \/ t = g + (k - n) - Capacity
      BY <1>1, <1>3, <2>4, <2>5, <2>6
    <2>9. RingShape(q)
      BY <2>3, <2>4, <2>5, <2>6, <2>7, <2>8 DEF RingShape
    <2>10. ASSUME NEW j \in 0 .. (q.size - 1)
           PROVE  q.cell[Place(q, j)] = (from + n) + j + 1
      <3>1. q.size = k - n
        BY <2>3, <2>4
      <3>2. j \in 0 .. (k - n - 1) /\ j + n \in 0 .. (k - 1) /\ j + n \in 0 .. (Capacity - 1)
        BY <1>1, <2>6, <3>1
      <3>3. PlaceFrom(g, j) = PlaceFrom(h, j + n)
        BY <1>1, <1>3, <2>4, <2>5, <3>2 DEF PlaceFrom
      <3>4. r.cell[PlaceFrom(h, j + n)] = from + (j + n) + 1
        <4>1. j + n \in 0 .. (r.size - 1)
          BY <2>4, <3>2
        <4> QED
          BY <1>2, <2>4, <4>1 DEF Place
      <3>5. from + (j + n) + 1 = (from + n) + j + 1
        BY <3>2
      <3> QED
        BY <2>3, <2>5, <3>3, <3>4, <3>5 DEF Place
    <2>11. Holds(q, from + n)
      BY <2>9, <2>10 DEF Holds
    <2>12. q.head = IF n = r.size \/ r.head + n = Capacity THEN 0 ELSE r.head + n
      BY <1>6, <2>4, <2>5
    <2> QED
      BY <1>4, <1>6, <2>3, <2>11, <2>12 DEF q
  <1> QED
    BY <1>5, <1>6

-----------------------------------------------------------------------------
(* Writing.                                                                *)

\* What is written grows.
LEMMA BytesGrow ==
  ASSUME NEW out \in Seq(Nat), out = Bytes(0, Len(out)), NEW n \in Nat
  PROVE  LET longer == out \o Bytes(Len(out), n) IN
         longer \in Seq(Nat) /\ Len(longer) = Len(out) + n /\ longer = Bytes(0, Len(longer))
  <1>1. PICK k \in Nat : k = Len(out)
    OBVIOUS
  <1>2. 0 + k = k /\ k + n \in Nat
    OBVIOUS
  <1>3. Bytes(0, k) \o Bytes(0 + k, n) = Bytes(0, k + n)
    BY BytesJoin
  <1>4. Bytes(0, k + n) \in Seq(Nat) /\ Len(Bytes(0, k + n)) = k + n
    BY <1>2, BytesFacts
  <1> QED
    BY <1>1, <1>2, <1>3, <1>4

\* A byte that is taken from the ring is a byte that is written.
LEMMA WaitsPop ==
  ASSUME NEW w, NEW out, Waits(w, out), NEW n \in 0 .. GetAvail(w)
  PROVE  /\ Waits(Pop(w, n), out \o Front(w, n))
         /\ Len(out \o Front(w, n)) = Len(out) + n /\ Pop(w, n).size = w.size - n
         /\ Pop(w, n).tail = IF n = w.size THEN 0 ELSE w.tail
         /\ Pop(w, n).head = IF n = w.size \/ w.head + n = Capacity THEN 0 ELSE w.head + n
  <1>1. /\ out \in Seq(Nat) /\ out = Bytes(0, Len(out)) /\ Holds(w, Len(out)) /\ Len(out) \in Nat
    BY DEF Waits
  <1>2. n \in Nat
    BY <1>1, RangeFacts DEF Holds
  <1>3. /\ Holds(Pop(w, n), Len(out) + n) /\ Pop(w, n).size = w.size - n
        /\ Front(w, n) = Bytes(Len(out), n)
        /\ Pop(w, n).tail = IF n = w.size THEN 0 ELSE w.tail
        /\ Pop(w, n).head = IF n = w.size \/ w.head + n = Capacity THEN 0 ELSE w.head + n
    BY <1>1, PopHolds
  <1>4. LET longer == out \o Bytes(Len(out), n) IN
        longer \in Seq(Nat) /\ Len(longer) = Len(out) + n /\ longer = Bytes(0, Len(longer))
    BY <1>1, <1>2, BytesGrow
  <1> QED
    BY <1>3, <1>4 DEF Waits

\* Bytes that follow are added behind those that wait.
LEMMA WaitsFill ==
  ASSUME NEW w, NEW out, Waits(w, out), NEW n \in 0 .. PutAvail(w), w.size + n <= Capacity,
         NEW total, total = Len(out) + w.size
  PROVE  LET q == Fill(w, Bytes(total, n)) IN
         /\ Waits(q, out) /\ q.size = w.size + n /\ q.head = w.head
         /\ q.tail = IF n = 0 THEN w.tail ELSE PutBegin(w) + n
  BY FillBytes DEF Waits

\* Past an empty ring bytes are written directly.
LEMMA WaitsDirect ==
  ASSUME NEW w, NEW out, Waits(w, out), w.size = 0, NEW n \in Nat
  PROVE  /\ Waits(w, out \o Bytes(Len(out), n))
         /\ Len(out \o Bytes(Len(out), n)) = Len(out) + n
  <1>1. /\ out \in Seq(Nat) /\ out = Bytes(0, Len(out)) /\ Holds(w, Len(out)) /\ Len(out) \in Nat
    BY DEF Waits
  <1>2. LET longer == out \o Bytes(Len(out), n) IN
        longer \in Seq(Nat) /\ Len(longer) = Len(out) + n /\ longer = Bytes(0, Len(longer))
    BY <1>1, BytesGrow
  <1>4. Holds(w, Len(out) + n)
    <2>1. RingShape(w)
      BY <1>1 DEF Holds
    <2>2. \A j \in 0 .. (w.size - 1) : FALSE
      OBVIOUS
    <2> QED
      BY <2>1, <2>2 DEF Holds
  <1> QED
    BY <1>2, <1>4 DEF Waits

\* What stands in the window is committed by a push, as if it were stored now.
LEMMA CommitsPuts ==
  ASSUME WriteInv
  PROVE  /\ Waits(CommittedPuts, written)
         /\ CommittedPuts.size = wbuf.size + Putting /\ CommittedPuts.head = wbuf.head
         /\ CommittedPuts.tail = IF Putting = 0 THEN wbuf.tail ELSE PutBegin(wbuf) + Putting
         /\ sent = Len(written) + CommittedPuts.size /\ CommittedPuts.size \in 0 .. Capacity
         /\ PutBegin(wbuf) + Putting = put.next
  <1> DEFINE L == Len(written)
             s == Bytes(L + wbuf.size, Putting)
  <1>1. /\ Waits(wbuf, written) /\ Holds(wbuf, L) /\ L \in Nat /\ RingShape(wbuf)
        /\ put \in Windows /\ put.begin = PutBegin(wbuf) /\ put.end = PutEnd(wbuf)
        /\ Putting \in 0 .. (Capacity - wbuf.size) /\ put.next <= put.end
        /\ sent = L + wbuf.size + Putting
    BY DEF WriteInv, Waits, Holds
  <1>2. \A j \in 0 .. (Putting - 1) : wbuf.cell[put.begin + j] = L + wbuf.size + j + 1
    BY DEF WriteInv
  <1>3. /\ wbuf.size \in 0 .. Capacity /\ wbuf.cell \in Cells /\ Capacity \in Nat
        /\ PutBegin(wbuf) \in 0 .. (Capacity - 1) /\ PutEnd(wbuf) \in 0 .. Capacity
    BY <1>1, RangeFacts
  <1>4. PICK k \in 0 .. Capacity, b \in 0 .. (Capacity - 1), e \in 0 .. Capacity, nx \in 0 .. Capacity :
           k = wbuf.size /\ b = PutBegin(wbuf) /\ e = PutEnd(wbuf) /\ nx = put.next
    BY <1>1, <1>3 DEF Windows
  <1>5. /\ Putting = nx - b /\ nx <= e /\ Putting \in 0 .. (Capacity - k) /\ b = put.begin
        /\ PutAvail(wbuf) = e - b
    BY <1>1, <1>4 DEF Putting, PutAvail
  <1>6. Putting \in 0 .. PutAvail(wbuf) /\ Putting \in Nat /\ wbuf.size + Putting <= Capacity
    BY <1>3, <1>4, <1>5
  <1>7. Len(s) = Putting /\ \A i \in 1 .. Putting : s[i] = L + wbuf.size + i
    <2>1. L + wbuf.size \in Nat
      BY <1>1, <1>3
    <2> QED
      BY <1>6, <2>1, BytesFacts
  <1>8. Stored(wbuf, s) = wbuf
    <2>1. DOMAIN wbuf.cell = 0 .. (Capacity - 1)
      BY <1>3 DEF Cells
    <2>2. ASSUME NEW i \in 0 .. (Capacity - 1), i \in b .. (b + Putting - 1)
          PROVE  s[i - b + 1] = wbuf.cell[i]
      <3>1. i - b \in 0 .. (Putting - 1) /\ i - b + 1 \in 1 .. Putting /\ b + (i - b) = i
        BY <1>6, <2>2
      <3>2. s[i - b + 1] = L + wbuf.size + (i - b + 1)
        BY <1>7, <3>1
      <3>3. wbuf.cell[b + (i - b)] = L + wbuf.size + (i - b) + 1
        BY <1>2, <1>5, <3>1
      <3>4. L + k + (i - b + 1) = L + k + (i - b) + 1
        BY <1>1
      <3> QED
        BY <1>4, <3>1, <3>2, <3>3, <3>4
    <2> HIDE DEF s
    <2>3. [i \in DOMAIN wbuf.cell |->
              IF i \in PutBegin(wbuf) .. (PutBegin(wbuf) + Len(s) - 1)
              THEN s[i - PutBegin(wbuf) + 1] ELSE wbuf.cell[i]] = wbuf.cell
      BY <1>3, <1>4, <1>7, <2>1, <2>2 DEF Cells
    <2>4. Stored(wbuf, s) = [wbuf EXCEPT !.cell = wbuf.cell]
      BY <2>3 DEF Stored
    <2>5. wbuf = [capacity |-> wbuf.capacity, size |-> wbuf.size, head |-> wbuf.head,
                  tail |-> wbuf.tail, cell |-> wbuf.cell]
      BY <1>1 DEF RingShape, Rings
    <2> QED
      BY <2>4, <2>5
  <1>9. CommittedPuts = Fill(wbuf, s)
    BY <1>7, <1>8 DEF CommittedPuts, Fill, Putting
  <1> HIDE DEF s
  <1>10. /\ Waits(CommittedPuts, written)
         /\ CommittedPuts.size = wbuf.size + Putting /\ CommittedPuts.head = wbuf.head
         /\ CommittedPuts.tail = IF Putting = 0 THEN wbuf.tail ELSE PutBegin(wbuf) + Putting
    <2>1. LET q == Fill(wbuf, Bytes(L + wbuf.size, Putting)) IN
          /\ Waits(q, written) /\ q.size = wbuf.size + Putting /\ q.head = wbuf.head
          /\ q.tail = IF Putting = 0 THEN wbuf.tail ELSE PutBegin(wbuf) + Putting
      BY <1>1, <1>6, WaitsFill
    <2> QED
      BY <1>9, <2>1 DEF s
  <1>11. sent = L + (wbuf.size + Putting) /\ wbuf.size + Putting \in 0 .. Capacity
    BY <1>1, <1>3, <1>6
  <1>12. PutBegin(wbuf) + Putting = put.next
    BY <1>4, <1>5
  <1> QED
    BY <1>10, <1>11, <1>12

\* An operation that sets the window again.
LEMMA WindowSet ==
  ASSUME Waits(wbuf, written)', put' = PutWindow(wbuf'), sent' \in 0 .. PutLimit,
         sent' = Len(written') + wbuf'.size, cut' \in BOOLEAN,
         ~cut' /\ Capacity > 1 => Straight(wbuf')
  PROVE  WriteInv'
  <1>1. /\ RingShape(wbuf') /\ Len(written') \in Nat
    BY DEF Waits, Holds
  <1>2. /\ wbuf'.size \in 0 .. Capacity /\ Capacity \in Nat
        /\ PutBegin(wbuf') \in 0 .. (Capacity - 1) /\ PutEnd(wbuf') \in 0 .. Capacity
        /\ PutEnd(wbuf') - PutBegin(wbuf') \in 1 .. Capacity
    BY <1>1, RangeFacts DEF PutAvail
  <1>3. /\ put'.begin = PutBegin(wbuf') /\ put'.next = PutBegin(wbuf')
        /\ put'.end = PutEnd(wbuf') /\ put' \in Windows
    BY <1>2 DEF PutWindow, Windows
  <1>4. Putting' = 0
    BY <1>2, <1>3 DEF Putting
  <1>5. put'.next <= put'.end
    BY <1>2, <1>3
  <1>6. /\ Putting' \in 0 .. (Capacity - wbuf'.size)
        /\ \A j \in 0 .. (Putting' - 1) : FALSE
        /\ sent' = Len(written') + wbuf'.size + Putting'
    BY <1>1, <1>2, <1>4
  <1> QED
    BY <1>3, <1>5, <1>6 DEF WriteInv

\* A free cell of the put range is not an unread one.
LEMMA FreeCell ==
  ASSUME NEW r, RingShape(r), NEW d \in Nat, d < Capacity - r.size, PutBegin(r) + d < PutEnd(r)
  PROVE  /\ PutBegin(r) + d \in 0 .. (Capacity - 1)
         /\ \A j \in 0 .. (r.size - 1) : Place(r, j) # PutBegin(r) + d
  <1>1. /\ r.capacity = Capacity /\ r.size \in 0 .. Capacity /\ r.head \in 0 .. (Capacity - 1)
        /\ r.tail \in 0 .. Capacity /\ Capacity \in Nat \ {0}
        /\ PutBegin(r) \in 0 .. (Capacity - 1) /\ PutEnd(r) \in 0 .. Capacity
        /\ r.tail = r.head + r.size \/ r.tail = r.head + r.size - Capacity
    BY RangeFacts DEF RingShape
  <1>2. PICK h \in 0 .. (Capacity - 1), k \in 0 .. Capacity, t \in 0 .. Capacity,
             b \in 0 .. (Capacity - 1), e \in 0 .. Capacity :
           h = r.head /\ k = r.size /\ t = r.tail /\ b = PutBegin(r) /\ e = PutEnd(r)
    BY <1>1
  <1>3. /\ b = IF t = Capacity THEN 0 ELSE t
        /\ e = IF t >= h THEN Capacity ELSE h
    BY <1>1, <1>2 DEF PutBegin, PutEnd
  <1>4. /\ t = h + k \/ t = h + k - Capacity
        /\ d < Capacity - k /\ b + d < e
    BY <1>1, <1>2
  <1>5. ASSUME NEW j \in 0 .. (r.size - 1)
        PROVE  Place(r, j) # PutBegin(r) + d
    <2>1. j \in 0 .. (k - 1)
      BY <1>2
    <2>2. PlaceFrom(h, j) # b + d
      <3>1. CASE t = Capacity
        BY <1>1, <1>3, <1>4, <2>1, <3>1 DEF PlaceFrom
      <3>2. CASE t # Capacity /\ t = h + k
        BY <1>1, <1>3, <1>4, <2>1, <3>2 DEF PlaceFrom
      <3>3. CASE t # Capacity /\ t = h + k - Capacity
        BY <1>1, <1>3, <1>4, <2>1, <3>3 DEF PlaceFrom
      <3> QED
        BY <1>4, <3>1, <3>2, <3>3
    <2> QED
      BY <1>2, <2>2 DEF Place
  <1> QED
    BY <1>1, <1>2, <1>4, <1>5

\* sputc in the window.
LEMMA SputcWrites ==
  ASSUME WriteInv, sent < PutLimit, PutBuffered, ~miswrote'
  PROVE  WriteInv'
  <1> DEFINE L == Len(written)
  <1>1. /\ Waits(wbuf, written) /\ Holds(wbuf, L) /\ L \in Nat /\ RingShape(wbuf)
        /\ put \in Windows /\ put.begin = PutBegin(wbuf) /\ put.end = PutEnd(wbuf)
        /\ Putting \in 0 .. (Capacity - wbuf.size) /\ put.next <= put.end
        /\ sent \in 0 .. PutLimit /\ sent = L + wbuf.size + Putting /\ cut \in BOOLEAN
        /\ ~cut /\ Capacity > 1 => Straight(wbuf)
    BY DEF WriteInv, Waits, Holds
  <1>2. /\ \A j \in 0 .. (wbuf.size - 1) : wbuf.cell[Place(wbuf, j)] = L + j + 1
        /\ \A j \in 0 .. (Putting - 1) : wbuf.cell[put.begin + j] = L + wbuf.size + j + 1
    BY DEF WriteInv, Waits, Holds
  <1>3. /\ wbuf.capacity = Capacity /\ wbuf.size \in 0 .. Capacity /\ wbuf.cell \in Cells
        /\ wbuf.head \in 0 .. (Capacity - 1) /\ wbuf.tail \in 0 .. Capacity /\ Capacity \in Nat
        /\ PutBegin(wbuf) \in 0 .. (Capacity - 1) /\ PutEnd(wbuf) \in 0 .. Capacity
    BY <1>1, RangeFacts
  <1>4. /\ put.next < put.end /\ wbuf' = [wbuf EXCEPT !.cell[put.next] = sent + 1]
        /\ put' = [put EXCEPT !.next = @ + 1] /\ sent' = sent + 1
        /\ written' = written /\ cut' = cut
        /\ 1 <= Capacity - CommittedPuts.size
    <2>1. CommittedPuts.size \in 0 .. Capacity
      BY CommitsPuts
    <2>2. ~(1 > Capacity - CommittedPuts.size)
      BY DEF PutBuffered, Overwrites
    <2>3. 1 <= Capacity - CommittedPuts.size
      BY <1>3, <2>1, <2>2
    <2> QED
      BY <2>3 DEF PutBuffered
  <1>5. PICK d \in Nat, k \in 0 .. Capacity, b \in 0 .. (Capacity - 1), e \in 0 .. Capacity :
           d = Putting /\ k = wbuf.size /\ b = PutBegin(wbuf) /\ e = PutEnd(wbuf)
    <2>1. Putting \in Nat
      BY <1>1, <1>3
    <2> QED
      BY <1>3, <2>1
  <1>6. put.next \in 0 .. Capacity /\ put.next = b + d /\ b + d < e /\ d < Capacity - k
    <2>1. put.next \in 0 .. Capacity /\ put.next - put.begin = d /\ put.begin = b
      BY <1>1, <1>5 DEF Windows, Putting
    <2>2. CommittedPuts.size = k + d
      BY <1>5, CommitsPuts
    <2>3. PICK nx \in 0 .. Capacity : nx = put.next
      BY <2>1
    <2>4. nx - b = d /\ nx < e /\ 1 <= Capacity - (k + d)
      BY <1>1, <1>4, <1>5, <2>1, <2>2, <2>3
    <2>5. nx = b + d /\ b + d < e /\ d < Capacity - k
      BY <1>3, <2>4
    <2> QED
      BY <2>3, <2>5
  <1>7. /\ b + d \in 0 .. (Capacity - 1)
        /\ \A j \in 0 .. (wbuf.size - 1) : Place(wbuf, j) # b + d
    <2>1. d < Capacity - wbuf.size /\ PutBegin(wbuf) + d < PutEnd(wbuf)
      BY <1>5, <1>6
    <2> QED
      BY <1>1, <1>5, <2>1, FreeCell
  <1>8. wbuf = [capacity |-> wbuf.capacity, size |-> wbuf.size, head |-> wbuf.head,
                tail |-> wbuf.tail, cell |-> wbuf.cell]
    BY <1>1 DEF RingShape, Rings
  <1>9. /\ wbuf'.capacity = wbuf.capacity /\ wbuf'.size = wbuf.size /\ wbuf'.head = wbuf.head
        /\ wbuf'.tail = wbuf.tail /\ wbuf'.cell = [wbuf.cell EXCEPT ![b + d] = sent + 1]
        /\ wbuf' = [capacity |-> wbuf'.capacity, size |-> wbuf'.size, head |-> wbuf'.head,
                    tail |-> wbuf'.tail, cell |-> wbuf'.cell]
    BY <1>4, <1>6, <1>8
  <1>10. /\ wbuf'.cell \in Cells /\ wbuf'.cell[b + d] = sent + 1
         /\ \A i \in 0 .. (Capacity - 1) : i # b + d => wbuf'.cell[i] = wbuf.cell[i]
    <2>1. sent + 1 \in Nat
      BY <1>1, LimitsAssumption
    <2>2. wbuf.cell \in [0 .. (Capacity - 1) -> Nat \cup {Junk}]
      BY <1>3 DEF Cells
    <2> QED
      BY <1>7, <1>9, <2>1, <2>2 DEF Cells
  <1>11. RingShape(wbuf')
    <2>1. wbuf' \in Rings
      BY <1>3, <1>9, <1>10 DEF Rings
    <2> QED
      BY <1>1, <1>9, <2>1 DEF RingShape
  <1>12. Waits(wbuf', written')
    <2>1. ASSUME NEW j \in 0 .. (wbuf'.size - 1)
          PROVE  wbuf'.cell[Place(wbuf', j)] = L + j + 1
      <3>1. j \in 0 .. (wbuf.size - 1) /\ Place(wbuf', j) = Place(wbuf, j)
        BY <1>9 DEF Place
      <3>2. Place(wbuf, j) \in 0 .. (Capacity - 1)
        BY <1>3, <3>1, PlaceFacts, j \in 0 .. (Capacity - 1) DEF Place
      <3> QED
        BY <1>2, <1>7, <1>10, <3>1, <3>2
    <2>2. Holds(wbuf', L)
      BY <1>11, <2>1 DEF Holds
    <2> QED
      BY <1>1, <1>4, <2>2 DEF Waits
  <1>13. /\ put' \in Windows /\ put'.begin = b /\ put'.end = e /\ put'.next = b + (d + 1)
    <2>1. put = [begin |-> put.begin, next |-> put.next, end |-> put.end]
      BY <1>1 DEF Windows
    <2>2. put'.begin = b /\ put'.end = e /\ put'.next = put.next + 1
      BY <1>1, <1>4, <1>5, <2>1
    <2>3. put' = [begin |-> put'.begin, next |-> put'.next, end |-> put'.end]
      BY <1>4, <2>1
    <2>4. put'.next = b + (d + 1) /\ put'.next \in 0 .. Capacity
      BY <1>3, <1>6, <2>2
    <2> QED
      BY <1>3, <1>5, <2>2, <2>3, <2>4 DEF Windows
  <1>14. Putting' = d + 1 /\ put'.next <= put'.end
    <2>1. b + (d + 1) - b = d + 1 /\ b + (d + 1) <= e
      BY <1>6
    <2> QED
      BY <1>13, <2>1 DEF Putting
  <1>15. PutBegin(wbuf') = b /\ PutEnd(wbuf') = e
    BY <1>5, <1>9 DEF PutBegin, PutEnd
  <1>16. sent' \in 0 .. PutLimit /\ sent' = L + wbuf'.size + Putting'
    <2>1. sent' = sent + 1 /\ sent = L + k + d
      BY <1>1, <1>4, <1>5
    <2>2. L + k + (d + 1) = sent + 1
      BY <1>1, <2>1
    <2>3. sent + 1 \in 0 .. PutLimit
      BY <1>1, LimitsAssumption
    <2> QED
      BY <1>5, <1>9, <1>14, <2>1, <2>2, <2>3
  <1>17. ASSUME NEW j \in 0 .. (Putting' - 1)
         PROVE  wbuf'.cell[put'.begin + j] = Len(written') + wbuf'.size + j + 1
    <2>1. j \in 0 .. d /\ put'.begin + j = b + j /\ b + j \in 0 .. (Capacity - 1)
      <3>1. j \in 0 .. d
        BY <1>5, <1>14
      <3> QED
        BY <1>3, <1>5, <1>7, <1>13, <3>1
    <2>2. CASE j = d
      <3>1. L + k + d = sent
        BY <1>1, <1>5
      <3> QED
        BY <1>4, <1>5, <1>9, <1>10, <2>1, <2>2, <3>1
    <2>3. CASE j # d
      <3>1. j \in 0 .. (Putting - 1) /\ b + j # b + d
        BY <1>5, <2>1, <2>3
      <3>2. wbuf.cell[b + j] = L + wbuf.size + j + 1
        BY <1>1, <1>2, <1>5, <3>1
      <3> QED
        BY <1>4, <1>9, <1>10, <2>1, <3>1, <3>2
    <2> QED
      BY <2>2, <2>3
  <1>18. Putting' \in 0 .. (Capacity - wbuf'.size)
    <2>1. d + 1 \in 0 .. (Capacity - k)
      BY <1>3, <1>6
    <2> QED
      BY <1>5, <1>9, <1>14, <2>1
  <1>19. ~cut' /\ Capacity > 1 => Straight(wbuf')
    BY <1>1, <1>4, <1>9 DEF Straight
  <1> QED
    BY <1>1, <1>4, <1>5, <1>12, <1>13, <1>14, <1>15, <1>16, <1>17, <1>18, <1>19 DEF WriteInv

\* When nothing was cut, a window that is full stands at the end of the array, and its
\* ring is one segment from the beginning on.
LEMMA StraightPuts ==
  ASSUME WriteInv, ~cut, Capacity > 1
  PROVE  LET w == CommittedPuts IN
         /\ w.head = 0 /\ w.tail = w.size /\ GetAvail(w) = w.size
         /\ w.size < Capacity => PutAvail(w) = Capacity - w.size
         /\ w.size = Capacity => put.next = Capacity /\ put.begin < Capacity
  <1>1. /\ Straight(wbuf) /\ put.begin = PutBegin(wbuf) /\ RingShape(wbuf) /\ put \in Windows
        /\ Putting \in 0 .. (Capacity - wbuf.size)
    BY DEF WriteInv, Waits, Holds
  <1>2. /\ CommittedPuts.size = wbuf.size + Putting /\ CommittedPuts.head = wbuf.head
        /\ CommittedPuts.tail = IF Putting = 0 THEN wbuf.tail ELSE PutBegin(wbuf) + Putting
        /\ RingShape(CommittedPuts) /\ PutBegin(wbuf) + Putting = put.next
    BY CommitsPuts DEF Waits, Holds
  <1>3. /\ wbuf.capacity = Capacity /\ wbuf.size \in 0 .. Capacity /\ Capacity \in Nat
        /\ CommittedPuts.capacity = Capacity /\ CommittedPuts.size \in 0 .. Capacity
    BY <1>1, <1>2, RangeFacts
  <1>4. wbuf.head = 0 /\ wbuf.tail = wbuf.size /\ wbuf.size < Capacity /\ PutBegin(wbuf) = wbuf.size
    BY <1>1, <1>3 DEF Straight, PutBegin
  <1>5. CommittedPuts.head = 0 /\ CommittedPuts.tail = CommittedPuts.size
    BY <1>1, <1>2, <1>3, <1>4
  <1>6. GetAvail(CommittedPuts) = CommittedPuts.size
    BY <1>3, <1>5 DEF GetAvail, GetEnd
  <1>7. CommittedPuts.size < Capacity => PutAvail(CommittedPuts) = Capacity - CommittedPuts.size
    BY <1>3, <1>5 DEF PutAvail, PutBegin, PutEnd
  <1>8. put.next = CommittedPuts.size /\ put.begin = wbuf.size
    BY <1>1, <1>2, <1>4
  <1> QED
    BY <1>4, <1>5, <1>6, <1>7, <1>8

\* A ring that was emptied and filled in part is straight.
LEMMA StraightFill ==
  ASSUME NEW w, RingShape(w), w.size = 0, NEW n \in Nat, n < Capacity, NEW q,
         q.size = w.size + n, q.head = w.head,
         q.tail = IF n = 0 THEN w.tail ELSE PutBegin(w) + n
  PROVE  Straight(q)
  <1>1. w.head = 0 /\ w.tail = 0 /\ w.capacity = Capacity /\ Capacity \in Nat \ {0}
    BY RangeFacts DEF RingShape
  <1>2. PutBegin(w) = 0
    BY <1>1 DEF PutBegin
  <1> QED
    BY <1>1, <1>2 DEF Straight

\* The ring w is left with what was not written, out, of the first total bytes.
Staged(w, out, total) ==
    /\ Waits(w, out) /\ Len(out) \in Nat /\ w.size \in 0 .. Capacity
    /\ total \in Nat /\ total = Len(out) + w.size

\* The ranges of a ring in use.
LEMMA StageRanges ==
  ASSUME NEW w, NEW out, NEW total, Staged(w, out, total)
  PROVE  /\ RingShape(w) /\ w.capacity = Capacity /\ Capacity \in Nat \ {0}
         /\ GetAvail(w) \in 0 .. w.size /\ PutAvail(w) \in 1 .. Capacity
         /\ GetAvail(w) \in Nat /\ PutAvail(w) \in Nat /\ w.size \in 0 .. Capacity /\ w.size \in Nat
         /\ total \in Nat
  <1>1. RingShape(w) /\ w.size \in 0 .. Capacity /\ total \in Nat
    BY DEF Staged, Waits, Holds
  <1>2. /\ w.capacity = Capacity /\ Capacity \in Nat \ {0}
        /\ GetAvail(w) \in 0 .. w.size /\ PutAvail(w) \in 1 .. Capacity
    BY <1>1, RangeFacts
  <1> QED
    BY <1>1, <1>2

\* What overflow() writes leaves the ring for the file.
LEMMA StagePop ==
  ASSUME NEW w, NEW out, NEW total, Staged(w, out, total), NEW n \in 0 .. GetAvail(w)
  PROVE  /\ Staged(Pop(w, n), out \o Front(w, n), total) /\ Pop(w, n).size = w.size - n
         /\ Pop(w, n).tail = IF n = w.size THEN 0 ELSE w.tail
         /\ Pop(w, n).head = IF n = w.size \/ w.head + n = Capacity THEN 0 ELSE w.head + n
  <1> DEFINE q == Pop(w, n)
             longer == out \o Front(w, n)
  <1>1. /\ Waits(q, longer)
        /\ Len(longer) = Len(out) + n /\ q.size = w.size - n
        /\ q.tail = IF n = w.size THEN 0 ELSE w.tail
        /\ q.head = IF n = w.size \/ w.head + n = Capacity THEN 0 ELSE w.head + n
    BY WaitsPop DEF Staged
  <1> HIDE DEF q, longer
  <1>2. PICK ws \in 0 .. Capacity, len \in Nat : ws = w.size /\ len = Len(out)
    BY DEF Staged
  <1>3. n \in 0 .. ws /\ Capacity \in Nat
    BY <1>2, StageRanges
  <1>4. total = len + ws /\ total \in Nat
    BY <1>2 DEF Staged
  <1>5. ws - n \in 0 .. Capacity /\ len + n \in Nat /\ total = (len + n) + (ws - n)
    BY <1>3, <1>4
  <1>6. Staged(q, longer, total)
    BY <1>1, <1>2, <1>4, <1>5 DEF Staged
  <1> QED
    BY <1>1, <1>6 DEF q, longer

\* fill_wbuf() adds the bytes that come next.
LEMMA StageFill ==
  ASSUME NEW w, NEW out, NEW total, Staged(w, out, total),
         NEW n \in Nat, n <= PutAvail(w), ~Overwrites(w, n)
  PROVE  LET q == Fill(w, Bytes(total, n)) IN
         /\ Staged(q, out, total + n) /\ q.size = w.size + n /\ q.head = w.head
         /\ q.tail = IF n = 0 THEN w.tail ELSE PutBegin(w) + n
  <1>1. PICK ws \in 0 .. Capacity, len \in Nat : ws = w.size /\ len = Len(out)
    BY DEF Staged
  <1>2. Capacity \in Nat /\ n \in 0 .. PutAvail(w)
    BY StageRanges
  <1>3. total = len + ws /\ total \in Nat /\ Waits(w, out)
    BY <1>1 DEF Staged
  <1>4. ws + n \in 0 .. Capacity /\ total + n = len + (ws + n) /\ total + n \in Nat
    <2>1. ~(n > Capacity - ws)
      BY <1>1 DEF Overwrites
    <2> QED
      BY <1>2, <1>3, <2>1
  <1>5. LET q == Fill(w, Bytes(total, n)) IN
        /\ Waits(q, out) /\ q.size = w.size + n /\ q.head = w.head
        /\ q.tail = IF n = 0 THEN w.tail ELSE PutBegin(w) + n
    <2>1. w.size + n <= Capacity /\ total = Len(out) + w.size
      BY <1>1, <1>3, <1>4
    <2> QED
      BY <1>2, <1>3, <2>1, WaitsFill
  <1> QED
    BY <1>1, <1>4, <1>5 DEF Staged

\* Bytes that go to the file directly follow what was written, as the ring is empty.
LEMMA StageDirect ==
  ASSUME NEW w, NEW out, NEW total, Staged(w, out, total), NEW n \in Nat, n > 0 => w.size = 0
  PROVE  Staged(w, out \o Bytes(total, n), total + n)
  <1>1. PICK ws \in 0 .. Capacity, len \in Nat : ws = w.size /\ len = Len(out)
    BY DEF Staged
  <1>2. total = len + ws /\ total \in Nat /\ Waits(w, out) /\ Capacity \in Nat
    BY <1>1, StageRanges DEF Staged
  <1>3. CASE n = 0
    <2>1. Bytes(total, n) = <<>>
      BY <1>2, <1>3, BytesFacts
    <2>2. out \o <<>> = out
      BY <1>2 DEF Waits
    <2>3. total + n = total
      BY <1>2, <1>3
    <2> QED
      BY <2>1, <2>2, <2>3
  <1>4. CASE n # 0
    <2>1. ws = 0 /\ w.size = 0 /\ total = len /\ total = Len(out)
      BY <1>1, <1>2, <1>4
    <2>2. /\ Waits(w, out \o Bytes(total, n))
          /\ Len(out \o Bytes(total, n)) = Len(out) + n
      BY <1>2, <2>1, WaitsDirect
    <2>3. len + n \in Nat /\ total + n = (len + n) + ws
      BY <2>1
    <2>4. Len(out \o Bytes(total, n)) = len + n
      BY <1>1, <2>2
    <2>5. total + n \in Nat
      BY <1>2
    <2> HIDE DEF Bytes
    <2> QED
      BY <1>1, <2>2, <2>3, <2>4, <2>5 DEF Staged
  <1> QED
    BY <1>3, <1>4

\* fill_wbuf() takes all it is given or fills its range.
LEMMA FillAvailFacts ==
  ASSUME NEW w, RingShape(w), NEW n \in Nat
  PROVE  /\ FillAvail(w, n) \in Nat /\ FillAvail(w, n) <= PutAvail(w) /\ FillAvail(w, n) <= n
         /\ FillAvail(w, n) = n \/ FillAvail(w, n) = PutAvail(w)
  <1>1. PICK a \in Nat : a = PutAvail(w)
    BY RangeFacts
  <1> QED
    BY <1>1 DEF FillAvail, AtMost

\* An operation that commits and sets the window again.
LEMMA StageEnds ==
  ASSUME Staged(wbuf, written, sent)', put' = PutWindow(wbuf'), sent' <= PutLimit, cut' \in BOOLEAN,
         ~cut' /\ Capacity > 1 => Straight(wbuf')
  PROVE  WriteInv'
  <1>1. /\ Waits(wbuf, written)' /\ sent' = Len(written') + wbuf'.size /\ sent' \in Nat
    BY DEF Staged
  <1>2. sent' \in 0 .. PutLimit
    BY <1>1, LimitsAssumption
  <1> QED
    BY <1>1, <1>2, WindowSet

\* An operation begins with what PutGuard commits.
LEMMA StageBegins ==
  ASSUME WriteInv
  PROVE  /\ Staged(CommittedPuts, written, sent) /\ sent <= PutLimit /\ sent \in Nat /\ PutLimit \in Nat
         /\ cut \in BOOLEAN
  <1>1. /\ Waits(CommittedPuts, written) /\ sent = Len(written) + CommittedPuts.size
        /\ CommittedPuts.size \in 0 .. Capacity
    BY CommitsPuts
  <1>2. Len(written) \in Nat /\ sent \in 0 .. PutLimit /\ PutLimit \in Nat /\ cut \in BOOLEAN
    BY <1>1, LimitsAssumption DEF Waits, WriteInv
  <1> QED
    BY <1>1, <1>2 DEF Staged

\* sputc at the end of the window: overflow().
LEMMA OverflowWrites ==
  ASSUME WriteInv, sent < PutLimit, PutOverflow, ~miswrote'
  PROVE  WriteInv'
  <1> DEFINE w == CommittedPuts
  <1>1. /\ Staged(w, written, sent) /\ sent \in Nat /\ PutLimit \in Nat /\ cut \in BOOLEAN
    BY StageBegins
  <1>2. /\ Capacity \in Nat \ {0} /\ GetAvail(w) \in 0 .. w.size /\ w.size \in Nat
    BY <1>1, StageRanges
  <1> HIDE DEF w
  <1>3. PICK n \in Taken(GetAvail(w)) :
           LET over == Overflow(w, n)
               s == IF GetAvail(w) > 0 /\ n = 0 THEN <<>> ELSE FromUser(1)
           IN /\ written' = written \o over.out
              /\ wbuf' = Fill(over.ring, s)
              /\ sent' = sent + Len(s)
              /\ cut' = (cut \/ n < GetAvail(w))
              /\ miswrote' = (miswrote \/ Overwrites(over.ring, Len(s)))
    BY DEF PutOverflow, w
  <1>4. PICK m \in {0, 1} :
            Bytes(sent, m) = IF GetAvail(w) > 0 /\ n = 0 THEN <<>> ELSE FromUser(1)
    <2>1. Bytes(sent, 0) = <<>> /\ Bytes(sent, 1) = FromUser(1)
      BY <1>1, BytesFacts DEF FromUser, Bytes
    <2> QED
      BY <2>1
  <1> DEFINE ring == Pop(w, n)
             out == written \o Front(w, n)
  <1>5. Len(Bytes(sent, m)) = m /\ m \in Nat
    <2>1. m \in Nat
      OBVIOUS
    <2> QED
      BY <1>1, <2>1, BytesFacts
  <1>6. /\ written' = out /\ wbuf' = Fill(ring, Bytes(sent, m)) /\ sent' = sent + m
        /\ cut' = (cut \/ n < GetAvail(w)) /\ ~Overwrites(ring, m) /\ n \in 0 .. GetAvail(w)
    BY <1>3, <1>4, <1>5 DEF Overflow, Taken
  <1>7. /\ Staged(ring, out, sent) /\ ring.size = w.size - n
    BY <1>1, <1>6, StagePop
  <1> HIDE DEF ring, out
  <1>8. RingShape(ring) /\ m <= PutAvail(ring)
    <2>1. RingShape(ring) /\ PutAvail(ring) \in 1 .. Capacity
      BY <1>7, StageRanges
    <2> QED
      BY <2>1
  <1>9. /\ Staged(wbuf', written', sent') /\ wbuf'.size = ring.size + m /\ wbuf'.head = ring.head
        /\ wbuf'.tail = IF m = 0 THEN ring.tail ELSE PutBegin(ring) + m
    BY <1>5, <1>6, <1>7, <1>8, StageFill
  <1>10. ~cut' /\ Capacity > 1 => Straight(wbuf')
    <2> SUFFICES ASSUME ~cut', Capacity > 1
                 PROVE  Straight(wbuf')
      OBVIOUS
    <2>1. ~(n < GetAvail(w)) /\ GetAvail(w) = w.size
      BY <1>6, StraightPuts DEF w
    <2>2. n = w.size
      BY <1>2, <1>6, <2>1
    <2>3. ring.size = 0
      BY <1>2, <1>7, <2>2
    <2>4. m < Capacity
      BY <1>2
    <2> QED
      BY <1>5, <1>8, <1>9, <2>3, <2>4, StraightFill
  <1>11. /\ put' = PutWindow(wbuf') /\ cut' \in BOOLEAN
    BY <1>1, <1>6 DEF PutOverflow
  <1>12. sent' <= PutLimit
    BY <1>1, <1>6
  <1> QED
    BY <1>9, <1>10, <1>11, <1>12, StageEnds

\* xsputn(), whatever the file takes of what it is given.
LEMMA XsputnWrites ==
  ASSUME WriteInv, NEW n \in 1 .. (PutLimit - sent), WriteSome(n), ~miswrote'
  PROVE  WriteInv'
  <1> DEFINE s == FromUser(n)
             w1 == CommittedPuts
             n1 == IF w1.size = 0 THEN 0 ELSE FillAvail(w1, n)
             w2 == Fill(w1, SubSeq(s, 1, n1))
             offered == IF Full(w2) THEN GetAvail(w2) ELSE 0
  <1>1. /\ Staged(w1, written, sent) /\ sent \in Nat /\ PutLimit \in Nat /\ cut \in BOOLEAN
        /\ sent + n <= PutLimit /\ n \in Nat
    <2>1. /\ Staged(w1, written, sent) /\ sent \in Nat /\ PutLimit \in Nat /\ cut \in BOOLEAN
      BY StageBegins
    <2>2. n \in Nat /\ sent + n <= PutLimit
      BY <2>1
    <2> QED
      BY <2>1, <2>2
  <1>2. PICK n2 \in Taken(offered) :
       LET over == Overflow(w2, n2)
           direct == IF over.ring.size = 0 /\ n - n1 >= Capacity THEN n - n1 ELSE 0
       IN \E n3 \in Taken(direct), thrown \in BOOLEAN :
          LET n4 == IF thrown THEN 0 ELSE FillAvail(over.ring, n - n1 - n3) IN
          /\ thrown => (offered > 0 /\ n2 = 0) \/ (direct > 0 /\ n3 = 0)
          /\ written' = written \o over.out \o SubSeq(s, n1 + 1, n1 + n3)
          /\ wbuf' = Fill(over.ring, SubSeq(s, n1 + n3 + 1, n1 + n3 + n4))
          /\ sent' = sent + n1 + n3 + n4
          /\ cut' = (cut \/ n2 < offered \/ n3 < direct)
          /\ miswrote' = (miswrote \/ Overwrites(w1, n1) \/ Overwrites(over.ring, n4))
    BY DEF WriteSome
  <1> HIDE DEF w1
  <1>3. RingShape(w1) /\ w1.size \in Nat /\ w1.capacity = Capacity /\ Capacity \in Nat \ {0}
    BY <1>1, StageRanges
  <1>4. /\ n1 \in Nat /\ n1 <= PutAvail(w1) /\ n1 <= n
        /\ w1.size > 0 => n1 = n \/ n1 = PutAvail(w1)
        /\ w1.size = 0 => n1 = 0
    <2>1. CASE w1.size = 0
      <3>1. n1 = 0 /\ PutAvail(w1) \in Nat
        BY <1>1, <2>1, StageRanges
      <3> HIDE DEF n1
      <3> QED
        BY <1>1, <2>1, <3>1
    <2>2. CASE w1.size # 0
      <3>1. n1 = FillAvail(w1, n)
        BY <2>2
      <3> HIDE DEF n1
      <3> QED
        BY <1>1, <1>3, <2>2, <3>1, FillAvailFacts
    <2> QED
      BY <2>1, <2>2
  <1> HIDE DEF n1
  <1>5. SubSeq(s, 1, n1) = Bytes(sent, n1)
    <2>1. SubSeq(Bytes(sent, n), 0 + 1, 0 + n1) = Bytes(sent + 0, n1)
      BY <1>1, <1>4, BytesPart
    <2>2. 0 + 1 = 1 /\ 0 + n1 = n1 /\ sent + 0 = sent
      BY <1>1, <1>4
    <2> QED
      BY <2>1, <2>2 DEF FromUser, Bytes
  <1> DEFINE ring == Pop(w2, n2)
             direct == IF ring.size = 0 /\ n - n1 >= Capacity THEN n - n1 ELSE 0
             out == written \o Front(w2, n2)
  <1> HIDE DEF s, w2, offered
  <1>6. PICK n3 \in Taken(direct), thrown \in BOOLEAN :
          LET n4 == IF thrown THEN 0 ELSE FillAvail(ring, n - n1 - n3) IN
          /\ written' = out \o SubSeq(s, n1 + 1, n1 + n3)
          /\ wbuf' = Fill(ring, SubSeq(s, n1 + n3 + 1, n1 + n3 + n4))
          /\ sent' = sent + n1 + n3 + n4
          /\ cut' = (cut \/ n2 < offered \/ n3 < direct)
          /\ miswrote' = (miswrote \/ Overwrites(w1, n1) \/ Overwrites(ring, n4))
    BY <1>2 DEF Overflow
  <1> HIDE DEF ring, direct, out
  <1> DEFINE n4 == IF thrown THEN 0 ELSE FillAvail(ring, n - n1 - n3)
  <1>7. /\ written' = out \o SubSeq(s, n1 + 1, n1 + n3)
        /\ wbuf' = Fill(ring, SubSeq(s, n1 + n3 + 1, n1 + n3 + n4))
        /\ sent' = sent + n1 + n3 + n4
        /\ cut' = (cut \/ n2 < offered \/ n3 < direct)
        /\ ~Overwrites(w1, n1) /\ ~Overwrites(ring, n4)
    BY <1>6
  <1>8. /\ Staged(w2, written, sent + n1) /\ w2.size = w1.size + n1 /\ w2.head = w1.head
        /\ w2.tail = IF n1 = 0 THEN w1.tail ELSE PutBegin(w1) + n1
    <2>1. Staged(w1, written, sent) /\ n1 \in Nat /\ n1 <= PutAvail(w1) /\ ~Overwrites(w1, n1)
      BY <1>1, <1>4, <1>7
    <2>2. LET q == Fill(w1, Bytes(sent, n1)) IN
          /\ Staged(q, written, sent + n1) /\ q.size = w1.size + n1 /\ q.head = w1.head
          /\ q.tail = IF n1 = 0 THEN w1.tail ELSE PutBegin(w1) + n1
      BY <2>1, StageFill
    <2> QED
      BY <1>5, <2>2 DEF w2
  <1>9. /\ RingShape(w2) /\ w2.size \in 0 .. Capacity /\ GetAvail(w2) \in Nat
        /\ w2.capacity = Capacity /\ sent + n1 \in Nat
    BY <1>8, StageRanges
  <1>10. n2 \in 0 .. GetAvail(w2) /\ n2 \in 0 .. offered /\ offered \in Nat
    BY <1>9 DEF Taken, offered
  <1>11. /\ Staged(ring, out, sent + n1) /\ ring.size = w2.size - n2
         /\ ring.tail = IF n2 = w2.size THEN 0 ELSE w2.tail
         /\ ring.head = IF n2 = w2.size \/ w2.head + n2 = Capacity THEN 0 ELSE w2.head + n2
    BY <1>8, <1>10, StagePop DEF ring, out
  <1>12. RingShape(ring) /\ PutAvail(ring) \in Nat
    BY <1>11, StageRanges
  <1>13. direct \in Nat /\ n1 + direct <= n
    BY <1>1, <1>3, <1>4 DEF direct
  <1>14. /\ n3 \in Nat /\ n3 <= direct /\ n1 + n3 <= n /\ n - n1 - n3 \in Nat
    <2>1. n3 \in Nat /\ n3 <= direct
      BY <1>13 DEF Taken
    <2> QED
      BY <1>1, <1>4, <1>13, <2>1
  <1>15. n3 > 0 => ring.size = 0
    <2> SUFFICES ASSUME n3 > 0, ring.size # 0
                 PROVE  FALSE
      OBVIOUS
    <2>1. direct = 0
      BY DEF direct
    <2> QED
      BY <1>14, <2>1
  <1>16. n4 \in Nat /\ n4 <= PutAvail(ring) /\ n4 <= n - n1 - n3
    <2>1. CASE thrown
      <3>1. n4 = 0
        BY <2>1
      <3> HIDE DEF n4
      <3> QED
        BY <1>12, <1>14, <3>1
    <2>2. CASE ~thrown
      <3>1. n4 = FillAvail(ring, n - n1 - n3)
        BY <2>2
      <3> HIDE DEF n4
      <3> QED
        BY <1>12, <1>14, <3>1, FillAvailFacts
    <2> QED
      BY <2>1, <2>2
  <1> HIDE DEF n4
  <1>17. /\ SubSeq(s, n1 + 1, n1 + n3) = Bytes(sent + n1, n3)
         /\ SubSeq(s, n1 + n3 + 1, n1 + n3 + n4) = Bytes(sent + n1 + n3, n4)
    <2>1. SubSeq(Bytes(sent, n), n1 + 1, n1 + n3) = Bytes(sent + n1, n3)
      <3>1. PICK k \in Nat : k = n1
        BY <1>4
      <3>2. sent \in Nat /\ n \in Nat /\ n3 \in Nat
        BY <1>1, <1>14
      <3>3. k + n3 <= n
        BY <1>1, <1>4, <1>14, <3>1
      <3>4. SubSeq(Bytes(sent, n), k + 1, k + n3) = Bytes(sent + k, n3)
        BY <3>2, <3>3, BytesPart
      <3> QED
        BY <3>1, <3>4
    <2>2. PICK k \in Nat : k = n1 + n3
      BY <1>4, <1>14
    <2>3. k + n4 <= n
      BY <1>1, <1>4, <1>14, <1>16, <2>2
    <2>4. SubSeq(Bytes(sent, n), k + 1, k + n4) = Bytes(sent + k, n4)
      <3>1. sent \in Nat /\ n \in Nat /\ n4 \in Nat
        BY <1>1, <1>16
      <3> QED
        BY <2>3, <3>1, BytesPart
    <2>5. sent + k = sent + n1 + n3
      BY <1>1, <1>4, <1>14, <2>2
    <2> QED
      BY <2>1, <2>2, <2>4, <2>5 DEF FromUser, Bytes, s
  <1>18. Staged(ring, written', sent + n1 + n3)
    BY <1>7, <1>11, <1>14, <1>15, <1>17, StageDirect
  <1>19. /\ Staged(wbuf', written', sent') /\ wbuf'.size = ring.size + n4 /\ wbuf'.head = ring.head
         /\ wbuf'.tail = IF n4 = 0 THEN ring.tail ELSE PutBegin(ring) + n4
    <2>1. n4 \in Nat /\ n4 <= PutAvail(ring) /\ ~Overwrites(ring, n4)
      BY <1>7, <1>16
    <2>2. LET q == Fill(ring, Bytes(sent + n1 + n3, n4)) IN
          /\ Staged(q, written', sent + n1 + n3 + n4) /\ q.size = ring.size + n4
          /\ q.head = ring.head
          /\ q.tail = IF n4 = 0 THEN ring.tail ELSE PutBegin(ring) + n4
      BY <1>18, <2>1, StageFill
    <2> QED
      BY <1>7, <1>17, <2>2
  <1>20. ~cut' /\ Capacity > 1 => Straight(wbuf')
    <2> SUFFICES ASSUME ~cut', Capacity > 1
                 PROVE  Straight(wbuf')
      OBVIOUS
    <2>1. /\ w1.head = 0 /\ w1.tail = w1.size
          /\ w1.size < Capacity => PutAvail(w1) = Capacity - w1.size
      BY <1>7, StraightPuts DEF w1
    <2>2. PICK k \in 0 .. Capacity, a \in 1 .. Capacity, k2 \in 0 .. Capacity :
              k = w1.size /\ a = PutAvail(w1) /\ k2 = w2.size
      BY <1>1, <1>9, StageRanges
    <2>3. /\ k2 = k + n1
          /\ k < Capacity => a = Capacity - k
          /\ k = 0 => n1 = 0
          /\ k > 0 => n1 = n \/ n1 = a
          /\ ~(n1 > Capacity - k)
      BY <1>4, <1>7, <1>8, <2>1, <2>2 DEF Overwrites
    <2>4. k < Capacity
      BY <1>3, <1>4, <2>2, <2>3
    <2>5. PutBegin(w1) = k
      BY <1>3, <2>1, <2>2, <2>4 DEF PutBegin
    <2>6. w2.head = 0 /\ w2.tail = k2
      BY <1>3, <1>4, <1>8, <2>1, <2>2, <2>3, <2>5
    <2>7. GetAvail(w2) = k2
      BY <1>3, <1>9, <2>2, <2>6 DEF GetAvail, GetEnd
    <2>8. offered = IF k2 >= Capacity THEN k2 ELSE 0
      BY <1>9, <2>2, <2>7 DEF Full, offered
    <2>9. n2 = offered /\ n3 = direct
      <3>1. ~(n2 < offered) /\ ~(n3 < direct)
        BY <1>7
      <3> QED
        BY <1>10, <1>13, <1>14, <3>1
    <2>10. CASE k2 = 0 \/ k2 >= Capacity
      <3>1. ring.size = 0
        <4>1. n2 = k2
          BY <1>3, <2>2, <2>8, <2>9, <2>10
        <4> QED
          BY <1>3, <1>11, <2>2, <4>1
      <3>2. n4 < Capacity
        BY <1>1, <1>3, <1>4, <1>16, <2>9, <3>1 DEF direct
      <3> QED
        BY <1>12, <1>16, <1>19, <3>1, <3>2, StraightFill
    <2>11. CASE k2 # 0 /\ k2 < Capacity
      <3>1. n1 = n
        <4>1. k > 0
          BY <1>4, <2>2, <2>3, <2>11
        <4>2. n1 # a
          BY <1>3, <1>4, <2>2, <2>3, <2>4, <2>11
        <4> QED
          BY <2>3, <4>1, <4>2
      <3>2. n2 = 0
        BY <1>3, <2>2, <2>8, <2>9, <2>11
      <3>3. n2 # w2.size /\ ring.size = k2
        BY <1>3, <1>11, <2>2, <2>11, <3>2
      <3>4. n3 = 0 /\ n4 = 0
        BY <1>1, <1>3, <1>16, <2>9, <2>11, <3>1, <3>3 DEF direct
      <3>5. ring.tail = k2 /\ ring.head = 0
        BY <1>3, <1>11, <2>6, <3>2, <3>3
      <3>6. wbuf'.size = k2 /\ wbuf'.head = 0 /\ wbuf'.tail = k2
        BY <1>3, <1>19, <2>2, <3>3, <3>4, <3>5
      <3> QED
        BY <2>11, <3>6 DEF Straight
    <2> QED
      BY <1>3, <2>2, <2>10, <2>11
  <1>21. /\ put' = PutWindow(wbuf') /\ cut' \in BOOLEAN
    BY <1>1, <1>7 DEF WriteSome
  <1>22. sent' <= PutLimit
    BY <1>1, <1>4, <1>7, <1>14, <1>16
  <1> QED
    BY <1>19, <1>20, <1>21, <1>22, StageEnds

\* drain_write_buffer(), of sync() and seekoff().
LEMMA DrainWrites ==
  ASSUME WriteInv, DrainWriteBuffer
  PROVE  WriteInv'
  <1> DEFINE w == CommittedPuts
             n1 == GetAvail(w)
  <1>1. /\ Staged(w, written, sent) /\ sent <= PutLimit /\ cut \in BOOLEAN
    BY StageBegins
  <1>2. PICK n \in Taken(IF n1 = 0 THEN 0 ELSE w.size) :
          LET first == Overflow(w, AtMost(n, n1))
              second == Overflow(first.ring, n - AtMost(n, n1))
          IN /\ written' = written \o first.out \o second.out
             /\ wbuf' = second.ring
             /\ cut' = (cut \/ n < w.size)
    BY DEF DrainWriteBuffer
  <1> DEFINE m == AtMost(n, n1)
             rest == n - m
             ring == Pop(w, m)
             out == written \o Front(w, m)
  <1>3. /\ written' = out \o Front(ring, rest) /\ wbuf' = Pop(ring, rest)
        /\ cut' = (cut \/ n < w.size)
    BY <1>2 DEF Overflow
  <1> HIDE DEF w, m
  <1>4. /\ RingShape(w) /\ w.capacity = Capacity /\ Capacity \in Nat \ {0} /\ w.size \in 0 .. Capacity
        /\ n1 \in 0 .. w.size
    BY <1>1, StageRanges
  <1>5. PICK k \in 0 .. Capacity, a \in 0 .. Capacity : k = w.size /\ a = n1 /\ a <= k
    <2> HIDE DEF n1
    <2>1. n1 \in 0 .. Capacity /\ n1 <= w.size
      BY <1>4
    <2> QED
      BY <1>4, <2>1
  <1>6. /\ n \in 0 .. k
        /\ a = 0 => n = 0
        /\ m = IF n < a THEN n ELSE a
    BY <1>2, <1>5 DEF Taken, m, AtMost
  <1> HIDE DEF n1
  <1>7. m \in 0 .. a /\ m <= n /\ m \in 0 .. GetAvail(w)
    BY <1>4, <1>5, <1>6 DEF n1
  <1>8. /\ Staged(ring, out, sent) /\ ring.size = w.size - m
        /\ ring.tail = IF m = w.size THEN 0 ELSE w.tail
        /\ ring.head = IF m = w.size \/ w.head + m = Capacity THEN 0 ELSE w.head + m
    BY <1>1, <1>7, StagePop
  <1> HIDE DEF ring, out
  <1>9. /\ RingShape(ring) /\ ring.capacity = Capacity /\ GetAvail(ring) \in Nat
    BY <1>8, StageRanges
  <1>10. rest \in 0 .. GetAvail(ring)
    <2>1. CASE n <= a
      <3>1. rest = 0
        BY <1>4, <1>6, <2>1
      <3> HIDE DEF rest
      <3> QED
        BY <1>9, <3>1
    <2>2. CASE n > a
      <3>1. m = a /\ a # 0 /\ a # k
        BY <1>4, <1>6, <2>2
      <3>2. PICK h \in 0 .. (Capacity - 1), t \in 0 .. Capacity :
                h = w.head /\ t = w.tail /\ (t = h + k \/ t = h + k - Capacity)
        BY <1>4, <1>5, RangeFacts DEF RingShape
      <3>3. a = IF t >= h THEN t - h ELSE Capacity - h
        BY <1>4, <1>5, <3>2 DEF n1, GetAvail, GetEnd
      <3>4. h + a = Capacity /\ t = k - a
        BY <1>4, <3>1, <3>2, <3>3
      <3>5. ring.head = 0 /\ ring.tail = t
        BY <1>5, <1>8, <3>1, <3>2, <3>4
      <3>6. GetAvail(ring) = t
        BY <1>4, <1>9, <3>2, <3>5 DEF GetAvail, GetEnd
      <3>7. rest \in 0 .. t
        BY <1>4, <1>6, <3>1, <3>4, <2>2
      <3> QED
        BY <3>6, <3>7
    <2> QED
      BY <1>4, <1>6, <2>1, <2>2
  <1>11. /\ Staged(wbuf', written', sent) /\ wbuf'.size = ring.size - rest
         /\ wbuf'.tail = IF rest = ring.size THEN 0 ELSE ring.tail
         /\ wbuf'.head = IF rest = ring.size \/ ring.head + rest = Capacity THEN 0 ELSE ring.head + rest
    BY <1>3, <1>8, <1>10, StagePop
  <1>12. ~cut' /\ Capacity > 1 => Straight(wbuf')
    <2> SUFFICES ASSUME ~cut'
                 PROVE  Straight(wbuf')
      OBVIOUS
    <2>1. n = k
      <3>1. ~(n < k)
        BY <1>3, <1>5
      <3> QED
        BY <1>4, <1>6, <3>1
    <2>2. ring.size = k - m /\ rest = k - m
      BY <1>5, <1>8, <2>1
    <2>3. k - m - (k - m) = 0
      BY <1>4, <1>7
    <2>4. wbuf'.size = 0 /\ wbuf'.tail = 0 /\ wbuf'.head = 0
      BY <1>11, <2>2, <2>3
    <2> QED
      BY <1>4, <2>4 DEF Straight
  <1>13. put' = PutWindow(wbuf') /\ sent' = sent /\ cut' \in BOOLEAN
    BY <1>1, <1>3 DEF DrainWriteBuffer
  <1> QED
    BY <1>1, <1>11, <1>12, <1>13, StageEnds

\* A user who has flushed what it put loses nothing when a read sets the window again.
LEMMA FlushedForgets ==
  ASSUME WriteInv, Flushed, ForgetPuts
  PROVE  UNCHANGED putVars
  <1>1. /\ put \in Windows /\ put.begin = PutBegin(wbuf) /\ put.end = PutEnd(wbuf)
        /\ put.next = put.begin
    BY DEF WriteInv, Flushed
  <1>2. put = [begin |-> put.begin, next |-> put.next, end |-> put.end]
    BY <1>1 DEF Windows
  <1>3. PutWindow(wbuf) = put
    BY <1>1, <1>2 DEF PutWindow
  <1> QED
    BY <1>3 DEF ForgetPuts, putVars

\* A step of the reader.
LEMMA WriteStays ==
  ASSUME WriteInv, UNCHANGED putVars
  PROVE  WriteInv'
  BY DEF WriteInv, putVars, Waits, Holds, RingShape, Putting, Straight, Place

\* At first nothing was put.
LEMMA WriteInitial ==
  ASSUME Init
  PROVE  WriteInv
  <1>1. /\ wbuf = Buf(Capacity) /\ put = PutWindow(wbuf) /\ written = <<>> /\ sent = 0 /\ cut = FALSE
    BY DEF Init
  <1>2. Holds(wbuf, 0) /\ wbuf.size = 0 /\ wbuf.head = 0 /\ wbuf.tail = 0
    BY <1>1, EmptyHolds
  <1>3. /\ wbuf.capacity = Capacity /\ Capacity \in Nat \ {0}
        /\ PutBegin(wbuf) \in 0 .. (Capacity - 1) /\ PutEnd(wbuf) \in 0 .. Capacity
        /\ PutAvail(wbuf) \in 1 .. Capacity
    BY <1>2, RangeFacts DEF Holds
  <1>4. Waits(wbuf, written)
    <2>1. Bytes(0, 0) = <<>>
      BY BytesFacts
    <2> QED
      BY <1>1, <1>2, <2>1 DEF Waits
  <1>5. /\ put.begin = PutBegin(wbuf) /\ put.next = PutBegin(wbuf) /\ put.end = PutEnd(wbuf)
        /\ put \in Windows
    BY <1>1, <1>3 DEF PutWindow, Windows
  <1>6. Putting = 0 /\ put.next <= put.end
    BY <1>3, <1>5 DEF Putting, PutAvail
  <1>7. sent \in 0 .. PutLimit /\ sent = Len(written) + wbuf.size + Putting
    BY <1>1, <1>2, <1>6, LimitsAssumption
  <1>8. Straight(wbuf)
    BY <1>2, <1>3 DEF Straight
  <1>9. Putting \in 0 .. (Capacity - wbuf.size) /\ \A j \in 0 .. (Putting - 1) : FALSE
    BY <1>2, <1>3, <1>6
  <1> QED
    BY <1>1, <1>4, <1>5, <1>6, <1>7, <1>8, <1>9 DEF WriteInv

-----------------------------------------------------------------------------
(* Reading.                                                                *)

\* The get range is all that is unread, except that a ring of one cell hides the byte
\* that was put back into it.
LEMMA LoadedFacts ==
  ASSUME NEW r, NEW first, Loaded(r, first)
  PROVE  /\ Holds(r, first) /\ RingShape(r) /\ first \in Nat
         /\ r.capacity = Capacity /\ Capacity \in Nat \ {0} /\ r.size \in 0 .. Capacity
         /\ r.head \in 0 .. (Capacity - 1) /\ r.tail \in 0 .. Capacity /\ r.cell \in Cells
         /\ GetAvail(r) \in 0 .. r.size /\ GetEnd(r) = r.head + GetAvail(r)
         /\ r.head + GetAvail(r) <= Capacity
         /\ \/ GetAvail(r) = r.size /\ r.tail = r.head + r.size
            \/ GetAvail(r) = r.size /\ r.size = 1 /\ r.head = Capacity - 1 /\ r.tail = 0
            \/ GetAvail(r) = 0 /\ Capacity = 1 /\ r.size = 1 /\ r.head = 0 /\ r.tail = 0
  <1>1. /\ Holds(r, first) /\ RingShape(r) /\ first \in Nat
        /\ r.tail = r.head + r.size \/ (r.size = 1 /\ r.head = Capacity - 1 /\ r.tail = 0)
    BY DEF Loaded, Holds
  <1>2. /\ r.capacity = Capacity /\ Capacity \in Nat \ {0} /\ r.size \in 0 .. Capacity
        /\ r.head \in 0 .. (Capacity - 1) /\ r.tail \in 0 .. Capacity /\ r.cell \in Cells
        /\ GetAvail(r) \in 0 .. r.size /\ r.head + GetAvail(r) <= Capacity
        /\ GetEnd(r) \in 0 .. Capacity
    BY <1>1, RangeFacts
  <1>3. PICK h \in 0 .. (Capacity - 1), k \in 0 .. Capacity, t \in 0 .. Capacity :
            h = r.head /\ k = r.size /\ t = r.tail
    BY <1>2
  <1>4. /\ GetAvail(r) = (IF t >= h THEN t ELSE Capacity) - h
        /\ GetEnd(r) = IF t >= h THEN t ELSE Capacity
    BY <1>2, <1>3 DEF GetAvail, GetEnd
  <1>5. GetEnd(r) = h + GetAvail(r)
    BY <1>2, <1>4
  <1>6. CASE t = h + k
    <2>1. GetAvail(r) = k
      BY <1>2, <1>4, <1>6
    <2> QED
      BY <1>1, <1>2, <1>3, <1>5, <1>6, <2>1
  <1>7. CASE k = 1 /\ h = Capacity - 1 /\ t = 0
    <2>1. CASE Capacity = 1
      <3>1. GetAvail(r) = 0 /\ h = 0
        BY <1>4, <1>7, <2>1
      <3> QED
        BY <1>1, <1>2, <1>3, <1>5, <1>7, <2>1, <3>1
    <2>2. CASE Capacity # 1
      <3>1. GetAvail(r) = 1
        BY <1>2, <1>4, <1>7, <2>2
      <3> QED
        BY <1>1, <1>2, <1>3, <1>5, <1>7, <3>1
    <2> QED
      BY <2>1, <2>2
  <1> QED
    BY <1>1, <1>3, <1>6, <1>7

\* Bytes are read from the front of the ring.
LEMMA LoadedPop ==
  ASSUME NEW r, NEW first, Loaded(r, first), NEW n \in 0 .. GetAvail(r)
  PROVE  /\ Loaded(Pop(r, n), first + n) /\ Pop(r, n).size = r.size - n
         /\ Front(r, n) = Bytes(first, n)
         /\ n > 0 => Roomy(Pop(r, n))
         /\ Roomy(r) => Roomy(Pop(r, n))
         /\ \A f : Reached(r, f) => Reached(Pop(r, n), f)
  <1> DEFINE q == Pop(r, n)
  <1>1. /\ Holds(r, first) /\ RingShape(r) /\ first \in Nat
        /\ r.capacity = Capacity /\ Capacity \in Nat \ {0} /\ r.size \in 0 .. Capacity
        /\ r.head \in 0 .. (Capacity - 1) /\ r.tail \in 0 .. Capacity
        /\ GetAvail(r) \in 0 .. r.size
        /\ \/ GetAvail(r) = r.size /\ r.tail = r.head + r.size
           \/ GetAvail(r) = r.size /\ r.size = 1 /\ r.head = Capacity - 1 /\ r.tail = 0
           \/ GetAvail(r) = 0 /\ Capacity = 1 /\ r.size = 1 /\ r.head = 0 /\ r.tail = 0
    BY LoadedFacts
  <1>2. /\ Holds(q, first + n) /\ q.size = r.size - n
        /\ Front(r, n) = Bytes(first, n)
        /\ q.tail = IF n = r.size THEN 0 ELSE r.tail
        /\ q.head = IF n = r.size \/ r.head + n = Capacity THEN 0 ELSE r.head + n
    BY <1>1, PopHolds
  <1> HIDE DEF q
  <1>3. PICK h \in 0 .. (Capacity - 1), k \in 0 .. Capacity, t \in 0 .. Capacity :
            h = r.head /\ k = r.size /\ t = r.tail
    BY <1>1
  <1>4. PICK g, s, u : g = q.head /\ s = q.size /\ u = q.tail
    OBVIOUS
  <1>5. /\ n \in 0 .. k /\ s = k - n
        /\ u = IF n = k THEN 0 ELSE t
        /\ g = IF n = k \/ h + n = Capacity THEN 0 ELSE h + n
        /\ \/ t = h + k
           \/ k = 1 /\ h = Capacity - 1 /\ t = 0
    BY <1>1, <1>2, <1>3, <1>4
  <1>6. n = k => s = 0 /\ u = 0 /\ g = 0
    BY <1>1, <1>5
  <1>7. n # k => /\ u = t /\ g = h + n /\ s = k - n
                 /\ t = h + k \/ (n = 0 /\ k = 1 /\ h = Capacity - 1 /\ t = 0)
    BY <1>1, <1>5
  <1>8. u = g + s \/ (s = 1 /\ g = Capacity - 1 /\ u = 0)
    BY <1>1, <1>5, <1>6, <1>7
  <1>9. Loaded(q, first + n)
    BY <1>1, <1>2, <1>4, <1>5, <1>8 DEF Loaded
  <1>10. /\ n > 0 => Roomy(q)
         /\ Roomy(r) => Roomy(q)
    BY <1>1, <1>3, <1>4, <1>5, <1>6, <1>7 DEF Roomy
  <1>11. ASSUME NEW f, Reached(r, f)
         PROVE  Reached(q, f)
    BY <1>1, <1>3, <1>4, <1>5, <1>6, <1>7, <1>11 DEF Reached
  <1> QED
    BY <1>2, <1>9, <1>10, <1>11 DEF q

\* What a ring of one byte at most is refilled with.
LEMMA LoadedFill ==
  ASSUME NEW r, NEW first, Loaded(r, first), r.tail = r.head + r.size, ~Overlaps(r),
         filepos = first + r.size, NEW n \in 0 .. PutAvail(r)
  PROVE  /\ Loaded(Refilled(r, n), first) /\ Refilled(r, n).size = r.size + n
         /\ Refilled(r, n).head = r.head /\ Refilled(r, n).tail = r.tail + n
  <1> DEFINE q == Fill(r, Bytes(first + r.size, n))
  <1>1. /\ Holds(r, first) /\ RingShape(r) /\ first \in Nat
        /\ r.capacity = Capacity /\ Capacity \in Nat \ {0} /\ r.size \in 0 .. Capacity
        /\ r.head \in 0 .. (Capacity - 1) /\ r.tail \in 0 .. Capacity
        /\ PutAvail(r) \in 1 .. Capacity
    BY LoadedFacts, RangeFacts
  <1>2. PICK h \in 0 .. (Capacity - 1), k \in 0 .. Capacity, t \in 0 .. Capacity, a \in 1 .. Capacity :
            h = r.head /\ k = r.size /\ t = r.tail /\ t = h + k /\ a = PutAvail(r)
    BY <1>1
  <1>3. t < Capacity /\ PutBegin(r) = t /\ a = Capacity - t
    <2>1. k = 0 => h = 0
      BY <1>1, <1>2 DEF RingShape
    <2>2. CASE t = Capacity
      <3>1. a = Capacity /\ k > 0
        BY <1>1, <1>2, <2>1, <2>2 DEF PutAvail, PutBegin, PutEnd
      <3>2. Overlaps(r)
        BY <1>1, <1>2, <3>1 DEF Overlaps
      <3> QED
        BY <3>2
    <2>3. CASE t # Capacity
      BY <1>1, <1>2, <2>3 DEF PutAvail, PutBegin, PutEnd
    <2> QED
      BY <2>2, <2>3
  <1>4. n \in 0 .. (Capacity - t) /\ k + n <= Capacity /\ n \in Nat
    BY <1>1, <1>2, <1>3
  <1>5. /\ Holds(q, first) /\ q.size = r.size + n /\ q.head = r.head
        /\ q.tail = IF n = 0 THEN r.tail ELSE PutBegin(r) + n
    <2>1. r.size + n <= Capacity
      BY <1>2, <1>4
    <2> QED
      BY <1>1, <2>1, FillBytes
  <1>6. q = Refilled(r, n)
    <2>1. filepos = first + r.size /\ filepos \in Nat
      BY <1>1
    <2>2. FromFile(n) = Bytes(first + r.size, n) /\ Len(Bytes(first + r.size, n)) = n
      <3>1. Len(Bytes(filepos, n)) = n
        BY <1>4, <2>1, BytesFacts
      <3> QED
        BY <2>1, <3>1 DEF FromFile, Bytes
    <2> QED
      BY <2>2 DEF Fill, Refilled
  <1> HIDE DEF q
  <1>7. q.tail = t + n /\ q.head = h /\ q.size = k + n /\ t + n = h + (k + n)
    BY <1>1, <1>2, <1>3, <1>4, <1>5
  <1>8. Loaded(q, first)
    BY <1>1, <1>5, <1>7 DEF Loaded
  <1> QED
    BY <1>2, <1>6, <1>7, <1>8

\* The bytes delivered end at the user's position.
LEMMA Delivers ==
  ASSUME NEW from \in Nat, NEW n \in Nat, delivered' = Bytes(from, n), position' = from + n
  PROVE  /\ delivered' \in Seq(Nat) /\ InPlace' /\ Len(delivered') <= position' /\ position' \in Nat
         /\ Len(delivered') = n /\ (delivered' # <<>> <=> n > 0)
  <1>1. /\ delivered' \in Seq(Nat) /\ Len(delivered') = n
        /\ \A i \in 1 .. n : delivered'[i] = from + i
    BY BytesFacts
  <1>2. \A i \in DOMAIN delivered' : delivered'[i] = position' - Len(delivered') + i
    <2> TAKE i \in DOMAIN delivered'
    <2>1. i \in 1 .. n
      BY <1>1
    <2>2. from + i = (from + n) - n + i
      BY <2>1
    <2> QED
      BY <1>1, <2>1, <2>2
  <1>3. n <= from + n /\ from + n \in Nat
    OBVIOUS
  <1>4. delivered' # <<>> <=> n > 0
    BY <1>1
  <1> QED
    BY <1>1, <1>2, <1>3, <1>4 DEF InPlace

\* A read that commits and sets the window again, and may then step over a byte.
LEMMA WindowReads ==
  ASSUME NEW k \in {0, 1}, position' \in Nat, Loaded(rbuf', position' - k),
         k <= GetAvail(rbuf'), k = 1 => rbuf'.size = 1 \/ rbuf'.size - 1 >= k,
         get' = [GetWindow(rbuf') EXCEPT !.next = @ + k],
         filepos' = position' - k + rbuf'.size, filepos' \in 0 .. FileSize,
         delivered' \in Seq(Nat), InPlace', Len(delivered') <= position',
         eof' \in BOOLEAN, eof' => rbuf'.size - k <= 1,
         Reached(rbuf', filled'), k = 0 /\ delivered' # <<>> => Roomy(rbuf')
  PROVE  ReadInv'
  <1>1. /\ rbuf'.head \in 0 .. (Capacity - 1) /\ rbuf'.size \in 0 .. Capacity /\ Capacity \in Nat \ {0}
        /\ GetAvail(rbuf') \in 0 .. rbuf'.size /\ GetEnd(rbuf') = rbuf'.head + GetAvail(rbuf')
        /\ rbuf'.head + GetAvail(rbuf') <= Capacity
        /\ \/ GetAvail(rbuf') = rbuf'.size
           \/ GetAvail(rbuf') = 0 /\ rbuf'.size = 1
    BY LoadedFacts
  <1>2. PICK h \in 0 .. (Capacity - 1), s \in 0 .. Capacity, a \in 0 .. Capacity :
            h = rbuf'.head /\ s = rbuf'.size /\ a = GetAvail(rbuf')
    BY <1>1
  <1>3. /\ h + a <= Capacity
        /\ a = s \/ (a = 0 /\ s = 1)
        /\ k <= a
        /\ k = 1 => s = 1 \/ s - 1 >= k
    BY <1>1, <1>2
  <1>4. PICK e \in Int : e = IF s > 1 THEN h + a - 1 ELSE h + a
    BY <1>1
  <1>5. GetWindow(rbuf') = [begin |-> h, next |-> h, end |-> e]
    <2>1. GetEnd(rbuf') = h + a /\ h + a \in Int
      BY <1>1, <1>2
    <2>2. (IF rbuf'.size > 1 THEN GetEnd(rbuf') - 1 ELSE GetEnd(rbuf')) = e
      BY <1>2, <1>4, <2>1
    <2> QED
      BY <1>2, <2>2 DEF GetWindow
  <1>6. /\ get'.begin = h /\ get'.next = h + k /\ get'.end = e
        /\ get' = [begin |-> h, next |-> h + k, end |-> e]
    BY <1>5
  <1>7. h + k <= e /\ h <= h + k /\ h + k \in 0 .. Capacity
    <2>1. PICK c \in Nat : c = Capacity
      BY <1>1
    <2>2. PICK i \in Nat, u \in Nat, b \in Nat : i = h /\ u = s /\ b = a
      BY <2>1
    <2>3. /\ i + b <= c
          /\ b = u \/ (b = 0 /\ u = 1)
          /\ e = IF u > 1 THEN i + b - 1 ELSE i + b
      BY <1>3, <1>4, <2>1, <2>2
    <2>4. CASE k = 0
      <3>1. i <= e
        BY <2>3
      <3> QED
        BY <2>1, <2>2, <2>3, <2>4, <3>1
    <2>5. CASE k = 1
      <3>1. b >= 1 /\ b = u
        BY <1>3, <2>2, <2>3, <2>5
      <3>2. i + 1 <= e /\ i + 1 <= c
        BY <2>3, <3>1
      <3> QED
        BY <2>1, <2>2, <2>5, <3>2
    <2> QED
      BY <2>4, <2>5
  <1>8. get' \in Windows /\ get'.begin = rbuf'.head /\ get'.end = GetWindow(rbuf').end
    BY <1>1, <1>2, <1>5, <1>6, <1>7 DEF Windows
  <1>9. Getting' = k
    BY <1>1, <1>6 DEF Getting
  <1>10. get'.begin <= get'.next /\ get'.next <= get'.end
    BY <1>6, <1>7
  <1> QED
    BY <1>8, <1>9, <1>10 DEF ReadInv

\* What the guard commits was read.
LEMMA CommitsGets ==
  ASSUME ReadInv
  PROVE  /\ Loaded(Committed, position) /\ position \in Nat /\ Committed.size = rbuf.size - Getting
         /\ filepos = position + Committed.size /\ filepos \in 0 .. FileSize
         /\ Reached(Committed, filled) /\ Getting \in 0 .. GetAvail(rbuf)
         /\ get.next >= get.end /\ rbuf.size > 0 =>
               \/ Committed.size <= 1 /\ Committed.tail = Committed.head + Committed.size
               \/ Overlaps(Committed)
         /\ delivered # <<>> => Roomy(Committed)
         /\ eof => Committed.size <= 1
  <1> DEFINE first == position - Getting
  <1>1. /\ position \in Nat /\ Loaded(rbuf, first)
        /\ get \in Windows /\ get.begin = rbuf.head /\ get.end = GetWindow(rbuf).end
        /\ get.begin <= get.next /\ get.next <= get.end
        /\ filepos \in 0 .. FileSize /\ filepos = first + rbuf.size
        /\ Reached(rbuf, filled)
        /\ delivered # <<>> /\ Getting = 0 => Roomy(rbuf)
        /\ eof => rbuf.size - Getting <= 1
    BY DEF ReadInv
  <1>2. /\ rbuf.head \in 0 .. (Capacity - 1) /\ rbuf.size \in 0 .. Capacity /\ Capacity \in Nat \ {0}
        /\ rbuf.capacity = Capacity /\ rbuf.tail \in 0 .. Capacity
        /\ GetAvail(rbuf) \in 0 .. rbuf.size /\ GetEnd(rbuf) = rbuf.head + GetAvail(rbuf)
        /\ rbuf.head + GetAvail(rbuf) <= Capacity /\ first \in Nat
        /\ \/ GetAvail(rbuf) = rbuf.size /\ rbuf.tail = rbuf.head + rbuf.size
           \/ GetAvail(rbuf) = rbuf.size /\ rbuf.size = 1 /\ rbuf.head = Capacity - 1 /\ rbuf.tail = 0
           \/ GetAvail(rbuf) = 0 /\ Capacity = 1 /\ rbuf.size = 1 /\ rbuf.head = 0 /\ rbuf.tail = 0
    BY <1>1, LoadedFacts
  <1>3. PICK h \in 0 .. (Capacity - 1), s \in 0 .. Capacity, a \in 0 .. Capacity, t \in 0 .. Capacity,
             nx \in 0 .. Capacity :
            h = rbuf.head /\ s = rbuf.size /\ a = GetAvail(rbuf) /\ t = rbuf.tail /\ nx = get.next
    BY <1>1, <1>2 DEF Windows
  <1>4. /\ a <= s
        /\ \/ a = s /\ t = h + s
           \/ a = s /\ s = 1 /\ h = Capacity - 1 /\ t = 0
           \/ a = 0 /\ Capacity = 1 /\ s = 1 /\ h = 0 /\ t = 0
    BY <1>2, <1>3
  <1>5. get.end = IF s > 1 THEN h + a - 1 ELSE h + a
    <2>1. GetEnd(rbuf) = h + a /\ h + a \in Int
      BY <1>2, <1>3
    <2>2. get.end = IF rbuf.size > 1 THEN GetEnd(rbuf) - 1 ELSE GetEnd(rbuf)
      BY <1>1 DEF GetWindow
    <2> QED
      BY <1>3, <2>1, <2>2
  <1>6. PICK g \in Nat : g = Getting /\ g = nx - h /\ g <= a /\ (s > 1 => g <= a - 1)
    <2>1. Getting = nx - h
      BY <1>1, <1>3 DEF Getting
    <2>2. h <= nx /\ nx <= get.end
      BY <1>1, <1>3
    <2>3. nx - h \in Nat /\ nx - h <= a /\ (s > 1 => nx - h <= a - 1)
      BY <1>2, <1>5, <2>2
    <2> QED
      BY <2>1, <2>3
  <1>7. Getting \in 0 .. GetAvail(rbuf) /\ Committed = Pop(rbuf, Getting)
    BY <1>3, <1>6 DEF Committed, Getting
  <1> HIDE DEF first
  <1>8. /\ Committed.size = s - g
        /\ Committed.tail = IF g = s THEN 0 ELSE t
        /\ Committed.head = IF g = s \/ h + g = Capacity THEN 0 ELSE h + g
    <2>1. Holds(rbuf, first) /\ first \in Nat
      BY <1>1, LoadedFacts
    <2>2. /\ Pop(rbuf, Getting).size = rbuf.size - Getting
          /\ Pop(rbuf, Getting).tail = IF Getting = rbuf.size THEN 0 ELSE rbuf.tail
          /\ Pop(rbuf, Getting).head = IF Getting = rbuf.size \/ rbuf.head + Getting = Capacity
                                       THEN 0 ELSE rbuf.head + Getting
      BY <1>7, <2>1, PopHolds
    <2> QED
      BY <1>3, <1>6, <1>7, <2>2
  <1>9. /\ Loaded(Committed, first + Getting) /\ Committed.size = rbuf.size - Getting
        /\ Getting > 0 => Roomy(Committed)
        /\ Roomy(rbuf) => Roomy(Committed)
        /\ Reached(Committed, filled)
    <2>1. \A f : Reached(rbuf, f) => Reached(Pop(rbuf, Getting), f)
      BY <1>1, <1>7, LoadedPop
    <2> QED
      BY <1>1, <1>7, <2>1, LoadedPop
  <1>10. first + Getting = position /\ filepos = position + (rbuf.size - Getting)
    BY <1>1, <1>3, <1>6 DEF first
  <1>11. delivered # <<>> => Roomy(Committed)
    <2>1. Getting = 0 \/ Getting > 0
      BY <1>6
    <2> QED
      BY <1>1, <1>9, <2>1
  <1>12. ASSUME get.next >= get.end, rbuf.size > 0
         PROVE  \/ Committed.size <= 1 /\ Committed.tail = Committed.head + Committed.size
                \/ Overlaps(Committed)
    <2>1. g = (IF s > 1 THEN a - 1 ELSE a)
      <3>1. PICK c \in Nat : c = Capacity
        BY <1>2
      <3>2. PICK i \in Nat, u \in Nat, b \in Nat, x \in Nat : i = h /\ u = s /\ b = a /\ x = nx
        BY <3>1
      <3>3. x >= (IF u > 1 THEN i + b - 1 ELSE i + b) /\ g = x - i /\ g <= b /\ (u > 1 => g <= b - 1)
        BY <1>3, <1>5, <1>6, <1>12, <3>2
      <3>4. g = (IF u > 1 THEN b - 1 ELSE b)
        BY <3>3
      <3> QED
        BY <3>2, <3>4
    <2>2. CASE a = s /\ t = h + s /\ s > 1
      <3>1. /\ Committed.size = 1 /\ Committed.tail = t /\ Committed.head = h + (s - 1)
        <4>1. g = s - 1 /\ g # s /\ h + g # Capacity
          BY <1>2, <2>1, <2>2
        <4>2. s - (s - 1) = 1
          OBVIOUS
        <4> QED
          BY <1>8, <4>1, <4>2
      <3>2. t = (h + (s - 1)) + 1
        BY <2>2
      <3> QED
        BY <3>1, <3>2
    <2>3. CASE a = s /\ s = 1
      <3>1. Committed.size = 0 /\ Committed.head = 0 /\ Committed.tail = 0
        <4>1. g = s /\ s - s = 0
          BY <2>1, <2>3
        <4> QED
          BY <1>8, <4>1
      <3> QED
        BY <3>1
    <2>4. CASE a = 0 /\ Capacity = 1 /\ s = 1 /\ h = 0 /\ t = 0
      <3>1. /\ Committed.size = 1 /\ Committed.tail = 0 /\ Committed.head = 0
            /\ Committed.capacity = 1
        <4>1. g = 0 /\ g # s /\ h + g # Capacity /\ 1 - 0 = 1 /\ 0 + 0 = 0
          BY <2>1, <2>4
        <4>2. Committed.capacity = Capacity
          BY <1>9, LoadedFacts
        <4> QED
          BY <1>8, <2>4, <4>1, <4>2
      <3>2. Overlaps(Committed)
        BY <3>1 DEF Overlaps, PutAvail, PutBegin, PutEnd
      <3> QED
        BY <3>2
    <2> QED
      BY <1>3, <1>4, <1>12, <2>2, <2>3, <2>4
  <1>13. eof => Committed.size <= 1
    BY <1>1, <1>9
  <1> QED
    BY <1>1, <1>7, <1>9, <1>10, <1>11, <1>12, <1>13

\* sbumpc in the window.
LEMMA SgetcReads ==
  ASSUME ReadInv, GetBuffered
  PROVE  ReadInv'
  <1> DEFINE first == position - Getting
  <1>1. /\ position \in Nat /\ Loaded(rbuf, first)
        /\ get \in Windows /\ get.begin = rbuf.head /\ get.end = GetWindow(rbuf).end
        /\ get.begin <= get.next /\ get.next <= get.end
        /\ filepos \in 0 .. FileSize /\ filepos = first + rbuf.size
        /\ Reached(rbuf, filled)
    BY DEF ReadInv
  <1>2. /\ get.next < get.end /\ delivered' = <<rbuf.cell[get.next]>>
        /\ get' = [get EXCEPT !.next = @ + 1] /\ position' = position + 1 /\ eof' = FALSE
        /\ rbuf' = rbuf /\ filepos' = filepos /\ filled' = filled
    BY DEF GetBuffered
  <1>3. /\ Holds(rbuf, first) /\ first \in Nat /\ rbuf.size \in 0 .. Capacity
        /\ rbuf.head \in 0 .. (Capacity - 1) /\ Capacity \in Nat \ {0}
        /\ GetAvail(rbuf) \in 0 .. rbuf.size /\ GetEnd(rbuf) = rbuf.head + GetAvail(rbuf)
        /\ rbuf.head + GetAvail(rbuf) <= Capacity
    BY <1>1, LoadedFacts
  <1>4. PICK h \in 0 .. (Capacity - 1), s \in 0 .. Capacity, a \in 0 .. Capacity,
             nx \in 0 .. Capacity :
            h = rbuf.head /\ s = rbuf.size /\ a = GetAvail(rbuf) /\ nx = get.next /\ a <= s
    BY <1>1, <1>3 DEF Windows
  <1>5. PICK e \in Int : e = get.end /\ e <= h + a
    <2>1. GetEnd(rbuf) = h + a /\ h + a \in Int
      BY <1>3, <1>4
    <2>2. get.end = IF rbuf.size > 1 THEN GetEnd(rbuf) - 1 ELSE GetEnd(rbuf)
      BY <1>1 DEF GetWindow
    <2> QED
      BY <2>1, <2>2
  <1>6. PICK g \in Nat : g = Getting /\ g = nx - h /\ g < a /\ nx = h + g /\ nx < Capacity
    <2>1. h <= nx /\ nx < e /\ h + a <= Capacity
      BY <1>1, <1>2, <1>3, <1>4, <1>5
    <2>2. Getting = nx - h
      BY <1>1, <1>4 DEF Getting
    <2> QED
      BY <1>3, <1>5, <2>1, <2>2
  <1>7. first + g = position
    BY <1>1, <1>6
  <1> HIDE DEF first
  <1>8. rbuf.cell[get.next] = first + g + 1
    <2>1. g \in 0 .. (rbuf.size - 1)
      BY <1>3, <1>4, <1>6
    <2>2. Place(rbuf, g) = nx
      <3>1. PlaceFrom(h, g) = nx
        BY <1>3, <1>6 DEF PlaceFrom
      <3> QED
        BY <1>4, <3>1 DEF Place
    <2> QED
      BY <1>3, <1>4, <2>1, <2>2 DEF Holds
  <1>9. delivered' = Bytes(position, 1)
    <2>1. Bytes(position, 1) = <<position + 1>>
      BY <1>1 DEF Bytes
    <2> QED
      BY <1>2, <1>7, <1>8, <2>1
  <1>10. /\ delivered' \in Seq(Nat) /\ InPlace' /\ Len(delivered') <= position' /\ position' \in Nat
    BY <1>1, <1>2, <1>9, Delivers
  <1>11. /\ get'.begin = h /\ get'.next = nx + 1 /\ get'.end = e /\ get' \in Windows
    <2>1. get = [begin |-> get.begin, next |-> get.next, end |-> get.end]
      BY <1>1 DEF Windows
    <2>2. /\ get' = [begin |-> get.begin, next |-> get.next + 1, end |-> get.end]
      BY <1>2, <2>1
    <2>3. nx + 1 \in 0 .. Capacity /\ h \in 0 .. Capacity
      BY <1>3, <1>6
    <2> QED
      BY <1>1, <1>4, <1>5, <2>2, <2>3 DEF Windows
  <1>12. Getting' = g + 1
    BY <1>6, <1>11 DEF Getting
  <1>13. position' - Getting' = first
    <2>1. PICK p \in Nat, f \in Nat : p = position /\ f = first
      BY <1>1, <1>3
    <2>2. (p + 1) - (g + 1) = f
      BY <1>7, <2>1
    <2> QED
      BY <1>2, <1>12, <2>1, <2>2
  <1>14. get'.begin <= get'.next /\ get'.next <= get'.end
    BY <1>1, <1>2, <1>4, <1>5, <1>11
  <1>15. Getting' # 0
    BY <1>12
  <1> QED
    BY <1>1, <1>2, <1>4, <1>5, <1>10, <1>11, <1>13, <1>14, <1>15 DEF ReadInv

\* sputbackc in the window.
LEMMA SputbackcReads ==
  ASSUME ReadInv, PutBackBuffered
  PROVE  ReadInv'
  <1> DEFINE first == position - Getting
  <1>1. /\ position \in Nat /\ Loaded(rbuf, first)
        /\ get \in Windows /\ get.begin = rbuf.head /\ get.end = GetWindow(rbuf).end
        /\ get.begin <= get.next /\ get.next <= get.end
        /\ filepos \in 0 .. FileSize /\ filepos = first + rbuf.size
        /\ Reached(rbuf, filled)
    BY DEF ReadInv
  <1>2. /\ position > 0 /\ get.next > get.begin
        /\ get' = [get EXCEPT !.next = @ - 1] /\ position' = position - 1 /\ eof' = FALSE
        /\ rbuf' = rbuf /\ filepos' = filepos /\ filled' = filled /\ delivered' = <<>>
    BY DEF PutBackBuffered
  <1>3. PICK b \in 0 .. Capacity, nx \in 0 .. Capacity, e \in Int :
            b = get.begin /\ nx = get.next /\ e = get.end
    BY <1>1 DEF Windows
  <1>4. Capacity \in Nat /\ first \in Nat
    BY <1>1, LoadedFacts
  <1>5. get'.begin = b /\ get'.next = nx - 1 /\ get'.end = e /\ get' \in Windows
    <2>1. get = [begin |-> get.begin, next |-> get.next, end |-> get.end]
      BY <1>1 DEF Windows
    <2>2. get' = [begin |-> b, next |-> nx - 1, end |-> e]
      BY <1>2, <1>3, <2>1
    <2>3. nx - 1 \in 0 .. Capacity
      BY <1>2, <1>3, <1>4
    <2> QED
      BY <2>2, <2>3 DEF Windows
  <1>6. position' - Getting' = first
    BY <1>1, <1>2, <1>3, <1>5 DEF Getting
  <1>7. get'.begin <= get'.next /\ get'.next <= get'.end
    BY <1>1, <1>2, <1>3, <1>4, <1>5
  <1>8. position' \in Nat /\ delivered' \in Seq(Nat) /\ InPlace' /\ Len(delivered') <= position'
    BY <1>1, <1>2 DEF InPlace
  <1> HIDE DEF first
  <1> QED
    BY <1>1, <1>2, <1>3, <1>5, <1>6, <1>7, <1>8 DEF ReadInv

\* An underflow of a ring of one byte at most.
LEMMA UnderflowReads ==
  ASSUME ReadInv, get.next >= get.end, NEW n \in 0 .. Capacity, Underflow(Committed, n), ~misread'
  PROVE  /\ Loaded(rbuf', position) /\ rbuf'.size = Committed.size + n /\ GetAvail(rbuf') = rbuf'.size
         /\ filepos' = position + rbuf'.size /\ filepos' \in 0 .. FileSize
         /\ Reached(rbuf', filled') /\ (n = 0 => Committed.size <= 1 /\ eof')
         /\ (n # 0 => ~eof') /\ eof' \in BOOLEAN /\ position \in Nat
  <1>1. /\ Loaded(Committed, position) /\ position \in Nat
        /\ filepos = position + Committed.size /\ filepos \in 0 .. FileSize
        /\ Reached(Committed, filled)
        /\ get.next >= get.end /\ rbuf.size > 0 =>
               \/ Committed.size <= 1 /\ Committed.tail = Committed.head + Committed.size
               \/ Overlaps(Committed)
        /\ Committed.size = rbuf.size - Getting /\ Getting \in 0 .. GetAvail(rbuf)
    BY CommitsGets
  <1>2. /\ n \in Given(PutAvail(Committed)) /\ rbuf' = Refilled(Committed, n)
        /\ filepos' = filepos + n /\ filled' = Added(Committed, n)
        /\ ~Overlaps(Committed) /\ eof' = (n = 0)
    BY DEF Underflow
  <1>3. /\ Capacity \in Nat \ {0} /\ Committed.size \in 0 .. Capacity
        /\ Committed.head \in 0 .. (Capacity - 1) /\ Committed.tail \in 0 .. Capacity
        /\ RingShape(Committed) /\ PutAvail(Committed) \in 1 .. Capacity
    BY <1>1, LoadedFacts, RangeFacts
  <1>4. Committed.size <= 1 /\ Committed.tail = Committed.head + Committed.size
    <2>1. CASE rbuf.size > 0
      BY <1>1, <1>2, <2>1
    <2>2. CASE ~(rbuf.size > 0)
      <3>1. Loaded(rbuf, position - Getting)
        BY DEF ReadInv
      <3>2. rbuf.size \in 0 .. Capacity /\ GetAvail(rbuf) \in 0 .. rbuf.size
        BY <3>1, LoadedFacts
      <3>3. rbuf.size = 0 /\ Getting = 0
        BY <1>1, <1>3, <2>2, <3>2
      <3>4. Committed.size = 0
        BY <1>1, <3>3
      <3> QED
        BY <1>3, <3>4 DEF RingShape
    <2> QED
      BY <2>1, <2>2
  <1>5. /\ n \in Nat /\ n \in 0 .. PutAvail(Committed) /\ filepos + n <= FileSize
        /\ FileSize \in Nat
    <2>1. PICK p \in Nat, a \in Nat : p = filepos /\ a = PutAvail(Committed)
      BY <1>1, <1>3, LimitsAssumption
    <2>2. n <= a /\ n <= FileSize - p
      BY <1>1, <1>2, <2>1, LimitsAssumption DEF Given, AtMost
    <2> QED
      BY <2>1, <2>2, LimitsAssumption
  <1>6. /\ Loaded(rbuf', position) /\ rbuf'.size = Committed.size + n
        /\ rbuf'.head = Committed.head /\ rbuf'.tail = Committed.tail + n
    BY <1>1, <1>2, <1>4, <1>5, LoadedFill
  <1>7. PICK s \in 0 .. Capacity, h \in 0 .. (Capacity - 1), t \in 0 .. Capacity :
            s = Committed.size /\ h = Committed.head /\ t = Committed.tail
    BY <1>3
  <1>8. /\ rbuf'.size = s + n /\ rbuf'.head = h /\ rbuf'.tail = t + n /\ t = h + s /\ s <= 1
        /\ rbuf'.tail \in 0 .. Capacity
    BY <1>4, <1>6, <1>7, LoadedFacts
  <1>9. GetAvail(rbuf') = rbuf'.size
    <2>1. t + n >= h /\ (t + n) - h = s + n
      BY <1>3, <1>5, <1>8
    <2> QED
      BY <1>8, <2>1 DEF GetAvail, GetEnd
  <1>10. filepos' = position + rbuf'.size /\ filepos' \in 0 .. FileSize
    BY <1>1, <1>2, <1>3, <1>5, <1>7, <1>8
  <1>11. Reached(rbuf', filled')
    <2>1. PICK f \in 0 .. Capacity : f = filled /\ t <= f /\ (t = 0 /\ s > 0 => f > 0)
      BY <1>1, <1>7 DEF Reached
    <2>2. filled' = AtMost(Capacity, (IF s = 0 THEN 0 ELSE f) + n)
      BY <1>2, <1>7, <2>1 DEF Added
    <2>3. s = 0 => t = 0
      BY <1>3, <1>7 DEF RingShape
    <2>4. t + n \in 0 .. Capacity
      BY <1>8
    <2>5. /\ filled' \in 0 .. Capacity /\ t + n <= filled'
          /\ t + n = 0 /\ s + n > 0 => filled' > 0
      BY <1>3, <1>5, <2>1, <2>2, <2>3, <2>4 DEF AtMost
    <2> QED
      BY <1>8, <2>5 DEF Reached
  <1> QED
    BY <1>1, <1>2, <1>4, <1>6, <1>9, <1>10, <1>11

\* sbumpc at the end of the window: uflow().
LEMMA UflowReads ==
  ASSUME ReadInv, GetUnderflow, ~misread'
  PROVE  ReadInv'
  <1>1. PICK n \in 0 .. Capacity :
           /\ Underflow(Committed, n)
           /\ get' = [GetWindow(rbuf') EXCEPT !.next = IF n = 0 THEN @ ELSE @ + 1]
           /\ delivered' = IF n = 0 THEN <<>> ELSE Front(rbuf', 1)
           /\ position' = position + Len(delivered')
    BY DEF GetUnderflow
  <1>2. /\ Loaded(rbuf', position) /\ rbuf'.size = Committed.size + n /\ GetAvail(rbuf') = rbuf'.size
        /\ filepos' = position + rbuf'.size /\ filepos' \in 0 .. FileSize
        /\ Reached(rbuf', filled') /\ (n = 0 => Committed.size <= 1 /\ eof')
        /\ (n # 0 => ~eof') /\ eof' \in BOOLEAN /\ position \in Nat
    BY <1>1, UnderflowReads DEF GetUnderflow
  <1>3. Committed.size \in 0 .. Capacity /\ Capacity \in Nat
    BY CommitsGets, LoadedFacts
  <1>4. CASE n = 0
    <2>1. delivered' = <<>> /\ position' = position
      BY <1>1, <1>2, <1>4
    <2>2. delivered' \in Seq(Nat) /\ InPlace' /\ Len(delivered') <= position'
      BY <1>2, <2>1 DEF InPlace
    <2>3. get' = [GetWindow(rbuf') EXCEPT !.next = @ + 0]
      <3>1. GetWindow(rbuf').next + 0 = GetWindow(rbuf').next
        <4>1. rbuf'.head \in Int
          BY <1>2, LoadedFacts
        <4> QED
          BY <4>1 DEF GetWindow
      <3> QED
        BY <1>1, <1>4, <3>1
    <2>4. position' - 0 = position /\ rbuf'.size - 0 <= 1 /\ 0 <= GetAvail(rbuf')
          /\ filepos' = position' - 0 + rbuf'.size
      BY <1>2, <1>3, <1>4, <2>1
    <2> QED
      BY <1>2, <2>1, <2>2, <2>3, <2>4, WindowReads, 0 \in {0, 1}
  <1>5. CASE n # 0
    <2>1. Front(rbuf', 1) = Bytes(position, 1) /\ rbuf'.size \in Nat /\ rbuf'.size >= 1
      <3>1. rbuf'.size \in Nat /\ rbuf'.size >= 1 /\ 1 \in 0 .. GetAvail(rbuf')
        BY <1>2, <1>3, <1>5
      <3> QED
        BY <1>2, <3>1, LoadedPop
    <2>2. delivered' = Bytes(position, 1) /\ position' = position + 1
      <3>1. Len(Bytes(position, 1)) = 1
        BY <1>2, BytesFacts
      <3> QED
        BY <1>1, <1>5, <2>1, <3>1
    <2>3. /\ delivered' \in Seq(Nat) /\ InPlace' /\ Len(delivered') <= position' /\ position' \in Nat
      BY <1>2, <2>2, Delivers
    <2>4. /\ position' - 1 = position /\ filepos' = position' - 1 + rbuf'.size
          /\ 1 <= GetAvail(rbuf') /\ (1 = 1 => rbuf'.size = 1 \/ rbuf'.size - 1 >= 1)
          /\ ~eof'
      BY <1>2, <1>5, <2>1, <2>2
    <2>5. get' = [GetWindow(rbuf') EXCEPT !.next = @ + 1]
      BY <1>1, <1>5
    <2> QED
      BY <1>2, <2>3, <2>4, <2>5, WindowReads, 1 \in {0, 1}
  <1> QED
    BY <1>4, <1>5

\* A read that commits and sets the window again, and steps over nothing.
LEMMA WindowSimple ==
  ASSUME position' \in Nat, Loaded(rbuf', position'), get' = GetWindow(rbuf'),
         filepos' = position' + rbuf'.size, filepos' \in 0 .. FileSize,
         delivered' \in Seq(Nat), InPlace', Len(delivered') <= position',
         eof' \in BOOLEAN, eof' => rbuf'.size <= 1,
         Reached(rbuf', filled'), delivered' # <<>> => Roomy(rbuf')
  PROVE  ReadInv'
  <1>1. PICK h \in Nat, s \in Nat, a \in Nat, p \in Nat :
            h = rbuf'.head /\ s = rbuf'.size /\ a = GetAvail(rbuf') /\ p = position'
    <2>1. /\ rbuf'.head \in 0 .. (Capacity - 1) /\ rbuf'.size \in 0 .. Capacity
          /\ GetAvail(rbuf') \in 0 .. rbuf'.size /\ Capacity \in Nat
      BY LoadedFacts
    <2>2. rbuf'.head \in Nat /\ rbuf'.size \in Nat /\ GetAvail(rbuf') \in Nat
      BY <2>1
    <2> QED
      BY <2>2
  <1>2. get' = [GetWindow(rbuf') EXCEPT !.next = @ + 0]
    <2>1. h + 0 = h
      OBVIOUS
    <2> QED
      BY <1>1, <2>1 DEF GetWindow
  <1>3. /\ Loaded(rbuf', position' - 0) /\ filepos' = position' - 0 + rbuf'.size
        /\ 0 <= GetAvail(rbuf') /\ (eof' => rbuf'.size - 0 <= 1)
        /\ 0 = 1 => rbuf'.size = 1 \/ rbuf'.size - 1 >= 0
    <2>1. p - 0 = p /\ s - 0 = s /\ 0 <= a
      OBVIOUS
    <2> QED
      BY <1>1, <2>1
  <1> QED
    BY <1>2, <1>3, WindowReads, 0 \in {0, 1}

\* sgetc at the end of the window.
LEMMA PeekReads ==
  ASSUME ReadInv, PeekUnderflow, ~misread'
  PROVE  ReadInv'
  <1>1. PICK n \in 0 .. Capacity : Underflow(Committed, n)
    BY DEF PeekUnderflow
  <1>2. /\ Loaded(rbuf', position) /\ rbuf'.size = Committed.size + n
        /\ filepos' = position + rbuf'.size /\ filepos' \in 0 .. FileSize
        /\ Reached(rbuf', filled') /\ (n = 0 => Committed.size <= 1 /\ eof')
        /\ (n # 0 => ~eof') /\ eof' \in BOOLEAN /\ position \in Nat
    BY <1>1, UnderflowReads DEF PeekUnderflow
  <1>3. Committed.size \in 0 .. Capacity /\ Capacity \in Nat
    BY CommitsGets, LoadedFacts
  <1>4. eof' => rbuf'.size <= 1
    BY <1>2, <1>3
  <1>5. position' = position /\ delivered' = <<>> /\ get' = GetWindow(rbuf')
    BY DEF PeekUnderflow
  <1>6. delivered' \in Seq(Nat) /\ InPlace' /\ Len(delivered') <= position'
    BY <1>2, <1>5 DEF InPlace
  <1> QED
    BY <1>2, <1>4, <1>5, <1>6, WindowSimple

\* What xsgetn drains, in two goes.
DrainedFirst(n) == Drained(Committed, n)
AfterFirst(n) == Pop(Committed, DrainedFirst(n))
DrainedThen(n) == Drained(AfterFirst(n), n - DrainedFirst(n))
AfterBoth(n) == Pop(AfterFirst(n), DrainedThen(n))

\* What xsgetn() drains of the ring, in two goes, is the bytes that come next.
LEMMA DrainsTwice ==
  ASSUME ReadInv, NEW n \in Nat
  PROVE  LET r1 == Committed
             n1 == DrainedFirst(n)
             r2 == AfterFirst(n)
             n2 == DrainedThen(n)
             r3 == AfterBoth(n)
         IN
         /\ n1 \in Nat /\ n2 \in Nat /\ n1 + n2 <= n
         /\ Loaded(r3, position + (n1 + n2))
         /\ Front(r1, n1) \o Front(r2, n2) = Bytes(position, n1 + n2)
         /\ filepos = position + (n1 + n2) + r3.size
         /\ Reached(r3, filled) /\ (n1 + n2 > 0 => Roomy(r3)) /\ r3.size \in 0 .. Capacity
  <1> DEFINE r1 == Committed
             n1 == DrainedFirst(n)
             r2 == AfterFirst(n)
             n2 == DrainedThen(n)
             r3 == AfterBoth(n)
  <1>0. /\ r1 = Committed /\ n1 = Drained(r1, n) /\ r2 = Pop(r1, n1)
        /\ n2 = Drained(r2, n - n1) /\ r3 = Pop(r2, n2)
    BY DEF DrainedFirst, AfterFirst, DrainedThen, AfterBoth
  <1> HIDE DEF r1, n1, r2, n2, r3
  <1>1. /\ Loaded(r1, position) /\ position \in Nat
        /\ filepos = position + r1.size /\ Reached(r1, filled)
    BY <1>0, CommitsGets
  <1>2. PICK s1 \in 0 .. Capacity, a1 \in Nat : s1 = r1.size /\ a1 = GetAvail(r1) /\ a1 <= s1
    BY <1>1, LoadedFacts
  <1>3. Capacity \in Nat
    BY <1>1, LoadedFacts
  <1>4. n1 = IF n < a1 THEN n ELSE a1
    BY <1>0, <1>2 DEF Drained, AtMost
  <1>5. n1 \in Nat /\ n1 <= n /\ n1 \in 0 .. GetAvail(r1) /\ n - n1 \in Nat /\ n1 <= s1
    BY <1>2, <1>4
  <1>6. /\ Loaded(r2, position + n1) /\ r2.size = r1.size - n1
        /\ Front(r1, n1) = Bytes(position, n1)
        /\ n1 > 0 => Roomy(r2)
        /\ Reached(r2, filled)
    <2>1. \A f : Reached(r1, f) => Reached(r2, f)
      BY <1>0, <1>1, <1>5, LoadedPop
    <2> QED
      BY <1>0, <1>1, <1>5, <2>1, LoadedPop
  <1>7. n2 = AtMost(n - n1, GetAvail(r2))
    BY <1>0 DEF Drained
  <1>8. PICK s2 \in 0 .. Capacity, a2 \in Nat :
            s2 = r2.size /\ a2 = GetAvail(r2) /\ a2 <= s2 /\ s2 = s1 - n1
    BY <1>2, <1>6, LoadedFacts
  <1>9. n2 \in Nat /\ n1 + n2 <= n /\ n2 \in 0 .. GetAvail(r2) /\ n2 <= s2
    BY <1>5, <1>7, <1>8 DEF AtMost
  <1>10. /\ Loaded(r3, position + n1 + n2) /\ r3.size = r2.size - n2
         /\ Front(r2, n2) = Bytes(position + n1, n2)
         /\ n2 > 0 => Roomy(r3)
         /\ Roomy(r2) => Roomy(r3)
         /\ Reached(r3, filled)
    <2>1. \A f : Reached(r2, f) => Reached(r3, f)
      BY <1>0, <1>6, <1>9, LoadedPop
    <2> QED
      BY <1>0, <1>6, <1>9, <2>1, LoadedPop
  <1>11. position + n1 + n2 = position + (n1 + n2)
    BY <1>1, <1>5, <1>9
  <1>12. Front(r1, n1) \o Front(r2, n2) = Bytes(position, n1 + n2)
    <2>1. position \in Nat /\ n1 \in Nat /\ n2 \in Nat
      BY <1>1, <1>5, <1>9
    <2>2. Bytes(position, n1) \o Bytes(position + n1, n2) = Bytes(position, n1 + n2)
      BY <2>1, BytesJoin
    <2> QED
      BY <1>6, <1>10, <2>2
  <1>13. filepos = position + (n1 + n2) + r3.size
    <2>1. PICK p \in Nat : p = position
      BY <1>1
    <2>2. r3.size = s1 - n1 - n2 /\ filepos = p + s1
      BY <1>1, <1>2, <1>8, <1>10, <2>1
    <2>3. p + s1 = p + (n1 + n2) + (s1 - n1 - n2)
      BY <1>3, <1>5, <1>9
    <2> QED
      BY <2>1, <2>2, <2>3
  <1>14. n1 + n2 > 0 => Roomy(r3)
    BY <1>5, <1>6, <1>9, <1>10
  <1>15. r3.size \in 0 .. Capacity
    BY <1>10, LoadedFacts
  <1> QED
    BY <1>5, <1>9, <1>10, <1>11, <1>12, <1>13, <1>14, <1>15 DEF r1, n1, r2, n2, r3

\* xsgetn(), from the ring, the file, and the ring again.
LEMMA XsgetnReads ==
  ASSUME ReadInv, NEW n \in 1 .. (Capacity + 1), ReadSome(n), ~misread'
  PROVE  ReadInv'
  <1> DEFINE r1 == Committed
             n1 == DrainedFirst(n)
             r2 == AfterFirst(n)
             n2 == DrainedThen(n)
             r3 == AfterBoth(n)
             d == n1 + n2
             more == n - n1 - n2
             buffered == Front(r1, n1) \o Front(r2, n2)
  <1>1. Capacity \in Nat \ {0} /\ n \in Nat
    BY CapacityAssumption
  <1>2. /\ n1 \in Nat /\ n2 \in Nat /\ n1 + n2 <= n
        /\ Loaded(r3, position + (n1 + n2))
        /\ buffered = Bytes(position, n1 + n2)
        /\ filepos = position + (n1 + n2) + r3.size
        /\ Reached(r3, filled) /\ (n1 + n2 > 0 => Roomy(r3)) /\ r3.size \in 0 .. Capacity
    BY <1>1, DrainsTwice
  <1>3. /\ \/ /\ more = 0
              /\ rbuf' = r3
              /\ delivered' = buffered
              /\ eof' = FALSE
              /\ UNCHANGED <<filepos, filled>>
           \/ /\ more >= Capacity
              /\ \E ct \in Given(more) :
                    /\ delivered' = buffered \o FromFile(ct)
                    /\ filepos' = filepos + ct
                    /\ eof' = (ct = 0)
              /\ rbuf' = r3
              /\ misread' = (misread \/ r3.size > 0)
              /\ UNCHANGED filled
           \/ /\ more > 0 /\ more < Capacity
              /\ \E ct \in Given(PutAvail(r3)) :
                    LET r4 == Refilled(r3, ct)
                        n4 == IF ct = 0 THEN 0 ELSE Drained(r4, more)
                    IN /\ rbuf' = IF ct = 0 THEN r3 ELSE Pop(r4, n4)
                       /\ delivered' = buffered \o Front(r4, n4)
                       /\ filepos' = filepos + ct
                       /\ filled' = Added(r3, ct)
                       /\ eof' = (ct = 0)
              /\ misread' = (misread \/ r3.size > 0)
        /\ get' = GetWindow(rbuf')
        /\ position' = position + Len(delivered')
    BY DEF ReadSome, DrainedFirst, AfterFirst, DrainedThen, AfterBoth
  <1>4. position \in Nat /\ filepos \in 0 .. FileSize /\ FileSize \in Nat
    BY LimitsAssumption DEF ReadInv
  <1>5. d \in Nat /\ position + d \in Nat /\ Bytes(position, d) = buffered /\ d <= n
        /\ Len(Bytes(position, d)) = d /\ more = n - d
    <2> HIDE DEF n1, n2, buffered
    <2>1. n1 + n2 \in Nat /\ n - n1 - n2 = n - (n1 + n2)
      BY <1>1, <1>2
    <2> QED
      BY <1>2, <1>4, <2>1, BytesFacts
  <1>6. /\ Loaded(r3, position + d) /\ filepos = position + d + r3.size
        /\ Reached(r3, filled) /\ (d > 0 => Roomy(r3)) /\ r3.size \in 0 .. Capacity
    BY <1>2
  <1> HIDE DEF r1, n1, r2, n2, r3, d, more, buffered
  <1>7. CASE more = 0 /\ rbuf' = r3 /\ delivered' = buffered /\ eof' = FALSE
             /\ filepos' = filepos /\ filled' = filled
    <2>1. delivered' = Bytes(position, d) /\ position' = position + d
      BY <1>3, <1>5, <1>7
    <2>2. /\ delivered' \in Seq(Nat) /\ InPlace' /\ Len(delivered') <= position' /\ position' \in Nat
          /\ (delivered' # <<>> <=> d > 0)
      BY <1>4, <1>5, <2>1, Delivers
    <2> QED
      BY <1>3, <1>4, <1>6, <1>7, <2>1, <2>2, WindowSimple
  <1>8. ASSUME more >= Capacity, NEW ct \in Given(more), delivered' = buffered \o FromFile(ct),
               filepos' = filepos + ct, eof' = (ct = 0), rbuf' = r3, ~(r3.size > 0),
               filled' = filled
        PROVE  ReadInv'
    <2>1. r3.size = 0
      BY <1>1, <1>6, <1>8
    <2>2. ct \in Nat /\ filepos + ct <= FileSize
      <3>1. PICK p \in Nat : p = filepos /\ p <= FileSize
        BY <1>4
      <3>2. more \in Nat
        BY <1>1, <1>5
      <3>3. ct \in 0 .. AtMost(more, FileSize - p)
        BY <3>1 DEF Given
      <3> QED
        BY <1>4, <3>1, <3>2, <3>3 DEF AtMost
    <2>3. filepos = position + d
      BY <1>5, <1>6, <2>1
    <2>4. FromFile(ct) = Bytes(position + d, ct)
      BY <2>3 DEF FromFile, Bytes
    <2>5. delivered' = Bytes(position, d + ct) /\ d + ct \in Nat
      <3>1. position \in Nat /\ d \in Nat /\ ct \in Nat
        BY <1>4, <1>5, <2>2
      <3>2. PICK p \in Nat, a \in Nat, c \in Nat : p = position /\ a = d /\ c = ct
        BY <3>1
      <3>3. Bytes(p, a) \o Bytes(p + a, c) = Bytes(p, a + c)
        BY BytesJoin
      <3>4. a + c \in Nat
        OBVIOUS
      <3> QED
        BY <1>5, <1>8, <2>4, <3>2, <3>3, <3>4
    <2>6. position' = position + (d + ct)
      BY <1>3, <1>4, <2>5, BytesFacts
    <2>7. /\ delivered' \in Seq(Nat) /\ InPlace' /\ Len(delivered') <= position' /\ position' \in Nat
      BY <1>4, <2>5, <2>6, Delivers
    <2>8. RingShape(r3) /\ Holds(r3, position + d)
      BY <1>6, LoadedFacts
    <2>9. r3.head = 0 /\ r3.tail = 0 /\ r3.head + r3.size = r3.tail
      BY <2>1, <2>8 DEF RingShape
    <2>10. Loaded(rbuf', position')
      <3>1. Holds(r3, position')
        BY <2>1, <2>8 DEF Holds
      <3> QED
        BY <1>8, <2>7, <2>9, <3>1 DEF Loaded
    <2>11. /\ filepos' = position' + rbuf'.size /\ filepos' \in 0 .. FileSize
      <3>1. position + d + ct = position + (d + ct) /\ position + (d + ct) + 0 = position + (d + ct)
        BY <1>4, <1>5, <2>2
      <3> QED
        BY <1>4, <1>8, <2>1, <2>2, <2>3, <2>6, <3>1
    <2>12. Roomy(rbuf') /\ rbuf'.size <= 1 /\ eof' \in BOOLEAN
      BY <1>8, <2>1 DEF Roomy
    <2> QED
      BY <1>3, <1>6, <1>8, <2>7, <2>10, <2>11, <2>12, WindowSimple
  <1>9. ASSUME more > 0, more < Capacity, NEW ct \in Given(PutAvail(r3)), NEW r4, r4 = Refilled(r3, ct),
               NEW n4, n4 = IF ct = 0 THEN 0 ELSE Drained(r4, more),
               rbuf' = IF ct = 0 THEN r3 ELSE Pop(r4, n4), delivered' = buffered \o Front(r4, n4),
               filepos' = filepos + ct, filled' = Added(r3, ct), eof' = (ct = 0), ~(r3.size > 0)
        PROVE  ReadInv'
    <2>1. r3.size = 0
      BY <1>1, <1>6, <1>9
    <2>2. /\ RingShape(r3) /\ Holds(r3, position + d) /\ PutAvail(r3) \in 1 .. Capacity
      BY <1>6, LoadedFacts, RangeFacts
    <2>3. r3.head = 0 /\ r3.tail = 0 /\ r3.tail = r3.head + r3.size /\ ~Overlaps(r3)
      BY <2>1, <2>2 DEF RingShape, Overlaps
    <2>4. ct \in Nat /\ filepos + ct <= FileSize /\ ct \in 0 .. PutAvail(r3)
      <3>1. PICK p \in Nat, a \in Nat : p = filepos /\ p <= FileSize /\ a = PutAvail(r3)
        BY <1>4, <2>2
      <3>2. ct \in 0 .. AtMost(a, FileSize - p)
        BY <3>1 DEF Given
      <3> QED
        BY <1>4, <3>1, <3>2 DEF AtMost
    <2>5. /\ Loaded(r4, position + d) /\ r4.size = ct /\ r4.head = 0 /\ r4.tail = ct
      <3>1. /\ Loaded(r4, position + d) /\ r4.size = r3.size + ct
            /\ r4.head = r3.head /\ r4.tail = r3.tail + ct
        BY <1>6, <1>9, <2>3, <2>4, LoadedFill
      <3> QED
        BY <2>1, <2>3, <2>4, <3>1
    <2>6. GetAvail(r4) = ct
      BY <2>4, <2>5 DEF GetAvail, GetEnd
    <2>7. n4 = IF ct = 0 THEN 0 ELSE IF more < ct THEN more ELSE ct
      BY <1>9, <2>6 DEF Drained, AtMost
    <2>8. /\ n4 \in Nat /\ n4 \in 0 .. GetAvail(r4) /\ n4 <= ct
          /\ ct # 0 => n4 > 0
      <3>1. more \in Nat
        BY <1>1, <1>5
      <3> QED
        BY <1>9, <2>4, <2>6, <2>7, <3>1
    <2>9. /\ Loaded(Pop(r4, n4), position + d + n4) /\ Pop(r4, n4).size = ct - n4
          /\ Front(r4, n4) = Bytes(position + d, n4)
          /\ n4 > 0 => Roomy(Pop(r4, n4))
          /\ \A f : Reached(r4, f) => Reached(Pop(r4, n4), f)
      BY <2>5, <2>8, LoadedPop
    <2>10. delivered' = Bytes(position, d + n4) /\ d + n4 \in Nat
      <3>1. position \in Nat /\ d \in Nat /\ n4 \in Nat
        BY <1>4, <1>5, <2>8
      <3>2. PICK p \in Nat, a \in Nat, c \in Nat : p = position /\ a = d /\ c = n4
        BY <3>1
      <3>3. Bytes(p, a) \o Bytes(p + a, c) = Bytes(p, a + c)
        BY BytesJoin
      <3>4. a + c \in Nat
        OBVIOUS
      <3> QED
        BY <1>5, <1>9, <2>9, <3>2, <3>3, <3>4
    <2>11. position' = position + (d + n4)
      BY <1>3, <1>4, <2>10, BytesFacts
    <2>12. /\ delivered' \in Seq(Nat) /\ InPlace' /\ Len(delivered') <= position' /\ position' \in Nat
      BY <1>4, <2>10, <2>11, Delivers
    <2>13. filepos' \in 0 .. FileSize /\ filepos = position + d
      BY <1>4, <1>5, <1>6, <1>9, <2>1, <2>4
    <2>14. Capacity \in Nat /\ ct <= Capacity /\ filled' = ct
      <3>1. ct <= Capacity
        BY <1>1, <2>2, <2>4
      <3>2. filled' = AtMost(Capacity, 0 + ct)
        BY <1>9, <2>1 DEF Added
      <3> QED
        BY <1>1, <2>4, <3>1, <3>2 DEF AtMost
    <2>15. CASE ct = 0
      <3>1. n4 = 0 /\ position' = position + d /\ rbuf' = r3 /\ filepos' = position' + rbuf'.size
        BY <1>4, <1>5, <1>9, <2>1, <2>7, <2>11, <2>13, <2>15
      <3>2. Reached(rbuf', filled') /\ Roomy(rbuf') /\ rbuf'.size <= 1 /\ eof' \in BOOLEAN
        BY <1>9, <2>1, <2>3, <2>14, <2>15, <3>1 DEF Reached, Roomy
      <3> QED
        BY <1>3, <1>6, <2>12, <2>13, <3>1, <3>2, WindowSimple
    <2>16. CASE ct # 0
      <3>1. rbuf' = Pop(r4, n4) /\ n4 > 0 /\ eof' = FALSE
        BY <1>9, <2>4, <2>8, <2>16
      <3>2. position + d + n4 = position' /\ filepos' = position' + (ct - n4)
        <4>1. PICK p \in Nat, a \in Nat, b \in Nat, c \in Nat :
                  p = position /\ a = d /\ b = n4 /\ c = ct
          BY <1>4, <1>5, <2>4, <2>8
        <4>2. position' = p + (a + b) /\ filepos' = p + a + c
          BY <1>9, <2>11, <2>13, <4>1
        <4>3. p + a + b = p + (a + b) /\ p + a + c = p + (a + b) + (c - b)
          OBVIOUS
        <4> QED
          BY <4>1, <4>2, <4>3
      <3>3. Reached(r4, filled')
        BY <2>4, <2>5, <2>14, <2>16 DEF Reached
      <3> QED
        BY <1>3, <2>9, <2>12, <2>13, <3>1, <3>2, <3>3, WindowSimple
    <2> QED
      BY <2>15, <2>16
  <1>10. CASE /\ more >= Capacity
              /\ \E ct \in Given(more) :
                    /\ delivered' = buffered \o FromFile(ct)
                    /\ filepos' = filepos + ct
                    /\ eof' = (ct = 0)
              /\ rbuf' = r3
              /\ misread' = (misread \/ r3.size > 0)
              /\ UNCHANGED filled
    <2>1. PICK ct \in Given(more) : /\ delivered' = buffered \o FromFile(ct)
                                    /\ filepos' = filepos + ct
                                    /\ eof' = (ct = 0)
      BY <1>10
    <2>2. rbuf' = r3 /\ ~(r3.size > 0) /\ filled' = filled /\ more >= Capacity
      BY <1>10
    <2> QED
      BY <1>8, <2>1, <2>2
  <1>11. CASE /\ more > 0 /\ more < Capacity
              /\ \E ct \in Given(PutAvail(r3)) :
                    LET r4 == Refilled(r3, ct)
                        n4 == IF ct = 0 THEN 0 ELSE Drained(r4, more)
                    IN /\ rbuf' = IF ct = 0 THEN r3 ELSE Pop(r4, n4)
                       /\ delivered' = buffered \o Front(r4, n4)
                       /\ filepos' = filepos + ct
                       /\ filled' = Added(r3, ct)
                       /\ eof' = (ct = 0)
              /\ misread' = (misread \/ r3.size > 0)
    <2>1. PICK ct \in Given(PutAvail(r3)) :
                    LET r4 == Refilled(r3, ct)
                        n4 == IF ct = 0 THEN 0 ELSE Drained(r4, more)
                    IN /\ rbuf' = IF ct = 0 THEN r3 ELSE Pop(r4, n4)
                       /\ delivered' = buffered \o Front(r4, n4)
                       /\ filepos' = filepos + ct
                       /\ filled' = Added(r3, ct)
                       /\ eof' = (ct = 0)
      BY <1>11
    <2>2. ~(r3.size > 0) /\ more > 0 /\ more < Capacity
      BY <1>11
    <2> DEFINE r4 == Refilled(r3, ct)
               n4 == IF ct = 0 THEN 0 ELSE Drained(r4, more)
    <2>3. r4 = Refilled(r3, ct) /\ n4 = IF ct = 0 THEN 0 ELSE Drained(r4, more)
      OBVIOUS
    <2>4. /\ rbuf' = IF ct = 0 THEN r3 ELSE Pop(r4, n4)
          /\ delivered' = buffered \o Front(r4, n4)
          /\ filepos' = filepos + ct
          /\ filled' = Added(r3, ct)
          /\ eof' = (ct = 0)
      BY <2>1
    <2> HIDE DEF r4, n4
    <2> QED
      BY <1>9, <2>2, <2>3, <2>4
  <1> QED
    BY <1>3, <1>7, <1>10, <1>11

\* The file throws: what the guard committed, and what xsgetn drained, are gone from the ring.
LEMMA ThrowsReads ==
  ASSUME ReadInv, ReadThrows
  PROVE  ReadInv'
  <1>1. /\ get' = GetWindow(rbuf') /\ position' = position + Len(delivered') /\ eof' = FALSE
        /\ filepos' = filepos /\ filled' = filled
    BY DEF ReadThrows
  <1>2. /\ Loaded(Committed, position) /\ position \in Nat /\ filepos = position + Committed.size
        /\ filepos \in 0 .. FileSize /\ Reached(Committed, filled)
    BY CommitsGets
  <1>3. CASE UnderflowFails
    <2>1. rbuf' = Committed /\ delivered' = <<>>
      BY <1>3 DEF UnderflowFails
    <2>2. position' = position
      BY <1>1, <1>2, <2>1
    <2>3. delivered' \in Seq(Nat) /\ InPlace' /\ Len(delivered') <= position'
      BY <1>2, <2>1, <2>2 DEF InPlace
    <2> QED
      BY <1>1, <1>2, <2>1, <2>2, <2>3, WindowSimple
  <1>4. ASSUME NEW n \in 1 .. (Capacity + 1), ReadFails(n)
        PROVE  ReadInv'
    <2>1. n \in Nat
      BY CapacityAssumption
    <2> DEFINE n1 == DrainedFirst(n)
               n2 == DrainedThen(n)
               r3 == AfterBoth(n)
               d == n1 + n2
    <2>2. /\ n1 \in Nat /\ n2 \in Nat
          /\ Loaded(r3, position + (n1 + n2))
          /\ Front(Committed, n1) \o Front(AfterFirst(n), n2) = Bytes(position, n1 + n2)
          /\ filepos = position + (n1 + n2) + r3.size
          /\ Reached(r3, filled) /\ (n1 + n2 > 0 => Roomy(r3))
      BY <2>1, DrainsTwice
    <2>3. rbuf' = r3 /\ delivered' = Front(Committed, n1) \o Front(AfterFirst(n), n2)
      BY <1>4 DEF ReadFails, DrainedFirst, AfterFirst, DrainedThen, AfterBoth
    <2> HIDE DEF n1, n2, r3
    <2>4. d \in Nat /\ delivered' = Bytes(position, d)
      BY <2>2, <2>3
    <2> HIDE DEF d
    <2>5. Len(Bytes(position, d)) = d
      BY <1>2, <2>4, BytesFacts
    <2>6. position' = position + d
      BY <1>1, <2>4, <2>5
    <2>7. /\ delivered' \in Seq(Nat) /\ InPlace' /\ Len(delivered') <= position' /\ position' \in Nat
          /\ (delivered' # <<>> <=> d > 0)
      BY <1>2, <2>4, <2>6, Delivers
    <2>8. Loaded(rbuf', position') /\ filepos' = position' + rbuf'.size /\ Reached(rbuf', filled')
          /\ (delivered' # <<>> => Roomy(rbuf'))
      BY <1>1, <2>2, <2>3, <2>6, <2>7 DEF d
    <2> QED
      BY <1>1, <1>2, <2>7, <2>8, WindowSimple
  <1> QED
    BY <1>3, <1>4 DEF ReadThrows

\* A byte is put back before the head of the ring, which may step back over the start of the
\* array only when the ring was empty.
LEMMA PutBackFailReads ==
  ASSUME ReadInv, PutBackFail
  PROVE  ReadInv'
  <1>1. /\ position > 0 /\ delivered # <<>> /\ get.next = get.begin
        /\ get' = GetWindow(rbuf') /\ delivered' = <<>> /\ eof' = FALSE /\ filepos' = filepos
    BY DEF PutBackFail
  <1>2. /\ position \in Nat /\ Loaded(rbuf, position - Getting) /\ get \in Windows
        /\ filepos \in 0 .. FileSize /\ filepos = position - Getting + rbuf.size
        /\ delivered \in Seq(Nat) /\ InPlace /\ Reached(rbuf, filled)
        /\ (delivered # <<>> /\ Getting = 0 => Roomy(rbuf))
    BY DEF ReadInv
  <1>3. Getting = 0
    BY <1>1, <1>2 DEF Getting, Windows
  <1>4. PICK p \in Nat : p = position /\ p > 0
    BY <1>1, <1>2
  <1>5. p - 0 = p
    OBVIOUS
  <1>6. Loaded(rbuf, p) /\ filepos = p + rbuf.size /\ Roomy(rbuf)
    BY <1>1, <1>2, <1>3, <1>4, <1>5
  <1>7. CASE Full(rbuf)
    <2>1. rbuf' = rbuf /\ position' = p /\ filled' = filled
      BY <1>4, <1>7 DEF PutBackFail
    <2>2. delivered' \in Seq(Nat) /\ InPlace' /\ Len(delivered') <= position'
      BY <1>1, <2>1 DEF InPlace
    <2> QED
      BY <1>1, <1>2, <1>6, <2>1, <2>2, WindowSimple
  <1>8. CASE ~Full(rbuf)
    <2> DEFINE b == delivered[Len(delivered)]
               r == Unpop(rbuf)
    <2>1. /\ rbuf' = [r EXCEPT !.cell[r.head] = b] /\ position' = position - 1
          /\ filled' = Added(rbuf, 1)
      BY <1>8 DEF PutBackFail
    <2>2. b = p
      <3>1. PICK l \in Nat : l = Len(delivered) /\ l > 0 /\ DOMAIN delivered = 1 .. l
        BY <1>1, <1>2
      <3>2. delivered[l] = position - l + l
        BY <1>2, <3>1 DEF InPlace
      <3>3. p - l + l = p
        OBVIOUS
      <3> QED
        BY <1>4, <3>1, <3>2, <3>3
    <2> HIDE DEF b
    <2>3. /\ Holds(rbuf, p) /\ RingShape(rbuf) /\ rbuf.capacity = Capacity
          /\ Capacity \in Nat \ {0} /\ rbuf.size \in 0 .. Capacity
          /\ rbuf.head \in 0 .. (Capacity - 1) /\ rbuf.tail \in 0 .. Capacity /\ rbuf.cell \in Cells
          /\ rbuf.tail = rbuf.head + rbuf.size \/ (rbuf.size = 1 /\ rbuf.head = Capacity - 1 /\ rbuf.tail = 0)
      BY <1>6, LoadedFacts DEF Loaded
    <2>4. PICK C \in Nat, s \in Nat, h \in Nat, t \in Nat :
              C = Capacity /\ s = rbuf.size /\ h = rbuf.head /\ t = rbuf.tail
      BY <2>3
    <2>5. /\ C > 0 /\ h < C /\ t <= C /\ s < C
          /\ s = 0 => h = 0 /\ t = 0
          /\ s > 0 => h > 0 /\ t > 0
          /\ t = h + s \/ (s = 1 /\ h = C - 1 /\ t = 0)
      BY <1>6, <1>8, <2>3, <2>4 DEF Full, Roomy, RingShape
    <2>6. PICK hh \in Nat : hh = IF h = 0 THEN C - 1 ELSE h - 1
      BY <2>5
    <2>7. PICK c \in Cells : c = [rbuf.cell EXCEPT ![hh] = p]
      <3>1. hh \in 0 .. (Capacity - 1)
        BY <2>4, <2>5, <2>6
      <3> QED
        BY <2>3, <3>1 DEF Cells
    <2>8. rbuf' = [capacity |-> Capacity, size |-> s + 1, head |-> hh, tail |-> t, cell |-> c]
      <3>1. rbuf = [capacity |-> Capacity, size |-> s, head |-> h, tail |-> t, cell |-> rbuf.cell]
        BY <2>3, <2>4 DEF RingShape, Rings
      <3>2. r = [capacity |-> Capacity, size |-> s + 1, head |-> hh, tail |-> t, cell |-> rbuf.cell]
        <4>1. r = [rbuf EXCEPT !.size = @ + 1, !.head = IF @ = 0 THEN Capacity - 1 ELSE @ - 1]
          BY <2>3 DEF Unpop
        <4>2. (IF rbuf.head = 0 THEN Capacity - 1 ELSE rbuf.head - 1) = hh
          BY <2>4, <2>6
        <4> HIDE DEF r
        <4>3. r = [capacity |-> rbuf.capacity, size |-> rbuf.size + 1,
                   head |-> IF rbuf.head = 0 THEN Capacity - 1 ELSE rbuf.head - 1,
                   tail |-> rbuf.tail, cell |-> rbuf.cell]
          BY <3>1, <4>1
        <4> QED
          BY <2>3, <2>4, <4>2, <4>3
      <3> QED
        <4>1. rbuf' = [r EXCEPT !.cell[hh] = p]
          BY <2>1, <2>2, <3>2
        <4> HIDE DEF r
        <4> QED
          BY <2>7, <3>2, <4>1
    <2>9. /\ rbuf'.size = s + 1 /\ rbuf'.head = hh /\ rbuf'.tail = t /\ rbuf'.cell = c
          /\ rbuf' \in Rings
      BY <2>4, <2>5, <2>6, <2>8 DEF Rings
    <2>10. /\ s > 0 => hh = h - 1 /\ t = h + s
           /\ s = 0 => hh = C - 1 /\ t = 0
      BY <2>5, <2>6
    <2>11. t = hh + (s + 1) \/ (s + 1 = 1 /\ hh = C - 1 /\ t = 0)
      BY <2>5, <2>10
    <2>12. RingShape(rbuf')
      <3>1. rbuf'.tail = rbuf'.head + rbuf'.size \/ rbuf'.tail = rbuf'.head + rbuf'.size - Capacity
        <4>1. t = hh + (s + 1) \/ t = hh + (s + 1) - C
          BY <2>11
        <4> QED
          BY <2>4, <2>9, <4>1
      <3>2. rbuf'.size # 0
        BY <2>9
      <3> QED
        BY <2>9, <3>1, <3>2 DEF RingShape
    <2>13. \A j \in 0 .. (rbuf'.size - 1) : rbuf'.cell[Place(rbuf', j)] = (p - 1) + j + 1
      <3> TAKE j \in 0 .. (rbuf'.size - 1)
      <3>1. j \in 0 .. s /\ j \in Nat
        BY <2>9
      <3>2. CASE j = 0
        <4>1. PlaceFrom(hh, j) = hh
          BY <2>4, <2>5, <2>6, <3>2 DEF PlaceFrom
        <4>2. Place(rbuf', j) = hh
          BY <2>9, <4>1 DEF Place
        <4>3. c[hh] = p
          <5>1. hh \in 0 .. (Capacity - 1)
            BY <2>4, <2>5, <2>6
          <5> QED
            BY <2>3, <2>7, <5>1 DEF Cells
        <4>4. (p - 1) + j + 1 = p
          BY <3>2
        <4> QED
          BY <2>9, <4>2, <4>3, <4>4
      <3>3. CASE j > 0
        <4>1. s > 0 /\ hh = h - 1 /\ t = h + s
          BY <2>10, <3>1, <3>3
        <4>2. PICK i \in Nat : i = j - 1 /\ i < s
          BY <3>1, <3>3
        <4>3. h + i < C /\ hh + j = h + i
          BY <2>5, <4>1, <4>2
        <4>4. PlaceFrom(hh, j) = h + i /\ PlaceFrom(h, i) = h + i
          BY <2>4, <4>3 DEF PlaceFrom
        <4>5. rbuf.cell[h + i] = p + i + 1
          <5>1. i \in 0 .. (rbuf.size - 1) /\ Place(rbuf, i) = h + i
            BY <2>4, <4>2, <4>4 DEF Place
          <5> QED
            BY <2>3, <5>1 DEF Holds
        <4>6. c[h + i] = rbuf.cell[h + i]
          <5>1. h + i \in 0 .. (Capacity - 1) /\ h + i # hh
            BY <2>4, <4>1, <4>3
          <5> QED
            BY <2>3, <2>7, <5>1 DEF Cells
        <4>7. p + i + 1 = (p - 1) + j + 1
          BY <4>2
        <4> QED
          BY <2>9, <4>4, <4>5, <4>6, <4>7 DEF Place
      <3> QED
        BY <3>1, <3>2, <3>3
    <2>14. position' \in Nat /\ position' = p - 1
      BY <1>4, <2>1
    <2>15. Loaded(rbuf', position')
      <3>1. rbuf'.tail = rbuf'.head + rbuf'.size
             \/ (rbuf'.size = 1 /\ rbuf'.head = Capacity - 1 /\ rbuf'.tail = 0)
        BY <2>4, <2>9, <2>11
      <3>2. Holds(rbuf', position')
        BY <2>12, <2>13, <2>14 DEF Holds
      <3> QED
        BY <2>14, <3>1, <3>2 DEF Loaded
    <2>16. filepos' = position' + rbuf'.size
      <3>1. p + s = (p - 1) + (s + 1)
        OBVIOUS
      <3> QED
        BY <1>1, <1>6, <2>4, <2>9, <2>14, <3>1
    <2>17. Reached(rbuf', filled')
      <3>1. PICK f \in Nat : f = filled /\ f <= C /\ t <= f /\ (t = 0 /\ s > 0 => f > 0)
        BY <1>2, <2>4 DEF Reached
      <3>2. filled' = AtMost(C, (IF s = 0 THEN 0 ELSE f) + 1)
        BY <2>1, <2>4, <3>1 DEF Added
      <3>3. PICK g \in Nat : g = filled' /\ g <= C /\ t <= g /\ g > 0
        BY <2>5, <3>1, <3>2 DEF AtMost
      <3> QED
        BY <2>4, <2>9, <3>3 DEF Reached
    <2>18. delivered' \in Seq(Nat) /\ InPlace' /\ Len(delivered') <= position'
      BY <1>1, <2>14 DEF InPlace
    <2> QED
      BY <1>1, <1>2, <2>14, <2>15, <2>16, <2>17, <2>18, WindowSimple
  <1> QED
    BY <1>7, <1>8

\* seekoff() empties the ring.
LEMMA SeekReads ==
  ASSUME ReadInv, NEW pos \in 0 .. FileSize, Seek(pos)
  PROVE  ReadInv'
  <1>1. /\ rbuf' = Clear(rbuf) /\ get' = GetWindow(rbuf') /\ filepos' = pos /\ position' = pos
        /\ delivered' = <<>> /\ eof' = FALSE /\ filled' = 0
    BY DEF Seek
  <1>2. pos \in Nat
    BY LimitsAssumption
  <1>3. rbuf' = Buf(Capacity)
    <2>1. Loaded(rbuf, position - Getting)
      BY DEF ReadInv
    <2> QED
      BY <1>1, <2>1, LoadedFacts DEF Clear
  <1>4. Holds(rbuf', pos) /\ rbuf'.size = 0 /\ rbuf'.head = 0 /\ rbuf'.tail = 0
    BY <1>2, <1>3, EmptyHolds
  <1>5. Loaded(rbuf', position') /\ position' \in Nat
    BY <1>1, <1>2, <1>4 DEF Loaded
  <1>6. filepos' = position' + rbuf'.size
    BY <1>1, <1>2, <1>4
  <1>7. Reached(rbuf', filled')
    BY <1>1, <1>4, CapacityAssumption DEF Reached
  <1>8. delivered' \in Seq(Nat) /\ InPlace' /\ Len(delivered') <= position'
    BY <1>1, <1>2 DEF InPlace
  <1> QED
    BY <1>1, <1>5, <1>6, <1>7, <1>8, WindowSimple

\* A step of the writer.
LEMMA ReadStays ==
  ASSUME ReadInv, UNCHANGED getVars
  PROVE  ReadInv'
  BY DEF ReadInv, getVars, Getting, InPlace

\* At first nothing was read.
LEMMA ReadInitial ==
  ASSUME Init
  PROVE  ReadInv
  <1>1. /\ rbuf = Buf(Capacity) /\ get = GetWindow(rbuf) /\ filepos = 0 /\ position = 0
        /\ delivered = <<>> /\ eof = FALSE /\ filled = 0
    BY DEF Init
  <1>2. Holds(rbuf, 0) /\ rbuf.size = 0 /\ rbuf.head = 0 /\ rbuf.tail = 0
    BY <1>1, EmptyHolds
  <1>3. GetEnd(rbuf) = 0
    BY <1>2 DEF GetEnd
  <1>4. get = [begin |-> 0, next |-> 0, end |-> 0]
    BY <1>1, <1>2, <1>3 DEF GetWindow
  <1>5. Getting = 0 /\ get \in Windows
    BY <1>4, CapacityAssumption DEF Getting, Windows
  <1>6. Loaded(rbuf, position - Getting)
    BY <1>1, <1>2, <1>5 DEF Loaded
  <1>7. Reached(rbuf, filled) /\ FileSize \in Nat
    BY <1>1, <1>2, CapacityAssumption, LimitsAssumption DEF Reached
  <1>8. get.begin = rbuf.head /\ get.end = GetWindow(rbuf).end /\ get.begin <= get.next /\ get.next <= get.end
    BY <1>1, <1>2, <1>4
  <1>9. filepos \in 0 .. FileSize /\ filepos = position - Getting + rbuf.size
    BY <1>1, <1>2, <1>5, <1>7
  <1>10. delivered \in Seq(Nat) /\ InPlace /\ Len(delivered) <= position
    BY <1>1 DEF InPlace
  <1>11. position \in Nat /\ eof = FALSE /\ delivered = <<>>
    BY <1>1
  <1> QED
    BY <1>5, <1>6, <1>7, <1>8, <1>9, <1>10, <1>11 DEF ReadInv

\* A new stream satisfies the invariant.
LEMMA StreamInitial ==
  ASSUME Init
  PROVE  StreamInv
  BY WriteInitial, ReadInitial DEF StreamInv, Init

\* A step of the stream leaves what it has done wrong on record.
LEMMA WrongStays ==
  ASSUME StreamInv, [Next]_vars
  PROVE  /\ misread' \in BOOLEAN /\ miswrote' \in BOOLEAN
         /\ ~misread' => ~misread
         /\ ~miswrote' => ~miswrote
  <1>1. misread \in BOOLEAN /\ miswrote \in BOOLEAN
    BY DEF StreamInv
  <1>2. CASE Write
    <2>1. CASE PutBuffered
      BY <1>1, <2>1 DEF PutBuffered, getVars
    <2>2. CASE PutOverflow
      BY <1>1, <2>2 DEF PutOverflow, getVars
    <2>3. CASE \E n \in 1 .. (PutLimit - sent) : WriteSome(n)
      BY <1>1, <2>3 DEF WriteSome, getVars
    <2>4. CASE Sync
      BY <1>1, <2>4 DEF Sync, DrainWriteBuffer, getVars
    <2> QED
      BY <1>2, <2>1, <2>2, <2>3, <2>4 DEF Write
  <1>3. CASE Read
    <2>1. CASE GetBuffered
      BY <1>1, <2>1 DEF GetBuffered, putVars
    <2>2. CASE GetUnderflow
      BY <1>1, <2>2 DEF GetUnderflow, Underflow, ForgetPuts
    <2>3. CASE PeekUnderflow
      BY <1>1, <2>3 DEF PeekUnderflow, Underflow, ForgetPuts
    <2>4. CASE PutBackBuffered
      BY <1>1, <2>4 DEF PutBackBuffered, putVars
    <2>5. CASE PutBackFail
      BY <1>1, <2>5 DEF PutBackFail, ForgetPuts
    <2>6. CASE \E n \in 1 .. (Capacity + 1) : ReadSome(n)
      <3>1. PICK n \in 1 .. (Capacity + 1) : ReadSome(n)
        BY <2>6
      <3>2. miswrote' = miswrote
        BY <3>1 DEF ReadSome, ForgetPuts
      <3>3. (\E x \in BOOLEAN : misread' = (misread \/ x)) \/ misread' = misread
        BY <3>1 DEF ReadSome
      <3> QED
        BY <1>1, <3>2, <3>3
    <2>7. CASE ReadThrows
      BY <1>1, <2>7 DEF ReadThrows, ForgetPuts
    <2> QED
      BY <1>3, <2>1, <2>2, <2>3, <2>4, <2>5, <2>6, <2>7 DEF Read
  <1>4. CASE (\E pos \in SeekPositions : Seek(pos)) \/ SeekFails
    BY <1>1, <1>4 DEF SeekFails, Seek, DrainWriteBuffer
  <1>5. CASE UNCHANGED vars
    BY <1>1, <1>5 DEF vars
  <1> QED
    BY <1>2, <1>3, <1>4, <1>5 DEF Next

\* The writer's half of the invariant is kept unless a step writes over bytes.  A reader that
\* flushes first forgets no puts.
LEMMA WriteSteps ==
  ASSUME WriteInv, [Next]_vars, ~miswrote'
  PROVE  WriteInv'
  <1>1. CASE Write
    <2>1. CASE sent < PutLimit /\ PutBuffered
      BY <2>1, SputcWrites
    <2>2. CASE sent < PutLimit /\ PutOverflow
      BY <2>2, OverflowWrites
    <2>3. CASE \E n \in 1 .. (PutLimit - sent) : WriteSome(n)
      BY <2>3, XsputnWrites
    <2>4. CASE Sync
      BY <2>4, DrainWrites DEF Sync
    <2> QED
      BY <1>1, <2>1, <2>2, <2>3, <2>4 DEF Write
  <1>2. CASE Flushed /\ Read
    <2>1. UNCHANGED putVars \/ ForgetPuts
      BY <1>2 DEF Read, GetBuffered, GetUnderflow, PeekUnderflow, PutBackBuffered, PutBackFail,
                  ReadSome, ReadThrows, putVars
    <2>2. UNCHANGED putVars
      BY <1>2, <2>1, FlushedForgets
    <2> QED
      BY <2>2, WriteStays
  <1>3. CASE (\E pos \in SeekPositions : Seek(pos)) \/ SeekFails
    BY <1>3, DrainWrites DEF SeekFails, Seek
  <1>4. CASE UNCHANGED vars
    BY <1>4, WriteStays DEF vars, putVars
  <1> QED
    BY <1>1, <1>2, <1>3, <1>4 DEF Next

\* The reader's half of the invariant is kept unless a step uses a wrong range.
LEMMA ReadSteps ==
  ASSUME ReadInv, [Next]_vars, ~misread'
  PROVE  ReadInv'
  <1>1. CASE Write
    <2>1. UNCHANGED getVars
      BY <1>1 DEF Write, PutBuffered, PutOverflow, WriteSome, Sync
    <2> QED
      BY <2>1, ReadStays
  <1>2. CASE Read
    <2>1. CASE GetBuffered
      BY <2>1, SgetcReads
    <2>2. CASE GetUnderflow
      BY <2>2, UflowReads
    <2>3. CASE PeekUnderflow
      BY <2>3, PeekReads
    <2>4. CASE PutBackBuffered
      BY <2>4, SputbackcReads
    <2>5. CASE PutBackFail
      BY <2>5, PutBackFailReads
    <2>6. CASE \E n \in 1 .. (Capacity + 1) : ReadSome(n)
      BY <2>6, XsgetnReads
    <2>7. CASE ReadThrows
      BY <2>7, ThrowsReads
    <2> QED
      BY <1>2, <2>1, <2>2, <2>3, <2>4, <2>5, <2>6, <2>7 DEF Read
  <1>3. CASE (\E pos \in SeekPositions : Seek(pos)) \/ SeekFails
    <2>1. SeekPositions \subseteq 0 .. FileSize
      <3>1. FileSize \div 2 \in 0 .. FileSize /\ 0 \in 0 .. FileSize
        BY LimitsAssumption
      <3> QED
        BY <3>1 DEF SeekPositions
    <2>2. filepos \in 0 .. FileSize
      BY DEF ReadInv
    <2>3. PICK pos \in 0 .. FileSize : Seek(pos)
      BY <1>3, <2>1, <2>2 DEF SeekFails
    <2> QED
      BY <2>3, SeekReads
  <1>4. CASE UNCHANGED vars
    BY <1>4, ReadStays DEF vars, getVars
  <1> QED
    BY <1>1, <1>2, <1>3, <1>4 DEF Next

\* Each step keeps the two halves, each as long as it has not gone wrong.
LEMMA StreamStep ==
  ASSUME StreamInv, [Next]_vars
  PROVE  StreamInv'
  <1>1. /\ misread' \in BOOLEAN /\ miswrote' \in BOOLEAN
        /\ ~misread' => ~misread
        /\ ~miswrote' => ~miswrote
    BY WrongStays
  <1>2. ~miswrote' => WriteInv'
    BY <1>1, WriteSteps DEF StreamInv
  <1>3. ~misread' => ReadInv'
    BY <1>1, ReadSteps DEF StreamInv
  <1> QED
    BY <1>1, <1>2, <1>3 DEF StreamInv

\* The rings, the windows and the histories agree until a range is wrong.
THEOREM StreamCorrect == Spec => []StreamInv
  <1>1. Init => StreamInv
    BY StreamInitial
  <1>2. StreamInv /\ [Next]_vars => StreamInv'
    BY StreamStep
  <1> QED
    BY <1>1, <1>2, PTL DEF Spec

\* Every read returns the bytes at the user's position, in order, whatever the mixture of
\* reads, put-backs, throws and seeks, until it uses a wrong range of the ring.
THEOREM ReadsCorrect == Spec => []ReadsInOrder
  <1>1. StreamInv => ReadsInOrder
    BY DEF StreamInv, ReadInv, ReadsInOrder
  <1> QED
    BY <1>1, StreamCorrect, PTL

\* What was written, waits in the ring or is in the window is what was put, in order, until
\* bytes are put into a ring without room for them.
THEOREM WritesCorrect == Spec => []WritesInOrder
  <1>1. ASSUME WriteInv
        PROVE  written \o Unread(CommittedPuts) = [i \in 1 .. sent |-> i]
    <2> DEFINE w == CommittedPuts
    <2>1. /\ Waits(w, written) /\ sent = Len(written) + w.size
      BY <1>1, CommitsPuts
    <2> HIDE DEF w
    <2>2. /\ written \in Seq(Nat) /\ written = Bytes(0, Len(written)) /\ Holds(w, Len(written))
          /\ RingShape(w)
      BY <2>1 DEF Waits, Holds
    <2>3. PICK l \in Nat, s \in Nat, h \in Nat, C \in Nat :
              /\ l = Len(written) /\ s = w.size /\ h = w.head /\ C = Capacity
              /\ w.capacity = C /\ s <= C /\ h < C
      BY <2>2, RangeFacts
    <2>4. \A i \in 1 .. s : w.cell[(h + i - 1) % C] = l + i
      <3> TAKE i \in 1 .. s
      <3>1. PICK j \in Nat : j = i - 1 /\ j < s /\ j < C
        BY <2>3
      <3>2. (h + j) % C = IF h + j < C THEN h + j ELSE h + j - C
        <4>1. CASE h + j < C
          BY <4>1
        <4>2. CASE h + j >= C
          <5>1. PICK k \in Nat : k = h + j - C /\ k < C
            BY <2>3, <3>1, <4>2
          <5>2. (k + C) % C = k
            BY <5>1
          <5> QED
            BY <4>2, <5>1, <5>2
        <4> QED
          BY <4>1, <4>2
      <3>3. Place(w, j) = (h + j) % C
        BY <2>3, <3>2 DEF Place, PlaceFrom
      <3>4. w.cell[Place(w, j)] = l + j + 1
        <4>1. j \in 0 .. (w.size - 1)
          BY <2>3, <3>1
        <4> QED
          BY <2>2, <2>3, <4>1 DEF Holds
      <3>5. h + j = h + i - 1 /\ l + j + 1 = l + i
        BY <3>1
      <3> QED
        BY <3>3, <3>4, <3>5
    <2>5. Unread(w) = Bytes(l, s)
      <3>1. Unread(w) = [i \in 1 .. s |-> w.cell[(h + i - 1) % C]]
        BY <2>3 DEF Unread
      <3> QED
        BY <2>4, <3>1 DEF Bytes
    <2>6. Bytes(0, l) \o Bytes(0 + l, s) = Bytes(0, l + s)
      BY BytesJoin
    <2>7. 0 + l = l
      OBVIOUS
    <2>8. written \o Unread(w) = Bytes(0, sent)
      BY <2>1, <2>2, <2>3, <2>5, <2>6, <2>7
    <2>9. sent \in Nat
      BY <2>1, <2>3
    <2>10. Bytes(0, sent) = [i \in 1 .. sent |-> i]
      BY <2>9 DEF Bytes
    <2> QED
      BY <2>8, <2>10 DEF w
  <1>2. StreamInv => WritesInOrder
    BY <1>1 DEF StreamInv, WritesInOrder
  <1> QED
    BY <1>2, StreamCorrect, PTL

\* The ranges a read uses are right until the ring has been filled to its capacity since it was
\* last empty.
THEOREM RangesCorrect == Spec => []RangesRightUntilFull
  <1>1. ASSUME ReadInv, filled < Capacity
        PROVE  ~Overlaps(Committed) /\ ~Hidden(Committed)
    <2> DEFINE r == Committed
    <2>1. Loaded(r, position) /\ Reached(r, filled)
      BY <1>1, CommitsGets
    <2> HIDE DEF r
    <2>2. /\ r.capacity = Capacity /\ Capacity \in Nat \ {0} /\ r.size \in 0 .. Capacity
          /\ r.head \in 0 .. (Capacity - 1) /\ r.tail \in 0 .. Capacity
          /\ r.tail = r.head + r.size \/ (r.size = 1 /\ r.head = Capacity - 1 /\ r.tail = 0)
          /\ filled \in 0 .. Capacity /\ r.tail <= filled /\ (r.tail = 0 /\ r.size > 0 => filled > 0)
      BY <2>1, LoadedFacts DEF Loaded, Reached
    <2>3. PICK C \in Nat, s \in Nat, h \in Nat, t \in Nat, f \in Nat :
              /\ C = Capacity /\ s = r.size /\ h = r.head /\ t = r.tail /\ f = filled
              /\ s <= C /\ h < C /\ f < C
      BY <1>1, <2>2
    <2>4. /\ t = h + s \/ (s = 1 /\ h = C - 1 /\ t = 0)
          /\ t <= f /\ (t = 0 /\ s > 0 => f > 0)
      BY <2>2, <2>3
    <2>5. PutBegin(r) = t
      BY <2>2, <2>3, <2>4 DEF PutBegin
    <2>6. PutEnd(r) = IF t >= h THEN C ELSE h
      BY <2>2, <2>3 DEF PutEnd
    <2>7. GetEnd(r) = IF t >= h THEN t ELSE C
      BY <2>2, <2>3 DEF GetEnd
    <2>8. s > 0 => PutAvail(r) <= C - s
      BY <2>3, <2>4, <2>5, <2>6 DEF PutAvail
    <2>9. s > 0 => GetAvail(r) # 0
      BY <2>3, <2>4, <2>7 DEF GetAvail
    <2>10. ~Overlaps(r) /\ ~Hidden(r)
      <3>1. PutAvail(r) \in Int
        BY <2>3, <2>5, <2>6 DEF PutAvail
      <3> QED
        BY <2>2, <2>3, <2>8, <2>9, <3>1 DEF Overlaps, Hidden
    <2> QED
      BY <2>10 DEF r
  <1>2. StreamInv => RangesRightUntilFull
    BY <1>1 DEF StreamInv, RangesRightUntilFull
  <1> QED
    BY <1>2, StreamCorrect, PTL

\* At most one byte is kept back when the end of the file is reported.
THEOREM KeepsOneBack == Spec => []AtMostOneKeptBack
  <1>1. ASSUME ReadInv, eof
        PROVE  filepos - position <= 1
    <2>1. /\ Committed.size <= 1 /\ filepos = position + Committed.size /\ position \in Nat
          /\ Committed.size \in 0 .. Capacity
      BY <1>1, CommitsGets, LoadedFacts
    <2>2. PICK p \in Nat, s \in Nat : p = position /\ s = Committed.size /\ s <= 1
      <3>1. PICK C \in Nat : C = Capacity
        BY CapacityAssumption
      <3>2. Committed.size \in Nat
        BY <2>1, <3>1
      <3> QED
        BY <2>1, <3>2
    <2>3. (p + s) - p <= 1
      BY <2>2
    <2> QED
      BY <2>1, <2>2, <2>3
  <1>2. StreamInv => AtMostOneKeptBack
    BY <1>1 DEF StreamInv, AtMostOneKeptBack
  <1> QED
    BY <1>2, StreamCorrect, PTL

\* With a file that takes everything it is only sputc that fills the ring, if the ring has room
\* for two.  (In a ring of one byte overflow() itself puts the byte that fills it.)
THEOREM PutsFill == Capacity > 1 /\ Spec => []OnlyPutsFill
  <1>1. ASSUME WriteInv, ~cut, Capacity > 1, Overlaps(CommittedPuts)
        PROVE  put.next = Capacity /\ put.begin < put.next
    <2> DEFINE w == CommittedPuts
    <2>1. /\ w.size < Capacity => PutAvail(w) = Capacity - w.size
          /\ w.size = Capacity => put.next = Capacity /\ put.begin < Capacity
          /\ w.capacity = Capacity /\ w.size \in 0 .. Capacity /\ Capacity \in Nat
      <3>1. Waits(w, written)
        BY <1>1, CommitsPuts
      <3>2. w.capacity = Capacity /\ w.size \in 0 .. Capacity /\ Capacity \in Nat
        BY <3>1, RangeFacts DEF Waits, Holds
      <3> QED
        BY <1>1, <3>2, StraightPuts
    <2>2. PutAvail(w) > w.capacity - w.size
      BY <1>1 DEF Overlaps
    <2> HIDE DEF w
    <2>3. PICK s \in Nat, C \in Nat : s = w.size /\ C = Capacity /\ s <= C
      BY <2>1
    <2>4. s = C
      BY <2>1, <2>2, <2>3
    <2> QED
      BY <2>1, <2>3, <2>4
  <1>2. Capacity > 1 /\ StreamInv => OnlyPutsFill
    BY <1>1 DEF StreamInv, OnlyPutsFill
  <1>3. Capacity > 1 /\ StreamInv /\ [Next]_vars => StreamInv'
    BY StreamStep
  <1>4. CASE ~(Capacity > 1)
    BY <1>4
  <1>5. CASE Capacity > 1
    <2>1. StreamInv => OnlyPutsFill
      BY <1>2, <1>5
    <2> QED
      BY <2>1, StreamCorrect, PTL
  <1> QED
    BY <1>4, <1>5

\* The variables keep their types until something goes wrong: a wrong range makes the size of a
\* ring meaningless.
THEOREM StreamTypes == Spec => [](misread \/ miswrote \/ TypeOK)
  <1>1. ASSUME WriteInv, ReadInv, misread \in BOOLEAN, miswrote \in BOOLEAN
        PROVE  TypeOK
    <2>1. Holds(wbuf, Len(written)) /\ written \in Seq(Nat) /\ RingShape(wbuf)
      BY <1>1 DEF WriteInv, Waits, Holds
    <2>2. RingShape(rbuf) /\ rbuf.head \in 0 .. (Capacity - 1) /\ Capacity \in Nat
      BY <1>1, LoadedFacts DEF ReadInv
    <2>3. RingOK(rbuf) /\ RingOK(wbuf)
      BY <2>1, <2>2 DEF RingShape, Rings, Cells, RingOK
    <2>4. WindowOK(get)
      BY <1>1, <2>2 DEF ReadInv, Windows, WindowOK
    <2>5. WindowOK(put)
      <3>1. put.next - put.begin \in 0 .. (Capacity - wbuf.size) /\ put \in Windows
        BY <1>1 DEF WriteInv, Putting
      <3>2. PICK b \in Nat, n \in Nat : b = put.begin /\ n = put.next /\ b <= Capacity /\ n <= Capacity
        BY <2>2, <3>1 DEF Windows
      <3>3. wbuf.size \in 0 .. Capacity
        BY <2>1, RangeFacts
      <3>4. b <= n
        BY <2>2, <3>1, <3>2, <3>3
      <3> QED
        BY <2>2, <3>2, <3>4 DEF WindowOK
    <2>6. /\ filepos \in 0 .. FileSize /\ position \in Nat /\ delivered \in Seq(Nat)
          /\ eof \in BOOLEAN /\ filled \in 0 .. Capacity
      BY <1>1 DEF ReadInv, Reached
    <2>7. sent \in 0 .. PutLimit /\ cut \in BOOLEAN
      BY <1>1 DEF WriteInv
    <2>8. written \in Seq(Nat \cup {Junk}) /\ delivered \in Seq(Nat \cup {Junk})
      <3>1. \A s \in Seq(Nat) : s \in Seq(Nat \cup {Junk})
        <4> TAKE s \in Seq(Nat)
        <4>1. \A i \in 1 .. Len(s) : s[i] \in Nat \cup {Junk}
          OBVIOUS
        <4> QED
          BY <4>1
      <3> QED
        BY <2>1, <2>6, <3>1
    <2> QED
      BY <1>1, <2>3, <2>4, <2>5, <2>6, <2>7, <2>8 DEF TypeOK
  <1>2. StreamInv => misread \/ miswrote \/ TypeOK
    BY <1>1 DEF StreamInv
  <1> QED
    BY <1>2, StreamCorrect, PTL
=============================================================================
