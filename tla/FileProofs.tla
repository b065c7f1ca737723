----------------------------- MODULE FileProofs -----------------------------
(* Theorems about File, for any files, descriptors, capacity and modes: its  *)
(* transfers are exact, its files share no descriptor as long as no close    *)
(* has failed, and select() is given a number above every one it waits for.  *)
EXTENDS File, SequenceTheorems, WellFoundedInduction, TLAPS

-----------------------------------------------------------------------------
(* The inductive invariants.                                               *)

\* What write_exactly has been given is under way or left to write, and what a read
\* has put down it has not delivered yet.
TransferInv ==
    /\ writing.call \in {"idle", "threw"} => sent = asked
    /\ writing.call = "writing" => sent + writing.left = asked
    /\ reading.call \in {"idle", "threw"} => reading.data = <<>>
    /\ SameBytes(received \o reading.data \o channel, sent, lost, again)
    /\ lost # {} => mode = "nonblocking"

FileInv == FileTypeOK /\ TransferInv /\ OneOwner

\* The next bytes that are sent come behind the others.
LEMMA SameMore ==
  ASSUME NEW s \in Seq(Nat), NEW n \in Nat, NEW l, NEW a, SameBytes(s, n, l, a),
         NEW k \in Nat
  PROVE  /\ [i \in 1 .. k |-> n + i] \in Seq(Nat)
         /\ SameBytes(s \o [i \in 1 .. k |-> n + i], n + k, l, a)
  <1>1. PICK next : next = [i \in 1 .. k |-> n + i]
    OBVIOUS
  <1>2. next \in Seq(Nat) /\ Len(next) = k /\ \A i \in 1 .. k : next[i] = n + i
    BY <1>1
  <1>3. PICK m \in Nat : m = Len(s)
    OBVIOUS
  <1>4. PICK t : t = s \o next
    OBVIOUS
  <1>5. /\ DOMAIN t = 1 .. m + k
        /\ \A i \in 1 .. m : t[i] = s[i]
        /\ \A i \in m + 1 .. m + k : t[i] = n + (i - m)
    <2>1. DOMAIN t = 1 .. m + k /\ \A i \in 1 .. m : t[i] = s[i]
      <3>1. Len(t) = m + k /\ t \in Seq(Nat)
        BY <1>2, <1>3, <1>4, ConcatProperties
      <3>2. \A i \in 1 .. m : t[i] = s[i]
        BY <1>2, <1>3, <1>4
      <3> QED
        BY <3>1, <3>2, LenProperties
    <2>2. ASSUME NEW i \in m + 1 .. m + k PROVE t[i] = n + (i - m)
      <3>1. i - m \in 1 .. k /\ t[i] = next[i - m]
        BY <1>2, <1>3, <1>4
      <3> QED
        BY <1>2, <3>1
    <2> QED
      BY <2>1, <2>2
  <1>6. /\ \A i \in 1 .. m : s[i] \in 1 .. n \/ (s[i] = 0 /\ 0 \in a)
        /\ \A i, j \in 1 .. m : i < j /\ s[j] # 0 =>
               s[i] < s[j] \/ (s[i] = s[j] /\ s[i] \in a)
        /\ \A b \in 1 .. n : b \in l \/ \E i \in 1 .. m : s[i] = b
    <2>1. DOMAIN s = 1 .. m
      BY <1>3
    <2> QED
      BY <2>1 DEF SameBytes
  <1>7. \A i \in 1 .. m + k : t[i] \in 1 .. n + k \/ (t[i] = 0 /\ 0 \in a)
    <2> SUFFICES ASSUME NEW i \in 1 .. m + k PROVE t[i] \in 1 .. n + k \/ (t[i] = 0 /\ 0 \in a)
      OBVIOUS
    <2>1. CASE i \in 1 .. m
      <3>1. t[i] \in 1 .. n \/ (t[i] = 0 /\ 0 \in a)
        BY <1>5, <1>6, <2>1
      <3> QED
        BY <3>1
    <2>2. CASE i \in m + 1 .. m + k
      BY <1>5, <2>2
    <2> QED
      BY <2>1, <2>2
  <1>8. \A i, j \in 1 .. m + k : i < j /\ t[j] # 0 =>
               t[i] < t[j] \/ (t[i] = t[j] /\ t[i] \in a)
    <2> SUFFICES ASSUME NEW i \in 1 .. m + k, NEW j \in 1 .. m + k, i < j, t[j] # 0
                 PROVE  t[i] < t[j] \/ (t[i] = t[j] /\ t[i] \in a)
      OBVIOUS
    <2>1. CASE j \in 1 .. m
      <3>1. i \in 1 .. m
        BY <2>1
      <3> QED
        BY <1>5, <1>6, <2>1, <3>1
    <2>2. CASE j \in m + 1 .. m + k /\ i \in 1 .. m
      BY <1>5, <1>6, <2>2
    <2>3. CASE j \in m + 1 .. m + k /\ i \in m + 1 .. m + k
      BY <1>5, <2>3
    <2> QED
      BY <2>1, <2>2, <2>3
  <1>9. \A b \in 1 .. n + k : b \in l \/ \E i \in 1 .. m + k : t[i] = b
    <2> SUFFICES ASSUME NEW b \in 1 .. n + k, b \notin l PROVE \E i \in 1 .. m + k : t[i] = b
      OBVIOUS
    <2>1. CASE b \in 1 .. n
      <3>1. PICK i \in 1 .. m : s[i] = b
        BY <1>6, <2>1
      <3> QED
        BY <1>5, <3>1
    <2>2. CASE b \in n + 1 .. n + k
      <3>1. m + (b - n) \in m + 1 .. m + k
        BY <2>2
      <3>2. t[m + (b - n)] = b
        BY <1>5, <2>2, <3>1
      <3> QED
        BY <3>1, <3>2
    <2> QED
      BY <2>1, <2>2
  <1>10. SameBytes(t, n + k, l, a)
    BY <1>5, <1>7, <1>8, <1>9 DEF SameBytes
  <1> QED
    BY <1>1, <1>2, <1>4, <1>10

\* A byte may be put down again behind itself, and one that is made up anywhere.
LEMMA SameAgain ==
  ASSUME NEW s \in Seq(Nat), NEW n \in Nat, NEW l, NEW a, SameBytes(s, n, l, a),
         NEW ch, ch = 0 \/ (s # <<>> /\ ch = s[Len(s)])
  PROVE  SameBytes(Append(s, ch), n, l, a \cup {ch})
  <1>1. PICK m \in Nat : m = Len(s)
    OBVIOUS
  <1>2. PICK t : t = Append(s, ch)
    OBVIOUS
  <1>3. DOMAIN t = 1 .. m + 1 /\ t[m + 1] = ch /\ \A i \in 1 .. m : t[i] = s[i]
    BY <1>1, <1>2
  <1>4. /\ \A i \in 1 .. m : s[i] \in 1 .. n \/ (s[i] = 0 /\ 0 \in a)
        /\ \A i, j \in 1 .. m : i < j /\ s[j] # 0 =>
               s[i] < s[j] \/ (s[i] = s[j] /\ s[i] \in a)
        /\ \A b \in 1 .. n : b \in l \/ \E i \in 1 .. m : s[i] = b
    <2>1. DOMAIN s = 1 .. m
      BY <1>1
    <2> QED
      BY <2>1 DEF SameBytes
  <1>5. ch = 0 \/ (m \in 1 .. m /\ ch = s[m])
    BY <1>1, EmptySeq
  <1>6. \A i \in 1 .. m + 1 : t[i] \in 1 .. n \/ (t[i] = 0 /\ 0 \in a \cup {ch})
    <2> SUFFICES ASSUME NEW i \in 1 .. m + 1
                 PROVE  t[i] \in 1 .. n \/ (t[i] = 0 /\ 0 \in a \cup {ch})
      OBVIOUS
    <2>1. CASE i \in 1 .. m
      BY <1>3, <1>4, <2>1
    <2>2. CASE i = m + 1
      BY <1>3, <1>4, <1>5, <2>2
    <2> QED
      BY <2>1, <2>2
  <1>7. \A i, j \in 1 .. m + 1 : i < j /\ t[j] # 0 =>
               t[i] < t[j] \/ (t[i] = t[j] /\ t[i] \in a \cup {ch})
    <2> SUFFICES ASSUME NEW i \in 1 .. m + 1, NEW j \in 1 .. m + 1, i < j, t[j] # 0
                 PROVE  t[i] < t[j] \/ (t[i] = t[j] /\ t[i] \in a \cup {ch})
      OBVIOUS
    <2>0. i \in 1 .. m
      OBVIOUS
    <2>1. CASE j \in 1 .. m
      BY <1>3, <1>4, <2>0, <2>1
    <2>2. CASE j = m + 1 /\ i < m
      <3>1. m \in 1 .. m /\ t[j] = s[m] /\ t[i] = s[i] /\ s[m] # 0
        BY <1>3, <1>5, <2>0, <2>2
      <3> QED
        BY <1>4, <2>0, <2>2, <3>1
    <2>3. CASE j = m + 1 /\ i = m
      BY <1>3, <1>5, <2>0, <2>3
    <2> QED
      BY <2>0, <2>1, <2>2, <2>3
  <1>8. \A b \in 1 .. n : b \in l \/ \E i \in 1 .. m + 1 : t[i] = b
    <2> SUFFICES ASSUME NEW b \in 1 .. n, b \notin l PROVE \E i \in 1 .. m + 1 : t[i] = b
      OBVIOUS
    <2>1. PICK i \in 1 .. m : s[i] = b
      BY <1>4
    <2> QED
      BY <1>3, <2>1
  <1>9. SameBytes(t, n, l, a \cup {ch})
    BY <1>3, <1>6, <1>7, <1>8 DEF SameBytes
  <1> QED
    BY <1>2, <1>9

\* What stands at the end can be lost.
LEMMA SameLost ==
  ASSUME NEW s \in Seq(Nat), NEW d \in Seq(Nat), NEW n \in Nat, NEW l, NEW a,
         SameBytes(s \o d, n, l, a)
  PROVE  SameBytes(s, n, l \cup {d[i] : i \in DOMAIN d}, a)
  <1>1. PICK m \in Nat, k \in Nat : m = Len(s) /\ k = Len(d)
    OBVIOUS
  <1>2. PICK t : t = s \o d
    OBVIOUS
  <1>3. /\ DOMAIN t = 1 .. m + k /\ DOMAIN s = 1 .. m /\ DOMAIN d = 1 .. k
        /\ \A i \in 1 .. m : t[i] = s[i]
        /\ \A i \in m + 1 .. m + k : t[i] = d[i - m]
    BY <1>1, <1>2
  <1>4. /\ \A i \in 1 .. m + k : t[i] \in 1 .. n \/ (t[i] = 0 /\ 0 \in a)
        /\ \A i, j \in 1 .. m + k : i < j /\ t[j] # 0 =>
               t[i] < t[j] \/ (t[i] = t[j] /\ t[i] \in a)
        /\ \A b \in 1 .. n : b \in l \/ \E i \in 1 .. m + k : t[i] = b
    BY <1>2, <1>3 DEF SameBytes
  <1>5. \A i \in 1 .. m : i \in 1 .. m + k
    OBVIOUS
  <1>6. /\ \A i \in 1 .. m : s[i] \in 1 .. n \/ (s[i] = 0 /\ 0 \in a)
        /\ \A i, j \in 1 .. m : i < j /\ s[j] # 0 =>
               s[i] < s[j] \/ (s[i] = s[j] /\ s[i] \in a)
    BY <1>3, <1>4, <1>5
  <1>7. \A b \in 1 .. n : b \in l \cup {d[i] : i \in DOMAIN d} \/ \E i \in 1 .. m : s[i] = b
    <2> SUFFICES ASSUME NEW b \in 1 .. n, b \notin l
                 PROVE  b \in {d[i] : i \in DOMAIN d} \/ \E i \in 1 .. m : s[i] = b
      OBVIOUS
    <2>1. PICK i \in 1 .. m + k : t[i] = b
      BY <1>4
    <2>2. CASE i \in 1 .. m
      BY <1>3, <2>1, <2>2
    <2>3. CASE i \in m + 1 .. m + k
      <3>1. i - m \in 1 .. k /\ d[i - m] = b
        BY <1>3, <2>1, <2>3
      <3> QED
        BY <1>3, <3>1
    <2> QED
      BY <2>2, <2>3
  <1> QED
    BY <1>3, <1>6, <1>7 DEF SameBytes

LEMMA Associative == \A s, t, u \in Seq(Nat) : (s \o t) \o u = s \o (t \o u)
  BY ConcatAssociative

LEMMA FdFacts == NullFd \notin Fds /\ WriteFds \subseteq Fds /\ ReadFds \subseteq Fds
  BY FdsAssumption DEF Fds, NullFd

LEMMA IdleFacts ==
  /\ Idle \in [call : {"idle", "writing", "threw"}, file : Fds \cup {NullFd},
               left : Nat, data : Seq(Nat)]
  /\ Idle \in [call : {"idle", "exactly", "until", "threw"},
               file : Fds \cup {NullFd}, left : Nat, data : Seq(Nat)]
  /\ Idle.call = "idle" /\ Idle.data = <<>>
  BY EmptySeq DEF Idle

LEMMA InitInv == Init => FileInv
  <1> SUFFICES ASSUME Init PROVE FileInv
    OBVIOUS
  <1>1. PICK w \in WriteFds, r \in ReadFds, out \in Writers, in \in Readers :
            /\ fd = [[f \in Files |-> NullFd] EXCEPT ![out] = w, ![in] = r]
            /\ open = {w, r}
    BY DEF Init
  <1>2. out \in Files /\ in \in Files /\ out # in
    BY FilesAssumption DEF Files
  <1>3. w \in Fds /\ r \in Fds /\ w # r
    BY FdsAssumption, FdFacts
  <1>4. fd \in [Files -> Fds \cup {NullFd}] /\ open \subseteq Fds
    BY <1>1, <1>2, <1>3
  <1>5. \A f \in Files : fd[f] = IF f = in THEN r ELSE IF f = out THEN w ELSE NullFd
    BY <1>1, <1>2
  <1>6. FileTypeOK
    BY <1>4, IdleFacts, EmptySeq DEF Init, FileTypeOK
  <1>7. OneOwner
    BY <1>1, <1>3, <1>5 DEF OneOwner
  <1>8. TransferInv
    <2>1. received \o reading.data \o channel = <<>> /\ DOMAIN <<>> = {}
      BY IdleFacts, EmptySeq, ConcatEmptySeq DEF Init
    <2>2. SameBytes(<<>>, 0, {}, {})
      BY <2>1 DEF SameBytes
    <2> QED
      BY <2>1, <2>2, IdleFacts DEF Init, TransferInv
  <1> QED
    BY <1>6, <1>7, <1>8 DEF FileInv

-----------------------------------------------------------------------------
(* The files: a descriptor passes from one to another, or goes.            *)

LEMMA HandlesInv ==
  ASSUME FileInv, ended = "no", Handles
  PROVE  FileInv'
  <1>1. FileTypeOK
    BY DEF FileInv
  <1>2. Handled
    BY DEF Handles, Open, MoveAssign, Close, Destroy
  <1>3. TransferInv'
    BY <1>2 DEF FileInv, TransferInv, Handled, writerVars, readerVars
  <1>4. ASSUME NEW f \in Files, Open(f) PROVE FileTypeOK' /\ OneOwner'
    <2>1. PICK d \in WriteFds \ open : /\ fd' = [fd EXCEPT ![f] = d]
                                       /\ open' = open \cup {d}
      BY <1>4 DEF Open
    <2>2. FileTypeOK'
      BY <1>1, <1>2, <1>4, <2>1, FdFacts DEF FileTypeOK, Open, Handled, writerVars, readerVars
    <2>3. OneOwner'
      BY <1>1, <1>4, <2>1 DEF FileInv, FileTypeOK, OneOwner, Open
    <2> QED
      BY <2>2, <2>3
  <1>5. ASSUME NEW f \in Files, Close(f) PROVE FileTypeOK' /\ OneOwner'
    <2>1. FileTypeOK'
      BY <1>1, <1>2, <1>5 DEF FileTypeOK, Close, Handled, writerVars, readerVars
    <2>2. OneOwner'
      <3>1. CASE fd' = [fd EXCEPT ![f] = NullFd] /\ UNCHANGED refused
        <4>1. /\ open' = open \ {fd[f]} /\ fd[f] # NullFd /\ UNCHANGED ended
              /\ \A g \in Files : fd'[g] = IF g = f THEN NullFd ELSE fd[g]
          BY <1>1, <1>5, <3>1, FdFacts DEF FileTypeOK, Close
        <4> QED
          BY <3>1, <4>1 DEF FileInv, OneOwner
      <3>2. CASE refused'
        BY <3>2 DEF OneOwner
      <3> QED
        BY <1>5, <3>1, <3>2 DEF Close
    <2> QED
      BY <2>1, <2>2
  <1>6. ASSUME NEW f \in Files, Destroy(f) PROVE FileTypeOK' /\ OneOwner'
    <2>1. FileTypeOK'
      BY <1>1, <1>2, <1>6 DEF FileTypeOK, Destroy, Handled, writerVars, readerVars
    <2>2. OneOwner'
      <3>1. CASE open' = open \ {fd[f]} /\ fd' = [fd EXCEPT ![f] = NullFd]
                 /\ UNCHANGED <<refused, ended>>
        <4>1. /\ fd[f] # NullFd
              /\ \A g \in Files : fd'[g] = IF g = f THEN NullFd ELSE fd[g]
          BY <1>1, <1>6, <3>1 DEF FileTypeOK, Destroy
        <4> QED
          BY <3>1, <4>1 DEF FileInv, OneOwner
      <3>2. CASE refused'
        BY <3>2 DEF OneOwner
      <3> QED
        BY <1>6, <3>1, <3>2 DEF Destroy
    <2> QED
      BY <2>1, <2>2
  <1>7. ASSUME NEW f \in Writers, NEW g \in Writers, MoveAssign(f, g)
        PROVE  FileTypeOK' /\ OneOwner'
    <2>1. f \in Files /\ g \in Files /\ f # g
      BY <1>7 DEF Files, MoveAssign
    <2>2. /\ fd' = [fd EXCEPT ![f] = fd[g], ![g] = NullFd]
          /\ UNCHANGED <<open, refused, ended>>
      BY <1>7 DEF MoveAssign
    <2>3. /\ fd' \in [Files -> Fds \cup {NullFd}]
          /\ \A h \in Files : fd'[h] = IF h = g THEN NullFd ELSE IF h = f THEN fd[g] ELSE fd[h]
      BY <1>1, <2>1, <2>2 DEF FileTypeOK
    <2>4. FileTypeOK'
      BY <1>1, <1>2, <2>2, <2>3 DEF FileTypeOK, Handled, writerVars, readerVars
    <2>5. OneOwner'
      BY <2>1, <2>2, <2>3 DEF FileInv, OneOwner
    <2> QED
      BY <2>4, <2>5
  <1>8. FileTypeOK' /\ OneOwner'
    BY <1>4, <1>5, <1>6, <1>7 DEF Handles
  <1> QED
    BY <1>3, <1>8 DEF FileInv

-----------------------------------------------------------------------------
(* The writer.                                                             *)

LEMMA WriterInv ==
  ASSUME FileInv, ended = "no",
         WriteStep \/ \E f \in Writers, n \in 1 .. ByteLimit : BeginWrite(f, n)
  PROVE  FileInv'
  <1>1. FileTypeOK /\ TransferInv
    BY DEF FileInv
  <1>2. UNCHANGED <<reading, received, lost, again, mode, fd, refused>>
    BY DEF WriteStep, Write, WriteWouldBlock, WriteBroken, EndWrite, BeginWrite, handleVars,
           readerVars
  <1>3. CASE \E f \in Writers, n \in 1 .. ByteLimit : BeginWrite(f, n)
    <2>1. PICK f \in Writers, n \in 1 .. ByteLimit : BeginWrite(f, n)
      BY <1>3
    <2>2. n \in Nat
      BY ChannelAssumption
    <2>3. fd[f] \in Fds
      BY <1>1, <2>1 DEF FileTypeOK, BeginWrite
    <2>4. writing' \in [call : {"idle", "writing", "threw"}, file : Fds \cup {NullFd},
                        left : Nat, data : Seq(Nat)]
          /\ writing'.call = "writing" /\ writing'.left = n
      BY <2>1, <2>2, <2>3, IdleFacts DEF BeginWrite, Idle
    <2>5. FileTypeOK'
      <3>1. UNCHANGED <<fd, open, channel, sent, received, reading, lost, again, refused, ended>>
        BY <2>1 DEF BeginWrite, handleVars, readerVars
      <3>2. asked' \in Nat
        <4>1. asked \in Nat /\ asked' = asked + n
          BY <1>1, <2>1 DEF FileTypeOK, BeginWrite
        <4> QED
          BY <2>2, <4>1
      <3> QED
        BY <1>1, <2>4, <3>1, <3>2 DEF FileTypeOK
    <2>6. TransferInv'
      <3>1. asked' = asked + n /\ UNCHANGED <<channel, sent>> /\ sent = asked
        BY <1>1, <2>1 DEF TransferInv, BeginWrite, Free
      <3> QED
        BY <1>1, <1>2, <2>4, <3>1 DEF TransferInv
    <2>7. OneOwner'
      BY <2>1 DEF FileInv, OneOwner, BeginWrite, handleVars
    <2> QED
      BY <2>5, <2>6, <2>7 DEF FileInv
  <1>4. CASE Write
    <2>1. PICK n \in 1 .. AtMost(writing.left, Space) :
              /\ channel' = channel \o [i \in 1 .. n |-> sent + i]
              /\ sent' = sent + n
              /\ writing' = [writing EXCEPT !.left = @ - n]
      BY <1>4 DEF Write
    <2>2. n \in Nat /\ n <= writing.left
      BY <1>1, ChannelAssumption DEF FileTypeOK, AtMost, Space
    <2>3. writing.left - n \in Nat
      BY <1>1, <2>2 DEF FileTypeOK
    <2>4. /\ writing' \in [call : {"idle", "writing", "threw"}, file : Fds \cup {NullFd},
                           left : Nat, data : Seq(Nat)]
          /\ writing'.call = "writing" /\ writing'.left = writing.left - n
      BY <1>1, <1>4, <2>1, <2>3 DEF FileTypeOK, Write
    <2>5. channel' \in Seq(Nat)
      <3>1. [i \in 1 .. n |-> sent + i] \in Seq(Nat)
        BY <1>1, <2>2 DEF FileTypeOK
      <3> QED
        BY <1>1, <2>1, <3>1, ConcatProperties DEF FileTypeOK
    <2>6. FileTypeOK'
      <3>1. UNCHANGED <<fd, open, asked, received, reading, lost, again, refused, ended>>
        BY <1>4 DEF Write, handleVars, readerVars
      <3>2. sent' \in Nat
        BY <1>1, <2>1, <2>2 DEF FileTypeOK
      <3> QED
        BY <1>1, <2>4, <2>5, <3>1, <3>2 DEF FileTypeOK
    <2>7. sent' + writing'.left = asked'
      BY <1>1, <1>4, <2>1, <2>2, <2>4 DEF FileTypeOK, TransferInv, Write
    <2>8. SameBytes(received \o reading.data \o channel', sent', lost, again)
      <3> DEFINE more == [i \in 1 .. n |-> sent + i]
      <3>1. received \in Seq(Nat) /\ reading.data \in Seq(Nat) /\ channel \in Seq(Nat)
        BY <1>1 DEF FileTypeOK
      <3>2. /\ received \o reading.data \in Seq(Nat)
            /\ (received \o reading.data) \o channel \in Seq(Nat)
        BY <3>1, ConcatProperties
      <3>3. /\ sent \in Nat /\ more \in Seq(Nat)
            /\ SameBytes(((received \o reading.data) \o channel) \o more, sent', lost, again)
        BY <1>1, <2>1, <2>2, <3>2, SameMore DEF FileTypeOK, TransferInv
      <3>4. channel' = channel \o more
        BY <2>1
      <3> HIDE DEF more
      <3>5. (received \o reading.data) \o (channel \o more) =
                ((received \o reading.data) \o channel) \o more
        <4>1. PICK before : before = received \o reading.data
          OBVIOUS
        <4>2. before \in Seq(Nat) /\ more \in Seq(Nat) /\ channel \in Seq(Nat)
          BY <3>1, <3>2, <3>3, <4>1
        <4>3. before \o (channel \o more) = (before \o channel) \o more
          BY <4>2, Associative, Zenon
        <4> QED
          BY <4>1, <4>3
      <3> QED
        BY <3>3, <3>4, <3>5
    <2>9. TransferInv'
      BY <1>1, <1>2, <2>4, <2>7, <2>8 DEF TransferInv
    <2>10. OneOwner'
      BY <1>4 DEF FileInv, OneOwner, Write, handleVars
    <2> QED
      BY <2>6, <2>9, <2>10 DEF FileInv
  <1>5. CASE WriteWouldBlock
    <2>1. /\ writing' \in [call : {"idle", "writing", "threw"}, file : Fds \cup {NullFd},
                           left : Nat, data : Seq(Nat)]
          /\ writing'.call = "threw" /\ asked' \in Nat
      BY <1>1, <1>5, IdleFacts DEF FileTypeOK, WriteWouldBlock, Idle
    <2> QED
      BY <1>1, <1>5, <2>1 DEF FileInv, FileTypeOK, TransferInv, OneOwner, WriteWouldBlock,
                              handleVars, readerVars
  <1>6. CASE WriteBroken
    BY <1>1, <1>6 DEF FileInv, FileTypeOK, TransferInv, OneOwner, WriteBroken,
                      writerVars, readerVars
  <1>7. CASE EndWrite
    <2>1. writing' = Idle /\ sent = asked
      BY <1>1, <1>7 DEF FileTypeOK, TransferInv, EndWrite
    <2> QED
      BY <1>1, <1>7, <2>1, IdleFacts DEF FileInv, FileTypeOK, TransferInv, OneOwner, EndWrite,
                              handleVars, readerVars
  <1> QED
    BY <1>3, <1>4, <1>5, <1>6, <1>7 DEF WriteStep

-----------------------------------------------------------------------------
(* The reader.                                                             *)

LEMMA BeginReadInv ==
  ASSUME FileInv, NEW f \in Readers, NEW call \in {"exactly", "until"}, NEW n \in Nat,
         BeginRead(f, call, n)
  PROVE  FileInv'
  <1>1. FileTypeOK /\ TransferInv
    BY DEF FileInv
  <1>2. fd[f] \in Fds /\ UNCHANGED <<writing, asked>>
    BY <1>1 DEF FileTypeOK, BeginRead, writerVars
  <1>3. reading' \in [call : {"idle", "exactly", "until", "threw"},
                      file : Fds \cup {NullFd}, left : Nat, data : Seq(Nat)]
        /\ reading'.call = call /\ reading'.data = <<>>
    BY <1>2, IdleFacts, EmptySeq DEF BeginRead, Idle
  <1>4. FileTypeOK'
    BY <1>1, <1>2, <1>3 DEF FileTypeOK, BeginRead, handleVars
  <1>5. TransferInv'
    <2>1. reading.data = <<>>
      BY <1>1 DEF TransferInv, BeginRead, Free
    <2>2. UNCHANGED <<mode, channel, sent, received, lost, again>>
      BY DEF BeginRead
    <2> QED
      BY <1>1, <1>2, <1>3, <2>1, <2>2 DEF TransferInv
  <1>6. OneOwner'
    BY DEF FileInv, OneOwner, BeginRead, handleVars
  <1> QED
    BY <1>4, <1>5, <1>6 DEF FileInv

LEMMA ReadInv ==
  ASSUME FileInv, ended = "no", ReadStep
  PROVE  FileInv'
  <1>1. FileTypeOK /\ TransferInv
    BY DEF FileInv
  <1>2. /\ received \in Seq(Nat) /\ reading.data \in Seq(Nat) /\ channel \in Seq(Nat)
        /\ sent \in Nat /\ reading.call \in {"exactly", "until"}
        /\ SameBytes(received \o reading.data \o channel, sent, lost, again)
    BY <1>1 DEF FileTypeOK, TransferInv, ReadStep, Read, ReadEnds, RepeatLast, ReadWouldBlock
  <1>3. UNCHANGED <<mode, writing, asked, sent, fd, open, refused, ended>>
    BY DEF ReadStep, Read, ReadEnds, RepeatLast, ReadWouldBlock, handleVars, writerVars
  <1>4. OneOwner'
    BY <1>3 DEF FileInv, OneOwner
  <1>5. CASE Read
    <2> PICK n \in 1 .. AtMost(reading.left, Len(channel)) :
            LET data == reading.data \o SubSeq(channel, 1, n) IN
            /\ channel' = SubSeq(channel, n + 1, Len(channel))
            /\ IF LeftToRead(n) = 0 THEN Deliver(data)
               ELSE /\ reading' = [reading EXCEPT !.data = data, !.left = LeftToRead(n)]
                    /\ UNCHANGED received
      BY <1>5 DEF Read
    <2> DEFINE taken == SubSeq(channel, 1, n)
               rest == SubSeq(channel, n + 1, Len(channel))
               data == reading.data \o taken
    <2>1. Len(channel) \in Nat /\ n \in 1 .. Len(channel) /\ n <= reading.left
      BY <1>1, <1>2, LenProperties DEF FileTypeOK, AtMost
    <2>2. taken \in Seq(Nat) /\ rest \in Seq(Nat)
      <3>1. \A i \in 1 .. Len(channel) : channel[i] \in Nat
        BY <1>2, ElementOfSeq
      <3>2. \A i \in 1 .. n : channel[i] \in Nat
        BY <2>1, <3>1
      <3>3. \A i \in (n + 1) .. Len(channel) : channel[i] \in Nat
        BY <2>1, <3>1
      <3>4. n \in Int /\ n + 1 \in Int /\ Len(channel) \in Int /\ 1 \in Int
        BY <2>1
      <3> QED
        BY <3>2, <3>3, <3>4, SubSeqProperties
    <2>3. taken \o rest = channel
      <3>1. 1 \in 1 .. Len(channel) + 1 /\ n \in 1 - 1 .. Len(channel)
            /\ Len(channel) \in n .. Len(channel)
        BY <2>1
      <3>2. taken \o rest = SubSeq(channel, 1, Len(channel))
        BY <1>2, <3>1, ConcatAdjacentSubSeq
      <3> QED
        BY <1>2, <3>2, SubSeqFull
    <2>4. LeftToRead(n) \in Nat
      BY <1>1, <2>1 DEF FileTypeOK, LeftToRead
    <2> HIDE DEF taken, rest
    <2>5. data \in Seq(Nat) /\ received \o data \in Seq(Nat)
      BY <1>2, <2>2, ConcatProperties
    <2>6. SameBytes((received \o data) \o rest, sent, lost, again) /\ UNCHANGED <<lost, again>>
      <3>1. received \o data = (received \o reading.data) \o taken
        BY <1>2, <2>2, Associative
      <3>2. received \o reading.data \in Seq(Nat)
        BY <1>2, ConcatProperties
      <3>3. ((received \o reading.data) \o taken) \o rest =
                (received \o reading.data) \o (taken \o rest)
        BY <2>2, <3>2, Associative
      <3> QED
        BY <1>2, <1>5, <2>3, <3>1, <3>3 DEF Read
    <2>7. channel' = rest
      BY DEF rest
    <2>8. CASE LeftToRead(n) = 0
      <3>1. reading' = Idle /\ received' = received \o data
        BY <2>8 DEF Deliver, taken
      <3>2. FileTypeOK'
        BY <1>1, <1>3, <2>2, <2>5, <2>6, <2>7, <3>1, IdleFacts DEF FileTypeOK
      <3>3. (received \o data) \o <<>> = received \o data
        BY <2>5, ConcatEmptySeq
      <3>4. TransferInv'
        BY <1>1, <1>3, <2>6, <2>7, <3>1, <3>3, IdleFacts DEF TransferInv
      <3> QED
        BY <1>4, <3>2, <3>4 DEF FileInv
    <2>9. CASE LeftToRead(n) # 0
      <3>1. /\ reading' = [reading EXCEPT !.data = data, !.left = LeftToRead(n)]
            /\ UNCHANGED received
        BY <2>9 DEF taken
      <3> HIDE DEF data
      <3>2. /\ reading' \in [call : {"idle", "exactly", "until", "threw"},
                             file : Fds \cup {NullFd}, left : Nat, data : Seq(Nat)]
            /\ reading'.call = reading.call /\ reading'.data = data
        BY <1>1, <2>4, <2>5, <3>1 DEF FileTypeOK
      <3>3. FileTypeOK'
        BY <1>1, <1>3, <2>2, <2>6, <2>7, <3>1, <3>2 DEF FileTypeOK
      <3>4. ~(reading.call \in {"idle", "threw"})
        BY <1>5 DEF Read
      <3>5. TransferInv'
        BY <1>1, <1>3, <2>6, <2>7, <3>1, <3>2, <3>4 DEF TransferInv
      <3> QED
        BY <1>4, <3>3, <3>5 DEF FileInv
    <2> QED
      BY <2>8, <2>9
  <1>6. ASSUME channel = <<>> PROVE /\ received \o reading.data \in Seq(Nat)
                                    /\ (received \o reading.data) \o channel =
                                           received \o reading.data
    BY <1>2, <1>6, ConcatProperties, ConcatEmptySeq
  <1>7. CASE ReadEnds
    <2>1. channel = <<>> /\ UNCHANGED <<channel, lost, again>>
      BY <1>7 DEF ReadEnds, NothingLeft
    <2>2. reading' = Idle /\ received' = received \o reading.data
      BY <1>7 DEF ReadEnds, Deliver
    <2>3. received' \in Seq(Nat) /\ received' \o <<>> = received'
      BY <1>6, <2>1, <2>2, ConcatEmptySeq
    <2>4. FileTypeOK'
      BY <1>1, <1>3, <2>1, <2>2, <2>3, IdleFacts DEF FileTypeOK
    <2>5. TransferInv'
      BY <1>1, <1>2, <1>3, <1>6, <2>1, <2>2, <2>3, IdleFacts DEF TransferInv
    <2> QED
      BY <1>4, <2>4, <2>5 DEF FileInv
  <1>8. CASE RepeatLast
    <2>1. channel = <<>> /\ UNCHANGED <<channel, lost>> /\ reading.call = "until"
      BY <1>8 DEF RepeatLast, NothingLeft
    <2>2. ASSUME reading.data = <<>>, Deliver(<<>>), UNCHANGED again
          PROVE  FileInv'
      <3>1. reading' = Idle /\ received' = received \o <<>>
        BY <2>2 DEF Deliver
      <3>2. received \o <<>> = received
        BY <1>2, ConcatEmptySeq
      <3>3. FileTypeOK'
        BY <1>1, <1>3, <2>1, <2>2, <3>1, <3>2, IdleFacts DEF FileTypeOK
      <3>4. TransferInv'
        BY <1>1, <1>2, <1>3, <2>1, <2>2, <3>1, <3>2, IdleFacts DEF TransferInv
      <3> QED
        BY <1>4, <3>3, <3>4 DEF FileInv
    <2>3. ASSUME NEW ch, ch = 0 \/ (reading.data # <<>> /\ ch = reading.data[Len(reading.data)]),
                 reading' = [reading EXCEPT !.data = Append(@, ch)],
                 again' = again \cup {ch}, UNCHANGED received
          PROVE  FileInv'
      <3>1. ch \in Nat
        BY <1>2, <2>3, EmptySeq
      <3>2. PICK all : all = received \o reading.data
        OBVIOUS
      <3>3. all \in Seq(Nat) /\ SameBytes(all, sent, lost, again)
        BY <1>2, <1>6, <2>1, <3>2
      <3>4. ch = 0 \/ (all # <<>> /\ ch = all[Len(all)])
        <4>1. /\ Len(all) = Len(received) + Len(reading.data)
              /\ Len(received) \in Nat /\ Len(reading.data) \in Nat
              /\ \A i \in 1 .. Len(reading.data) : all[Len(received) + i] = reading.data[i]
          BY <1>2, <3>2
        <4>2. ASSUME reading.data # <<>> PROVE Len(reading.data) \in 1 .. Len(reading.data)
          BY <1>2, <4>2, EmptySeq
        <4>3. ASSUME reading.data # <<>>
              PROVE  all[Len(all)] = reading.data[Len(reading.data)] /\ Len(all) # 0
          BY <4>1, <4>2, <4>3
        <4>4. Len(<<>>) = 0
          BY EmptySeq
        <4> QED
          BY <2>3, <4>3, <4>4
      <3>5. SameBytes(Append(all, ch), sent, lost, again')
        BY <1>2, <2>3, <3>3, <3>4, SameAgain
      <3>6. /\ reading' \in [call : {"idle", "exactly", "until", "threw"},
                              file : Fds \cup {NullFd}, left : Nat, data : Seq(Nat)]
            /\ reading'.call = "until" /\ reading'.data = Append(reading.data, ch)
        BY <1>1, <1>2, <2>1, <2>3, <3>1, AppendProperties DEF FileTypeOK
      <3>7. received' \o reading'.data \o channel' = Append(all, ch)
        <4>1. received \o Append(reading.data, ch) = Append(all, ch)
          BY <1>2, <3>1, <3>2
        <4>2. Append(all, ch) \in Seq(Nat)
          BY <3>1, <3>3, AppendProperties
        <4> QED
          BY <2>1, <2>3, <3>6, <4>1, <4>2, ConcatEmptySeq
      <3>8. FileTypeOK'
        BY <1>1, <1>3, <2>1, <2>3, <3>1, <3>6 DEF FileTypeOK
      <3>9. TransferInv'
        BY <1>1, <1>3, <2>1, <3>5, <3>6, <3>7 DEF TransferInv
      <3> QED
        BY <1>4, <3>8, <3>9 DEF FileInv
    <2>4. \/ reading.data = <<>> /\ Deliver(<<>>) /\ UNCHANGED again
          \/ \E ch \in IF reading.data = <<>> THEN {0} ELSE {reading.data[Len(reading.data)]} :
                 /\ reading' = [reading EXCEPT !.data = Append(@, ch)]
                 /\ again' = again \cup {ch} /\ UNCHANGED received
      BY <1>8 DEF RepeatLast
    <2> QED
      BY <2>2, <2>3, <2>4
  <1>9. CASE ReadWouldBlock
    <2>1. /\ channel = <<>> /\ mode = "nonblocking" /\ UNCHANGED <<channel, received, again>>
          /\ lost' = lost \cup {reading.data[i] : i \in DOMAIN reading.data}
      BY <1>9 DEF ReadWouldBlock
    <2>2. /\ reading' \in [call : {"idle", "exactly", "until", "threw"},
                            file : Fds \cup {NullFd}, left : Nat, data : Seq(Nat)]
          /\ reading'.call = "threw" /\ reading'.data = <<>>
      BY <1>9, IdleFacts, EmptySeq DEF ReadWouldBlock, Idle
    <2>3. SameBytes(received, sent, lost', again)
      BY <1>2, <1>6, <2>1, SameLost
    <2>4. received \o <<>> = received
      BY <1>2, ConcatEmptySeq
    <2>5. lost' \subseteq Nat
      <3>1. \A i \in DOMAIN reading.data : reading.data[i] \in Nat
        BY <1>2
      <3> QED
        BY <1>1, <2>1, <3>1 DEF FileTypeOK
    <2>6. FileTypeOK'
      BY <1>1, <1>3, <2>1, <2>2, <2>5 DEF FileTypeOK
    <2>7. TransferInv'
      BY <1>1, <1>3, <2>1, <2>2, <2>3, <2>4 DEF TransferInv
    <2> QED
      BY <1>4, <2>6, <2>7 DEF FileInv
  <1> QED
    BY <1>5, <1>7, <1>8, <1>9 DEF ReadStep

-----------------------------------------------------------------------------
(* The theorems.                                                           *)

LEMMA NextInv == FileInv /\ [Next]_vars => FileInv'
  <1> SUFFICES ASSUME FileInv, [Next]_vars PROVE FileInv'
    OBVIOUS
  <1>1. CASE UNCHANGED vars
    BY <1>1 DEF vars, FileInv, FileTypeOK, TransferInv, OneOwner
  <1>2. CASE Next
    <2>0. ended = "no"
      BY <1>2 DEF Next
    <2>1. CASE Handles
      BY <2>0, <2>1, HandlesInv
    <2>2. CASE WriteStep \/ \E f \in Writers, n \in 1 .. ByteLimit : BeginWrite(f, n)
      BY <2>0, <2>2, WriterInv
    <2>3. ASSUME NEW f \in Readers, ReadExactly(f) PROVE FileInv'
      <3>1. PICK n \in 1 .. ByteLimit : BeginRead(f, "exactly", n)
        BY <2>3 DEF ReadExactly
      <3>2. n \in Nat
        BY ChannelAssumption
      <3> QED
        BY <3>1, <3>2, BeginReadInv
    <2>4. ASSUME NEW f \in Readers, ReadUntil(f) PROVE FileInv'
      BY <2>4, BeginReadInv DEF ReadUntil
    <2>5. CASE ReadStep
      BY <2>0, <2>5, ReadInv
    <2>6. CASE Select \/ \E f \in Files : Watch(f)
      <3>1. UNCHANGED <<mode, fd, open, refused, channel, sent, writing, asked, reading, received,
                         lost, again, ended>>
        BY <2>6 DEF Select, Watch, handleVars, writerVars
      <3> QED
        BY <3>1 DEF FileInv, FileTypeOK, TransferInv, OneOwner
    <2> QED
      BY <1>2, <2>1, <2>2, <2>3, <2>4, <2>5, <2>6 DEF Next
  <1> QED
    BY <1>1, <1>2

LEMMA FileInvariant == Spec => []FileInv
  BY InitInv, NextInv, PTL DEF Spec

\* Files, transfers and what is under way have their types.
THEOREM FileTypeCorrect == Spec => []FileTypeOK
  BY FileInvariant, PTL DEF FileInv

\* Wherever the kernel cuts the transfers, and whatever files are moved and closed
\* meanwhile, the reader has the bytes that were sent in order and once, but for those
\* that a throwing call has read and those that read_until puts down again or makes up.
THEOREM TransfersCorrect == Spec => []TransfersExact
  <1>1. FileInv => TransfersExact
    BY DEF FileInv, TransferInv, TransfersExact
  <1> QED
    BY <1>1, FileInvariant, PTL

\* Files that are opened, moved, closed and destroyed in any order share no
\* descriptor, and hold none that is not open, until a close fails.
THEOREM OwnersCorrect == Spec => []OneOwner
  BY FileInvariant, PTL DEF FileInv

-----------------------------------------------------------------------------
(* The set of descriptors for select().                                    *)

\* A set of descriptors that some number bounds, with its cache right when it is valid.
WatchedInv ==
    /\ watched \in [fds : SUBSET Nat, max : Int, valid : BOOLEAN]
    /\ \E bound \in Nat : \A d \in watched.fds : d <= bound
    /\ watched.valid => watched.max = FindMax(watched)

\* A largest number is what FindMax returns; a bounded set that is not empty has one.
LEMMA FindMaxIs ==
  ASSUME NEW set, set.fds \subseteq Nat, NEW m \in set.fds, \A d \in set.fds : d <= m
  PROVE  FindMax(set) = m
  <1>1. \A other \in set.fds : (\A d \in set.fds : d <= other) => other = m
    OBVIOUS
  <1> QED
    BY <1>1 DEF FindMax

LEMMA BoundedHasMax ==
  ASSUME NEW S \in SUBSET Nat, S # {}, NEW bound \in Nat, \A d \in S : d <= bound
  PROVE  \E m \in S : \A d \in S : d <= m
  <1> DEFINE Bounds == {b \in Nat : \A d \in S : d <= b}
  <1>1. PICK m \in Bounds : \A n \in Bounds : ~(<<n, m>> \in OpToRel(<, Nat))
    <2>1. Bounds \subseteq Nat /\ Bounds # {}
      OBVIOUS
    <2> QED
      BY <2>1, NatLessThanWellFounded, WFMin
  <1>2. m \in Nat /\ \A d \in S : d <= m
    BY <1>1
  <1>3. ASSUME m \notin S PROVE FALSE
    <2>1. PICK d \in S : TRUE
      OBVIOUS
    <2>2. \A e \in S : e \in Nat /\ e <= m /\ e # m
      BY <1>2, <1>3
    <2>3. m - 1 \in Nat /\ m - 1 < m
      BY <1>2, <2>1, <2>2
    <2>4. \A e \in S : e <= m - 1
      BY <1>2, <2>2
    <2>5. m - 1 \in Bounds
      BY <2>3, <2>4
    <2> QED
      BY <1>1, <1>2, <2>3, <2>5 DEF OpToRel
  <1> QED
    BY <1>2, <1>3

\* What FindMax returns is a member and above the others, or null_fd.
LEMMA FindMaxFacts ==
  ASSUME NEW set, set.fds \subseteq Nat, NEW bound \in Nat, \A d \in set.fds : d <= bound
  PROVE  /\ set.fds = {} => FindMax(set) = NullFd
         /\ set.fds # {} => FindMax(set) \in set.fds
         /\ \A d \in set.fds : d <= FindMax(set)
  <1>1. CASE set.fds = {}
    BY <1>1 DEF FindMax
  <1>2. CASE set.fds # {}
    <2>1. PICK m \in set.fds : \A d \in set.fds : d <= m
      BY <1>2, BoundedHasMax
    <2>2. FindMax(set) = m
      BY <2>1, FindMaxIs
    <2> QED
      BY <1>2, <2>1, <2>2
  <1> QED
    BY <1>1, <1>2

\* Adding a descriptor to a set makes its cache right.
LEMMA SetFdRight ==
  ASSUME WatchedInv, NEW d \in Nat
  PROVE  /\ SetFd(watched, d) \in [fds : SUBSET Nat, max : Int, valid : BOOLEAN]
         /\ SetFd(watched, d).fds = watched.fds \cup {d}
         /\ SetFd(watched, d).max = FindMax(SetFd(watched, d))
  <1>1. PICK added : added = [watched EXCEPT !.fds = @ \cup {d}]
    OBVIOUS
  <1>2. /\ added.fds = watched.fds \cup {d} /\ added.valid = watched.valid
        /\ added.max = watched.max /\ added.fds \subseteq Nat /\ watched.fds \subseteq Nat
    BY <1>1 DEF WatchedInv
  <1>3. PICK bound \in Nat : \A e \in watched.fds : e <= bound
    BY DEF WatchedInv
  <1>4. PICK wider \in Nat : \A e \in added.fds : e <= wider
    <2>1. CASE d <= bound
      BY <1>2, <1>3, <2>1
    <2>2. CASE ~(d <= bound)
      <3>1. \A e \in added.fds : e <= d
        BY <1>2, <1>3, <2>2
      <3> QED
        BY <3>1
    <2> QED
      BY <2>1, <2>2
  <1>5. PICK max : max = MaxFd(added)
    OBVIOUS
  <1>6. /\ max \in Int
        /\ \A e \in watched.fds : e <= max
        /\ max \in added.fds \/ max < d
    <2>1. CASE watched.valid
      <3>1. max = FindMax(watched)
        BY <1>2, <1>5, <2>1 DEF MaxFd, WatchedInv
      <3>2. CASE watched.fds = {}
        BY <1>3, <1>2, <3>1, <3>2, FindMaxFacts DEF NullFd
      <3>3. CASE watched.fds # {}
        BY <1>3, <1>2, <3>1, <3>3, FindMaxFacts
      <3> QED
        BY <3>2, <3>3
    <2>2. CASE ~watched.valid
      <3>1. max = FindMax(added)
        BY <1>2, <1>5, <2>2 DEF MaxFd
      <3> QED
        BY <1>2, <1>4, <3>1, FindMaxFacts
    <2> QED
      BY <2>1, <2>2
  <1>7. PICK set : set = [added EXCEPT !.max = IF d > max THEN d ELSE max, !.valid = TRUE]
    OBVIOUS
  <1>8. SetFd(watched, d) = set
    BY <1>1, <1>5, <1>7 DEF SetFd, NullFd
  <1>9. /\ set.fds = watched.fds \cup {d} /\ set.max = IF d > max THEN d ELSE max
        /\ set \in [fds : SUBSET Nat, max : Int, valid : BOOLEAN]
    <2>1. added = [fds |-> watched.fds \cup {d}, max |-> watched.max, valid |-> watched.valid]
      BY <1>1 DEF WatchedInv
    <2>2. set = [fds |-> watched.fds \cup {d}, max |-> IF d > max THEN d ELSE max, valid |-> TRUE]
      BY <1>7, <2>1
    <2> QED
      BY <1>2, <1>6, <2>2
  <1>10. set.max \in set.fds /\ \A e \in set.fds : e <= set.max
    <2>1. CASE d > max
      BY <1>2, <1>6, <1>9, <2>1
    <2>2. CASE ~(d > max)
      BY <1>2, <1>6, <1>9, <2>2
    <2> QED
      BY <2>1, <2>2
  <1>11. set.max = FindMax(set)
    BY <1>9, <1>10, FindMaxIs
  <1> QED
    BY <1>8, <1>9, <1>11

LEMMA WatchedStep ==
  ASSUME FileTypeOK, WatchedInv, [Next]_vars
  PROVE  WatchedInv'
  <1>1. CASE watched' = watched
    BY <1>1 DEF WatchedInv, FindMax
  <1>2. ASSUME NEW f \in Files, Watch(f)
        PROVE  WatchedInv'
    <2>1. watched' = SetFd(watched, fd[f]) /\ fd[f] \in Fds \cup {NullFd}
      BY <1>2 DEF Watch, FileTypeOK
    <2>2. CASE fd[f] = NullFd
      BY <1>1, <2>1, <2>2 DEF SetFd
    <2>3. CASE fd[f] # NullFd
      <3>1. fd[f] \in Nat
        BY <2>1, <2>3, FdsAssumption DEF Fds
      <3>2. /\ watched' \in [fds : SUBSET Nat, max : Int, valid : BOOLEAN]
            /\ watched'.fds = watched.fds \cup {fd[f]}
            /\ watched'.max = FindMax(watched')
        BY <2>1, <3>1, SetFdRight
      <3>3. PICK bound \in Nat : \A d \in watched.fds : d <= bound
        BY DEF WatchedInv
      <3>4. \A d \in watched'.fds : d <= bound + fd[f]
        BY <3>1, <3>2, <3>3 DEF WatchedInv
      <3>5. bound + fd[f] \in Nat
        BY <3>1, <3>3
      <3> QED
        BY <3>2, <3>4, <3>5 DEF WatchedInv
    <2> QED
      BY <2>2, <2>3
  <1>3. CASE Select
    <2>1. watched' = [fds |-> watched.fds \cap Ready, max |-> MaxFd(watched), valid |-> FALSE]
      BY <1>3 DEF Select, Selected
    <2>2. PICK bound \in Nat : \A d \in watched.fds : d <= bound
      BY DEF WatchedInv
    <2>3. MaxFd(watched) \in Int
      BY <2>2, FindMaxFacts DEF MaxFd, WatchedInv, NullFd
    <2> QED
      BY <2>1, <2>2, <2>3 DEF WatchedInv
  <1>4. CASE \/ Handles \/ WriteStep \/ ReadStep
             \/ \E f \in Readers : ReadExactly(f) \/ ReadUntil(f)
             \/ \E f \in Writers, n \in 1 .. ByteLimit : BeginWrite(f, n)
    BY <1>1, <1>4 DEF Handles, Open, Close, Destroy, MoveAssign, Handled, WriteStep, Write,
       WriteWouldBlock, WriteBroken, EndWrite, ReadStep, Read, ReadEnds, RepeatLast, ReadWouldBlock,
       ReadExactly,
       ReadUntil, BeginRead, BeginWrite, readerVars
  <1>5. CASE UNCHANGED vars
    BY <1>1, <1>5 DEF vars
  <1> QED
    BY <1>2, <1>3, <1>4, <1>5 DEF Next

\* The number given to select() is above every descriptor waited for, and the cached
\* largest one is right whenever it counts as valid, whatever is added and selected.
THEOREM SelectCorrect == Spec => []SelectSeesAll
  <1>1. Init => WatchedInv
    BY DEF Init, Zero, WatchedInv, FindMax, NullFd
  <1>2. FileInv /\ WatchedInv /\ [Next]_vars => WatchedInv'
    BY WatchedStep DEF FileInv
  <1>3. ASSUME WatchedInv PROVE SelectSeesAll
    <2>1. PICK bound \in Nat : \A d \in watched.fds : d <= bound
      BY <1>3 DEF WatchedInv
    <2>2. MaxFd(watched) = FindMax(watched) /\ watched.fds \subseteq Nat
      BY <1>3 DEF WatchedInv, MaxFd
    <2>3. \A d \in watched.fds : d <= FindMax(watched) /\ FindMax(watched) \in Nat
      BY <2>1, <2>2, FindMaxFacts
    <2>4. \A d \in watched.fds : d < FindMax(watched) + 1
      BY <2>2, <2>3
    <2> QED
      BY <1>3, <2>2, <2>4 DEF SelectSeesAll, Covered, WatchedInv
  <1> QED
    BY <1>1, <1>2, <1>3, FileInvariant, PTL DEF Spec

-----------------------------------------------------------------------------
(* read_exactly comes back with less than it was asked for only when nothing *)
(* is left to read: no descriptor for writing is open, or the timeout.       *)
THEOREM ShortReadCorrect == Spec => ShortReadAtEnd
  <1> DEFINE Whole == Len(received') - Len(received) = Len(reading.data) + reading.left
             AtEnd == channel = <<>> /\ (open \cap WriteFds = {} \/ mode = "timeout")
  <1>1. ASSUME FileTypeOK, [Next]_vars, reading.call = "exactly", reading'.call = "idle"
        PROVE  Whole \/ AtEnd
    <2>1. /\ reading \in [call : {"idle", "exactly", "until", "threw"},
                           file : Fds \cup {NullFd}, left : Nat, data : Seq(Nat)]
          /\ channel \in Seq(Nat) /\ received \in Seq(Nat)
      BY <1>1 DEF FileTypeOK
    <2>2. CASE reading' = reading
      BY <1>1, <2>2
    <2>3. CASE Read
      <3>1. PICK n \in 1 .. AtMost(reading.left, Len(channel)) :
              IF LeftToRead(n) = 0 THEN Deliver(reading.data \o SubSeq(channel, 1, n))
              ELSE reading' = [reading EXCEPT !.data = reading.data \o SubSeq(channel, 1, n),
                                              !.left = LeftToRead(n)]
        BY <2>3 DEF Read
      <3>2. LeftToRead(n) = reading.left - n
        BY <1>1 DEF LeftToRead
      <3>3. LeftToRead(n) = 0
        <4>1. reading' # [reading EXCEPT !.data = reading.data \o SubSeq(channel, 1, n),
                                         !.left = LeftToRead(n)]
          BY <1>1, <2>1
        <4> QED
          BY <3>1, <4>1
      <3>4. received' = received \o (reading.data \o SubSeq(channel, 1, n))
        BY <3>1, <3>3 DEF Deliver
      <3>5. n \in Nat /\ n >= 1 /\ n <= Len(channel) /\ n = reading.left
        BY <2>1, <3>2, <3>3 DEF AtMost
      <3>6. SubSeq(channel, 1, n) \in Seq(Nat) /\ Len(SubSeq(channel, 1, n)) = n
        BY <2>1, <3>5
      <3>7. PICK part \in Seq(Nat) : part = SubSeq(channel, 1, n) /\ Len(part) = n
        BY <3>6
      <3>8. /\ reading.data \o part \in Seq(Nat)
            /\ Len(reading.data \o part) = Len(reading.data) + n
        BY <2>1, <3>7
      <3>9. Len(received') = Len(received) + (Len(reading.data) + n)
        BY <2>1, <3>4, <3>7, <3>8
      <3>10. Len(received) \in Nat /\ Len(reading.data) \in Nat
        BY <2>1
      <3> QED
        BY <3>5, <3>9, <3>10
    <2>4. CASE ReadEnds
      BY <2>4 DEF ReadEnds, NothingLeft, Writable
    <2>5. CASE ReadWouldBlock \/ RepeatLast
      BY <1>1, <2>1, <2>5, IdleFacts DEF ReadWouldBlock, RepeatLast, Idle
    <2>6. CASE \E f \in Readers : ReadExactly(f) \/ ReadUntil(f)
      BY <1>1, <2>6 DEF ReadExactly, ReadUntil, BeginRead, Free
    <2>7. CASE \/ Handles \/ WriteStep \/ Select \/ \E f \in Files : Watch(f)
               \/ \E f \in Writers, n \in 1 .. ByteLimit : BeginWrite(f, n)
      BY <2>2, <2>7 DEF Handles, Open, Close, Destroy, MoveAssign, Handled, WriteStep, Write,
         WriteWouldBlock, WriteBroken, EndWrite, BeginWrite, Watch, Select, readerVars
    <2>8. CASE UNCHANGED vars
      BY <2>2, <2>8 DEF vars
    <2> QED
      BY <1>1, <2>3, <2>4, <2>5, <2>6, <2>7, <2>8 DEF Next, ReadStep
  <1>2. FileTypeOK /\ [Next]_vars =>
            [reading.call = "exactly" /\ reading'.call = "idle" =>
               \/ Len(received') - Len(received) = Len(reading.data) + reading.left
               \/ channel = <<>> /\ (open \cap WriteFds = {} \/ mode = "timeout")]_vars
    BY <1>1
  <1> QED
    BY <1>2, FileTypeCorrect, PTL DEF Spec, ShortReadAtEnd
=============================================================================
