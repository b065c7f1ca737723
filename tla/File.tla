-------------------------------- MODULE File --------------------------------
(***************************************************************************)
(* jab::file::File and Socket (File.cpp, Socket.cpp): objects that own a    *)
(* descriptor, and the transfers that insist on a length.  A thread writes  *)
(* into a channel (a pipe or a connection) through its files and another    *)
(* reads from it; a call of read or write is a step.  check() wraps every   *)
(* error in an IOError, which no handler for a posix_exception catches.     *)
(*                                                                         *)
(* Bytes are named by their positions in what is written, 1, 2, ...; 0 is    *)
(* one that read_until makes of an uninitialised variable.                  *)
(***************************************************************************)
EXTENDS FDSet, Sequences, FiniteSets

CONSTANTS
    Writers, Readers,   \* the files of either thread
    WriteFds, ReadFds,  \* the channel's descriptors
    Capacity,           \* bytes the channel holds
    Modes,              \* "blocking", "nonblocking", "timeout" (timeout_as_eof)
    ByteLimit,          \* bytes that are written
    Delimiters,         \* the bytes that read_until stops at
    RepeatLimit         \* bound of the length to which it repeats a byte

ASSUME FilesAssumption == IsFiniteSet(Writers) /\ Writers \cap Readers = {}
ASSUME FdsAssumption ==
    WriteFds \subseteq Nat /\ ReadFds \subseteq Nat /\ WriteFds \cap ReadFds = {}
ASSUME ChannelAssumption ==
    /\ Capacity \in Nat \ {0} /\ ByteLimit \in Nat /\ RepeatLimit \in Nat
    /\ Modes \subseteq {"blocking", "nonblocking", "timeout"}

Files == Writers \cup Readers
Fds == WriteFds \cup ReadFds

VARIABLES
    mode,       \* of the channel's descriptors
    fd,         \* m_fd of each file
    open,       \* the descriptors that are open in the kernel
    channel,    \* the bytes under way
    sent,       \* bytes the channel has been given
    writing,    \* write_exactly: its file, where it stands, what is left
    reading,    \* read_exactly or read_until: what is left, what it has read
    received,   \* bytes that calls which returned have taken
    watched,    \* the reader's FDSet
    asked,      \* history: bytes write_exactly was given, but for those it threw on
    lost,       \* history: bytes read by calls that threw
    again,      \* history: bytes that read_until has put down without reading them
    refused,    \* history: whether a close has failed
    ended       \* how the program has ended, if it has

vars == <<mode, fd, open, channel, sent, writing, reading, received, watched,
          asked, lost, again, refused, ended>>
handleVars == <<fd, open, refused>>
writerVars == <<writing, asked>>
readerVars == <<reading, received, watched, lost, again>>

Idle == [call |-> "idle", file |-> NullFd, left |-> 0, data |-> <<>>]

Init ==
    /\ mode \in Modes
    /\ \E w \in WriteFds, r \in ReadFds, out \in Writers, in \in Readers :
          /\ fd = [[f \in Files |-> NullFd] EXCEPT ![out] = w, ![in] = r]
          /\ open = {w, r}
    /\ channel = <<>> /\ sent = 0 /\ asked = 0 /\ received = <<>>
    /\ writing = Idle /\ reading = Idle /\ lost = {} /\ again = {}
    /\ watched = Zero
    /\ refused = FALSE /\ ended = "no"

AtMost(a, b) == IF a < b THEN a ELSE b

-----------------------------------------------------------------------------
(* The files.  A thread handles its own ones between two transfers.        *)

Free(transfer) == transfer.call \in {"idle", "threw"}

Between(f) == IF f \in Writers THEN Free(writing) ELSE Free(reading)

Handled == UNCHANGED <<mode, channel, sent, writerVars, readerVars>>

\* A file that is constructed takes a descriptor that is free in the kernel.
Open(f) ==
    /\ f \in Writers /\ Between(f) /\ fd[f] = NullFd
    /\ \E d \in WriteFds \ open :
          /\ fd' = [fd EXCEPT ![f] = d]
          /\ open' = open \cup {d}
    /\ UNCHANGED <<refused, ended>> /\ Handled

\* Mutant: the file that was moved from keeps its descriptor.
MoveAssignBoth(f, g) ==
    /\ f # g /\ Between(f) /\ fd[g] # NullFd
    /\ fd' = [fd EXCEPT ![f] = fd[g]]
    /\ UNCHANGED <<open, refused, ended>> /\ Handled

\* move_assign, and the move constructor when f holds nothing: what f held is
\* not closed.
MoveAssign(f, g) ==
    /\ f # g /\ Between(f) /\ fd[g] # NullFd
    /\ fd' = [fd EXCEPT ![f] = fd[g], ![g] = NullFd]
    /\ UNCHANGED <<open, refused, ended>> /\ Handled

\* close(): a close that fails has freed the descriptor all the same (EIO), and
\* leaves m_fd as it is.
Close(f) ==
    /\ Between(f) /\ fd[f] \in open
    /\ open' = open \ {fd[f]}
    /\ \/ fd' = [fd EXCEPT ![f] = NullFd] /\ UNCHANGED refused
       \/ refused' = TRUE /\ UNCHANGED fd
    /\ UNCHANGED ended /\ Handled

\* ~File: what a failing close throws leaves the destructor, which ends the
\* program, as does closing a descriptor that is not open.
Destroy(f) ==
    /\ Between(f) /\ fd[f] # NullFd
    /\ \/ /\ fd[f] \in open
          /\ open' = open \ {fd[f]}
          /\ fd' = [fd EXCEPT ![f] = NullFd]
          /\ UNCHANGED <<refused, ended>>
       \/ /\ open' = {}
          /\ refused' = TRUE
          /\ ended' = "terminate"
          /\ UNCHANGED fd
    /\ Handled

-----------------------------------------------------------------------------
(* write_exactly.                                                          *)

Space == Capacity - Len(channel)
Readable == open \cap ReadFds # {}
Writable == open \cap WriteFds # {}

BeginWrite(f, n) ==
    /\ Free(writing) /\ fd[f] \in open
    /\ asked + n <= ByteLimit
    /\ writing' = [Idle EXCEPT !.call = "writing", !.file = fd[f], !.left = n]
    /\ asked' = asked + n
    /\ UNCHANGED <<mode, channel, sent, handleVars, readerVars, ended>>

Write ==
    /\ writing.call = "writing" /\ writing.left > 0 /\ Readable /\ Space > 0
    /\ \E n \in 1 .. AtMost(writing.left, Space) :
          /\ channel' = channel \o [i \in 1 .. n |-> sent + i]
          /\ sent' = sent + n
          /\ writing' = [writing EXCEPT !.left = @ - n]
    /\ UNCHANGED <<mode, asked, handleVars, readerVars, ended>>

\* A full channel: the handler that would wait for it is never entered.  With
\* timeout_as_eof, write returns 0 and the loop turns, which changes nothing.
WriteWouldBlock ==
    /\ writing.call = "writing" /\ writing.left > 0 /\ Readable /\ Space = 0
    /\ mode = "nonblocking"
    /\ writing' = [Idle EXCEPT !.call = "threw"]
    /\ asked' = sent
    /\ UNCHANGED <<mode, channel, sent, handleVars, readerVars, ended>>

\* Nobody is left to read: SIGPIPE, which the program does not handle.
WriteBroken ==
    /\ writing.call = "writing" /\ writing.left > 0 /\ ~Readable
    /\ ended' = "signal"
    /\ open' = {}
    /\ UNCHANGED <<mode, channel, sent, writerVars, fd, refused, readerVars>>

EndWrite ==
    /\ writing.call = "writing" /\ writing.left = 0
    /\ writing' = Idle
    /\ UNCHANGED <<mode, channel, sent, asked, handleVars, readerVars, ended>>

WriteStep == Write \/ WriteWouldBlock \/ WriteBroken \/ EndWrite

-----------------------------------------------------------------------------
(* read_exactly and read_until.                                            *)

BeginRead(f, call, n) ==
    /\ Free(reading) /\ fd[f] \in open
    /\ reading' = [Idle EXCEPT !.call = call, !.file = fd[f], !.left = n]
    /\ UNCHANGED <<mode, channel, sent, handleVars, writerVars, received, watched, lost, again,
                   ended>>

ReadExactly(f) == \E n \in 1 .. ByteLimit : BeginRead(f, "exactly", n)

ReadUntil(f) == BeginRead(f, "until", 1)

\* What a call has read is its caller's when it returns.  (The delimiter is left
\* out of the string that read_until returns, but is taken off the file.)
Deliver(data) == reading' = Idle /\ received' = received \o data

\* What is left to read after n bytes: read_until goes on, one byte at a time,
\* until it has the delimiter.
LeftToRead(n) ==
    IF reading.call = "exactly" THEN reading.left - n
    ELSE IF channel[n] \in Delimiters THEN 0 ELSE reading.left

\* Mutant: the destination is not moved on.
ReadOver ==
    /\ reading.call \in {"exactly", "until"} /\ channel # <<>>
    /\ \E n \in 1 .. AtMost(reading.left, Len(channel)) :
        /\ channel' = SubSeq(channel, n + 1, Len(channel))
        /\ IF LeftToRead(n) = 0 THEN Deliver(SubSeq(channel, 1, n))
           ELSE /\ reading' = [reading EXCEPT !.data = SubSeq(channel, 1, n),
                                               !.left = LeftToRead(n)]
                /\ UNCHANGED received
    /\ UNCHANGED <<mode, sent, handleVars, writerVars, watched, lost, again, ended>>

Read ==
    /\ reading.call \in {"exactly", "until"} /\ channel # <<>>
    /\ \E n \in 1 .. AtMost(reading.left, Len(channel)) :
        LET data == reading.data \o SubSeq(channel, 1, n) IN
        /\ channel' = SubSeq(channel, n + 1, Len(channel))
        /\ IF LeftToRead(n) = 0 THEN Deliver(data)
           ELSE /\ reading' = [reading EXCEPT !.data = data, !.left = LeftToRead(n)]
                /\ UNCHANGED received
    /\ UNCHANGED <<mode, sent, handleVars, writerVars, watched, lost, again, ended>>

\* Mutants: an empty channel is taken for an end; a closed one is not.
NothingComes == channel = <<>>
NothingUntilTimeout == channel = <<>> /\ mode = "timeout"

\* read returns 0: all writing ends are closed, or a receive timeout.
NothingLeft == channel = <<>> /\ (~Writable \/ mode = "timeout")

\* read_exactly returns what it has.
ReadEnds ==
    /\ reading.call = "exactly" /\ NothingLeft
    /\ Deliver(reading.data)
    /\ UNCHANGED <<mode, channel, sent, handleVars, writerVars, watched, lost, again, ended>>

\* read_until does not look what read_exactly returns, and goes on with the byte it
\* read last, or with what its variable happens to hold.
RepeatLast ==
    /\ reading.call = "until" /\ NothingLeft
    /\ Len(reading.data) < RepeatLimit
    /\ \/ \E ch \in IF reading.data = <<>> THEN {0} ELSE {reading.data[Len(reading.data)]} :
            /\ reading' = [reading EXCEPT !.data = Append(@, ch)]
            /\ again' = again \cup {ch}
            /\ UNCHANGED received
       \/ /\ reading.data = <<>>      \* which may be the delimiter
          /\ Deliver(<<>>)
          /\ UNCHANGED again
    /\ UNCHANGED <<mode, channel, sent, handleVars, writerVars, watched, lost, ended>>

\* What had been read is lost to the caller.
ReadWouldBlock ==
    /\ reading.call \in {"exactly", "until"} /\ channel = <<>> /\ Writable
    /\ mode = "nonblocking"
    /\ reading' = [Idle EXCEPT !.call = "threw"]
    /\ lost' = lost \cup {reading.data[i] : i \in DOMAIN reading.data}
    /\ UNCHANGED <<mode, channel, sent, handleVars, writerVars, received, watched, again, ended>>

ReadStep == Read \/ ReadEnds \/ RepeatLast \/ ReadWouldBlock

-----------------------------------------------------------------------------
(* The reader may wait for files with select(), if they do not block.      *)

Watch(f) ==
    /\ Free(reading) /\ mode = "nonblocking"
    /\ watched' = SetFd(watched, fd[f])
    /\ UNCHANGED <<mode, channel, sent, handleVars, writerVars, reading, received, lost, again,
                   ended>>

\* A reading end is ready when a read would not block, a writing one when a write
\* would not; a descriptor that is not open makes select() throw.
Ready == (IF channel # <<>> \/ ~Writable THEN ReadFds ELSE {})
            \cup (IF Space > 0 \/ ~Readable THEN WriteFds ELSE {})

Select ==
    /\ Free(reading)
    /\ watched.fds \subseteq open /\ watched.fds \cap Ready # {}
    /\ watched' = Selected(watched, Ready)
    /\ UNCHANGED <<mode, channel, sent, handleVars, writerVars, reading, received, lost, again,
                   ended>>

-----------------------------------------------------------------------------
Handles ==
    \/ \E f \in Files : Open(f) \/ Close(f) \/ Destroy(f)
    \/ \E f, g \in Writers : MoveAssign(f, g)

Next ==
    /\ ended = "no"
    /\ \/ Handles
       \/ \E f \in Writers, n \in 1 .. ByteLimit : BeginWrite(f, n)
       \/ WriteStep
       \/ \E f \in Readers : ReadExactly(f) \/ ReadUntil(f)
       \/ ReadStep
       \/ \E f \in Files : Watch(f)
       \/ Select

\* A call that can go on does, on either side; nobody need make another one.
Fairness == WF_vars(ended = "no" /\ WriteStep) /\ WF_vars(ended = "no" /\ ReadStep)

Spec == Init /\ [][Next]_vars /\ Fairness

-----------------------------------------------------------------------------
\* The file's types: a transfer is one of the calls, and counts what is left.
FileTypeOK ==
    /\ fd \in [Files -> Fds \cup {NullFd}] /\ open \subseteq Fds
    /\ channel \in Seq(Nat) /\ received \in Seq(Nat) /\ sent \in Nat /\ asked \in Nat
    /\ writing \in [call : {"idle", "writing", "threw"}, file : Fds \cup {NullFd},
                    left : Nat, data : Seq(Nat)]
    /\ reading \in [call : {"idle", "exactly", "until", "threw"},
                    file : Fds \cup {NullFd}, left : Nat, data : Seq(Nat)]
    /\ lost \subseteq Nat /\ again \subseteq Nat
    /\ refused \in BOOLEAN /\ ended \in {"no", "signal", "terminate"}

\* s is the bytes 1 .. n, but without some of l, with those of a repeated where they
\* stand, and with made up ones in between if 0 is one of a.
SameBytes(s, n, l, a) ==
    /\ \A i \in DOMAIN s : s[i] \in 1 .. n \/ (s[i] = 0 /\ 0 \in a)
    /\ \A i, j \in DOMAIN s : i < j /\ s[j] # 0 =>
            s[i] < s[j] \/ (s[i] = s[j] /\ s[i] \in a)
    /\ \A b \in 1 .. n : b \in l \/ \E i \in DOMAIN s : s[i] = b

\* However the kernel cuts the transfers, write_exactly returns only when everything
\* it has been given is under way, and what calls have taken, what one has read and what
\* is under way are all bytes that were sent, in order and once, with two exceptions that
\* the code makes: a call that throws, which only a file that does not block does, loses
\* what it has read; and read_until repeats the last byte on the spot, or makes one up,
\* when it meets an end or a timeout.
TransfersExact ==
    /\ writing.call = "idle" => sent = asked
    /\ SameBytes(received \o reading.data \o channel, sent, lost, again)
    /\ lost # {} => mode = "nonblocking"

\* As long as no close has failed, a descriptor belongs to one file and is open:
\* no file closes, reads or writes another's.
OneOwner ==
    ~refused /\ ended = "no" =>
        \A f, g \in Files : fd[f] # NullFd =>
            fd[f] \in open /\ (fd[f] = fd[g] => f = g)

\* The first argument of select() covers every descriptor waited for, and the
\* cache is right whenever it counts as valid, whatever select() did to the set.
SelectSeesAll == Covered(watched) /\ (watched.valid => watched.max = FindMax(watched))

\* read_exactly comes back with less than it was asked for only at an end: nobody
\* can write any more, or the receive timeout of a file that has one.
ShortReadAtEnd ==
    [][reading.call = "exactly" /\ reading'.call = "idle" =>
          \/ Len(received') - Len(received) = Len(reading.data) + reading.left
          \/ channel = <<>> /\ (open \cap WriteFds = {} \/ mode = "timeout")]_vars

\* write_exactly comes back, one way or another, when there is room time and again;
\* read_exactly comes back when no descriptor for writing is left, although one that
\* a move assignment has leaked keeps it waiting.
TransfersEnd ==
    /\ []<>(Space > 0) =>
          ((writing.call = "writing") ~> (writing.call # "writing" \/ ended # "no"))
    /\ (reading.call = "exactly" /\ [](open \cap WriteFds = {})) ~>
          (reading.call # "exactly" \/ ended # "no")
=============================================================================
