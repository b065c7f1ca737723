---------------------------- MODULE MessageQueue ----------------------------
(***************************************************************************)
(* levitator::concurrency::MessageQueue (concurrency/MessageQueue.hpp):    *)
(* a std::deque, a mutex and a condition variable shared by threads that   *)
(* push and threads that pop.                                              *)
(*                                                                         *)
(* The MutateGuard every push declares has no name, so it is destroyed at  *)
(* the end of its own statement: the mutex is taken, the waiting threads   *)
(* are notified and the mutex is released BEFORE the deque is touched.     *)
(* The deque is therefore modelled at the granularity at which a push can  *)
(* interleave with a pop or with another push: its cells, its start cursor *)
(* `first' and its finish cursor `last'.  A pop holds the mutex throughout.*)
(***************************************************************************)
EXTENDS Integers, Sequences, FiniteSets

CONSTANTS
    Pushers,    \* threads that call push_back or push_front
    Poppers,    \* threads that call pop
    Messages,   \* what is pushed
    Raw,        \* storage of a cell nobody has constructed
    Moved,      \* a message that was moved from
    MovedFrom(_),   \* what moving a message out of a cell leaves there
    NodeSize,   \* cells in a node of the std::deque
    None        \* the mutex is free; a thread holds no message

ASSUME ThreadsAssumption ==
    /\ Pushers \cap Poppers = {}
    /\ None \notin Pushers \cup Poppers
    /\ IsFiniteSet(Pushers) /\ IsFiniteSet(Poppers)
    /\ Pushers # {} /\ Poppers # {}

ASSUME MessagesAssumption ==
    /\ {Raw, Moved, None} \cap Messages = {}
    /\ None \notin {Raw, Moved}

Contents == Messages \cup {Raw, Moved}

ASSUME MovedAssumption == \A m \in Contents : MovedFrom(m) \in Contents

ASSUME NodeAssumption == NodeSize \in Nat \ {0}

VARIABLES
    cells,      \* storage of m_messages: the cells written so far, by position
    first,      \* m_messages' start cursor
    last,       \* m_messages' finish cursor
    mutex,      \* m_mutex: the popper that holds it, or None
    at,         \* where each thread stands inside push or pop
    hand,       \* the message a thread is pushing or has popped
    reg,        \* the cursor a thread read before it wrote a cell
    sent,       \* history: the messages handed to push, in call order
    received    \* history: what pop returned, in order

queueVars == <<cells, first, last, mutex, at, hand, reg, sent, received>>

Threads == Pushers \cup Poppers
PushPoints == {"idle", "append", "appended", "prepend", "prepended", "fill"}
PopPoints  == {"idle", "asleep", "woken", "front", "advance"}

QueueInit ==
    /\ cells = [i \in {} |-> Raw]
    /\ first = 0 /\ last = 0
    /\ mutex = None
    /\ at = [t \in Threads |-> "idle"]
    /\ hand = [t \in Threads |-> None]
    /\ reg = [t \in Threads |-> 0]
    /\ sent = <<>> /\ received = <<>>

-----------------------------------------------------------------------------
(* std::deque, as far as threads can tell: reading and writing a cell.     *)

Cell(i) == IF i \in DOMAIN cells THEN cells[i] ELSE Raw

WithCell(i, v) == [j \in DOMAIN cells \cup {i} |-> IF j = i THEN v ELSE cells[j]]

Empty == first = last

NotNotified == at    \* mutant: notify_all is forgotten

\* The temporary MutateGuard: it can only be built while the mutex is free,
\* and its destructor wakes every thread asleep on the condition variable.
Notified == [t \in Threads |-> IF at[t] = "asleep" THEN "woken" ELSE at[t]]

Guarded(p, m, next) ==
    /\ at[p] = "idle"
    /\ mutex = None
    /\ at' = [Notified EXCEPT ![p] = next]
    /\ hand' = [hand EXCEPT ![p] = m]
    /\ sent' = Append(sent, m)
    /\ UNCHANGED <<cells, first, last, mutex, reg, received>>

-----------------------------------------------------------------------------
(* push_back: the guard, the construction of the new cell, the cursor.     *)

PushBack(p, m) == Guarded(p, m, "append")

ConstructBack(p) ==
    /\ at[p] = "append"
    /\ cells' = WithCell(last, hand[p])
    /\ reg' = [reg EXCEPT ![p] = last]
    /\ at' = [at EXCEPT ![p] = "appended"]
    /\ UNCHANGED <<first, last, mutex, hand, sent, received>>

\* ++finish: the cursor is reloaded, or kept in a register since the
\* construction.  Nothing excludes another push in between.
AdvanceLast(p) ==
    /\ at[p] = "appended"
    /\ last' \in {last + 1, reg[p] + 1}
    /\ at' = [at EXCEPT ![p] = "idle"]
    /\ hand' = [hand EXCEPT ![p] = None]
    /\ UNCHANGED <<cells, first, mutex, reg, sent, received>>

(* push_front: within a deque node the new cell is constructed and then    *)
(* the cursor moves; at the start of a node (where a new deque begins) the *)
(* cursor moves to a new node first and the cell is constructed there.     *)

PushFront(p, m) == Guarded(p, m, "prepend")

ConstructFront(p) ==
    /\ at[p] = "prepend"
    /\ first % NodeSize # 0
    /\ cells' = WithCell(first - 1, hand[p])
    /\ reg' = [reg EXCEPT ![p] = first]
    /\ at' = [at EXCEPT ![p] = "prepended"]
    /\ UNCHANGED <<first, last, mutex, hand, sent, received>>

RetreatFirst(p) ==
    /\ at[p] = "prepended"
    /\ first' \in {first - 1, reg[p] - 1}
    /\ at' = [at EXCEPT ![p] = "idle"]
    /\ hand' = [hand EXCEPT ![p] = None]
    /\ UNCHANGED <<cells, last, mutex, reg, sent, received>>

NewFrontNode(p) ==
    /\ at[p] = "prepend"
    /\ first % NodeSize = 0
    /\ first' = first - 1
    /\ reg' = [reg EXCEPT ![p] = first - 1]
    /\ at' = [at EXCEPT ![p] = "fill"]
    /\ UNCHANGED <<cells, last, mutex, hand, sent, received>>

\* The construction goes through the cursor, which a pop may have moved on.
FillFront(p) ==
    /\ at[p] = "fill"
    /\ \E i \in {first, reg[p]} : cells' = WithCell(i, hand[p])
    /\ at' = [at EXCEPT ![p] = "idle"]
    /\ hand' = [hand EXCEPT ![p] = None]
    /\ UNCHANGED <<first, last, mutex, reg, sent, received>>

-----------------------------------------------------------------------------
(* pop: lock, wait until not empty, move the front out, pop_front, unlock. *)

PopWait(w) ==
    /\ at[w] \in {"idle", "woken"}
    /\ mutex = None
    /\ Empty
    /\ at' = [at EXCEPT ![w] = "asleep"]
    /\ UNCHANGED <<cells, first, last, mutex, hand, reg, sent, received>>

\* Mutant: the lock is released before the front is taken.
PopUnlocked(w) ==
    /\ at[w] \in {"idle", "woken"}
    /\ mutex = None
    /\ ~Empty
    /\ at' = [at EXCEPT ![w] = "front"]
    /\ UNCHANGED <<cells, first, last, mutex, hand, reg, sent, received>>

PopLock(w) ==
    /\ at[w] \in {"idle", "woken"}
    /\ mutex = None
    /\ ~Empty
    /\ mutex' = w
    /\ at' = [at EXCEPT ![w] = "front"]
    /\ UNCHANGED <<cells, first, last, hand, reg, sent, received>>

\* Mutant: the front is popped before it is read.
TakeNothing(w) ==
    /\ at[w] = "front"
    /\ hand' = hand
    /\ cells' = cells
    /\ reg' = [reg EXCEPT ![w] = first]
    /\ at' = [at EXCEPT ![w] = "advance"]
    /\ UNCHANGED <<first, last, mutex, sent, received>>



\* Mutant: the newest message is taken.
TakeBack(w) ==
    /\ at[w] = "front"
    /\ hand' = [hand EXCEPT ![w] = Cell(last - 1)]
    /\ cells' = WithCell(last - 1, Cell(first))
    /\ reg' = [reg EXCEPT ![w] = first]
    /\ at' = [at EXCEPT ![w] = "advance"]
    /\ UNCHANGED <<first, last, mutex, sent, received>>

TakeFront(w) ==
    /\ at[w] = "front"
    /\ hand' = [hand EXCEPT ![w] = Cell(first)]
    /\ cells' = WithCell(first, MovedFrom(Cell(first)))
    /\ reg' = [reg EXCEPT ![w] = first]
    /\ at' = [at EXCEPT ![w] = "advance"]
    /\ UNCHANGED <<first, last, mutex, sent, received>>

\* Mutant: pop_front is forgotten.
StayAtFirst(w) ==
    /\ at[w] = "advance"
    /\ received' = Append(received, hand[w])
    /\ mutex' = None
    /\ at' = [at EXCEPT ![w] = "idle"]
    /\ UNCHANGED <<cells, first, last, hand, reg, sent>>

AdvanceFirst(w) ==
    /\ at[w] = "advance"
    /\ first' \in {first + 1, reg[w] + 1}
    /\ received' = Append(received, hand[w])
    /\ mutex' = None
    /\ at' = [at EXCEPT ![w] = "idle"]
    /\ UNCHANGED <<cells, last, hand, reg, sent>>

\* std::condition_variable may wake a waiter that nobody notified.
SpuriousWake(w) ==
    /\ at[w] = "asleep"
    /\ at' = [at EXCEPT ![w] = "woken"]
    /\ UNCHANGED <<cells, first, last, mutex, hand, reg, sent, received>>

FinishPush(p) ==
    \/ ConstructBack(p) \/ AdvanceLast(p)
    \/ ConstructFront(p) \/ RetreatFirst(p) \/ NewFrontNode(p) \/ FillFront(p)

Pop(w) == PopWait(w) \/ PopLock(w) \/ TakeFront(w) \/ AdvanceFirst(w)

-----------------------------------------------------------------------------
(* Clients: any use of the queue, and the use ThreadPool::push makes of it *)
(* (push_back only).                                                       *)

QueueStep ==
    \/ \E p \in Pushers : FinishPush(p)
    \/ \E w \in Poppers : Pop(w) \/ SpuriousWake(w)

BackNext == QueueStep \/ \E p \in Pushers, m \in Messages : PushBack(p, m)

QueueNext == BackNext \/ \E p \in Pushers, m \in Messages : PushFront(p, m)

BackSpec  == QueueInit /\ [][BackNext]_queueVars
QueueSpec == QueueInit /\ [][QueueNext]_queueVars

-----------------------------------------------------------------------------
QueueTypeOK ==
    /\ DOMAIN cells \subseteq Int /\ cells \in [DOMAIN cells -> Contents]
    /\ first \in Int /\ last \in Int
    /\ mutex \in Poppers \cup {None}
    /\ at \in [Threads -> PushPoints \cup PopPoints]
    /\ hand \in [Threads -> Contents \cup {None}]
    /\ reg \in [Threads -> Int]
    /\ sent \in Seq(Messages)
    /\ received \in Seq(Contents)

\* Pushers stand at points of push and poppers at points of pop, and a push
\* that has not finished still holds its message.
PointsOK ==
    /\ \A p \in Pushers : /\ at[p] \in PushPoints
                          /\ at[p] # "idle" => hand[p] \in Messages
    /\ \A w \in Poppers : /\ at[w] \in PopPoints
                          /\ at[w] = "advance" => hand[w] \in Contents

\* The popper between PopLock and AdvanceFirst is the one that holds the mutex.
PopExclusive ==
    \A w \in Poppers : at[w] \in {"front", "advance"} <=> mutex = w

Pushing == {p \in Pushers : at[p] # "idle"}

\* pop returns exactly what was pushed, in the order of the calls, each message
\* once and whole: what a pool with one pushing thread relies on.
Fifo ==
    /\ Len(received) <= Len(sent)
    /\ \A i \in 1 .. Len(received) : received[i] = sent[i]

\* The message positions between the two cursors, the returned ones and the
\* ones still being pushed account for every message sent: none is lost.
NothingLost == Len(sent) = Len(received) + (last - first) + Cardinality(Pushing)

\* A thread sleeps in pop only while every message but at most one per pusher
\* has been taken: notify_all comes before the message it announces, so that
\* one message can be missed, but never two.
AtMostOneMissed ==
    \A w \in Poppers : at[w] = "asleep" =>
        last - first + Cardinality(Pushing) <= Cardinality(Pushers)

(* The strengthening behind the three: `only' is the single pusher,          *)
(* which pushes at the back.                                                *)
Busy(p) == IF at[p] = "idle" THEN 0 ELSE 1

TakenOut(i) == i = first /\ mutex # None /\ at[mutex] = "advance"

SinglePusherInv(only) ==
    /\ at[only] \in {"idle", "append", "appended"}
    /\ Len(sent) = last + Busy(only)
    /\ first = Len(received) /\ first <= last
    /\ mutex # None => first < last
    /\ \A i \in first .. (last - 1) : TakenOut(i) \/ Cell(i) = sent[i + 1]
    /\ at[only] # "idle" => hand[only] = sent[last + 1]
    /\ at[only] = "appended" => Cell(last) = hand[only] /\ reg[only] = last
    /\ \A w \in Poppers :
          /\ at[w] = "advance" => hand[w] = sent[first + 1] /\ reg[w] = first
          /\ at[w] = "asleep" => last - first + Busy(only) <= 1
    /\ \A i \in 1 .. Len(received) : received[i] = sent[i]

Positions(f, m) == {i \in DOMAIN f : f[i] = m}

(* The queue as its user sees it: the cells between the cursors, the one    *)
(* being moved out included until pop_front is over.                        *)
Pending ==
    [i \in 1 .. (last - first) |->
        IF i = 1 /\ mutex # None /\ at[mutex] = "advance"
        THEN hand[mutex]
        ELSE Cell(first + i - 1)]

Abstract == INSTANCE TaskFifo WITH pending <- Pending, taken <- received

\* A queue with one pusher that only pushes at the back implements a FIFO, in
\* spite of pushes that do not exclude pops: the end of a push is the Put, the
\* end of a pop the Take, and every other step is invisible.
ImplementsFifo == Abstract!Spec

=============================================================================
