------------------------- MODULE MessageQueueProofs -------------------------
(* Theorems about MessageQueue: types and the exclusion of pops for every    *)
(* use of the queue, and order, completeness and the bound on missed wakeups *)
(* for a queue with a single pusher that pushes at the back.                 *)
EXTENDS MessageQueue, FiniteSetTheorems, SequenceTheorems, TLAPS

\* What holds of every use of the queue.
QueueInv == QueueTypeOK /\ PointsOK /\ PopExclusive

LEMMA ContentsFacts ==
    /\ Messages \subseteq Contents /\ Raw \in Contents
    /\ None \notin Pushers /\ None \notin Poppers
    /\ \A w \in Poppers : w \notin Pushers /\ w \in Threads
    /\ \A p \in Pushers : p \notin Poppers /\ p \in Threads
  BY ThreadsAssumption DEF Contents, Threads

\* Reading and writing cells keeps their type.
LEMMA CellType ==
  ASSUME QueueTypeOK, NEW i \in Int, NEW v \in Contents
  PROVE  /\ Cell(i) \in Contents
         /\ DOMAIN WithCell(i, v) \subseteq Int
         /\ WithCell(i, v) \in [DOMAIN WithCell(i, v) -> Contents]
         /\ \A j \in Int : (IF j \in DOMAIN WithCell(i, v)
                            THEN WithCell(i, v)[j] ELSE Raw)
                           = IF j = i THEN v ELSE Cell(j)
  BY DEF QueueTypeOK, Cell, WithCell, Contents

-----------------------------------------------------------------------------
(* Each operation preserves QueueInv.                                       *)

LEMMA InitInv == QueueInit => QueueInv
  <1> SUFFICES ASSUME QueueInit PROVE QueueInv
    OBVIOUS
  <1>1. QueueTypeOK
    BY DEF QueueInit, QueueTypeOK, Contents, PushPoints, PopPoints
  <1>2. PointsOK /\ PopExclusive
    BY ContentsFacts DEF QueueInit, PointsOK, PopExclusive, PushPoints, PopPoints
  <1> QED
    BY <1>1, <1>2 DEF QueueInv

LEMMA GuardedInv ==
  ASSUME QueueInv, NEW p \in Pushers, NEW m \in Messages,
         NEW next \in {"append", "prepend"}, Guarded(p, m, next)
  PROVE  QueueInv'
  <1> USE DEF QueueInv
  <1>1. \A t \in Threads : at'[t] = IF t = p THEN next
                                    ELSE IF at[t] = "asleep" THEN "woken" ELSE at[t]
    BY ContentsFacts DEF Guarded, Notified, QueueTypeOK
  <1>2. at' \in [Threads -> PushPoints \cup PopPoints]
    BY ContentsFacts DEF Guarded, Notified, QueueTypeOK, PushPoints, PopPoints
  <1>3. hand' \in [Threads -> Contents \cup {None}] /\ hand'[p] = m
        /\ \A t \in Threads \ {p} : hand'[t] = hand[t]
    BY ContentsFacts DEF Guarded, QueueTypeOK
  <1>4. sent' \in Seq(Messages)
    BY DEF Guarded, QueueTypeOK
  <1>5. QueueTypeOK'
    BY <1>2, <1>3, <1>4 DEF Guarded, QueueTypeOK
  <1>6. PointsOK'
    <2>1. ASSUME NEW q \in Pushers
          PROVE  at'[q] \in PushPoints /\ (at'[q] # "idle" => hand'[q] \in Messages)
      BY <1>1, <1>3, ContentsFacts DEF PointsOK, PushPoints
    <2>2. ASSUME NEW w \in Poppers
          PROVE  at'[w] \in PopPoints /\ (at'[w] = "advance" => hand'[w] \in Contents)
      BY <1>1, <1>3, ContentsFacts DEF PointsOK, PopPoints
    <2> QED
      BY <2>1, <2>2 DEF PointsOK
  <1>7. PopExclusive'
    BY <1>1, ContentsFacts DEF PopExclusive, Guarded
  <1> QED
    BY <1>5, <1>6, <1>7

LEMMA FinishPushInv ==
  ASSUME QueueInv, NEW p \in Pushers, FinishPush(p)
  PROVE  QueueInv'
  <1> USE DEF QueueInv
  <1>1. hand[p] \in Contents /\ at[p] \in PushPoints
    <2>1. at[p] # "idle"
      BY DEF FinishPush, ConstructBack, AdvanceLast, ConstructFront, RetreatFirst,
             NewFrontNode, FillFront
    <2> QED
      BY <2>1, ContentsFacts DEF PointsOK
  <1>2. /\ \E s \in {"appended", "prepended", "fill", "idle"} :
              /\ at' = [at EXCEPT ![p] = s]
              /\ s # "idle" => at[p] # "idle" /\ hand' = hand
        /\ hand' \in [Threads -> Contents \cup {None}]
        /\ \A t \in Threads \ {p} : hand'[t] = hand[t]
        /\ UNCHANGED <<mutex, sent, received>>
        /\ first' \in Int /\ last' \in Int
        /\ reg' \in [Threads -> Int]
        /\ DOMAIN cells' \subseteq Int /\ cells' \in [DOMAIN cells' -> Contents]
    <2>1. CASE ConstructBack(p)
      <3>1. cells' = WithCell(last, hand[p])
        BY <2>1 DEF ConstructBack
      <3> QED
        BY <2>1, <3>1, <1>1, CellType, ContentsFacts DEF ConstructBack, QueueTypeOK
    <2>2. CASE AdvanceLast(p)
      BY <2>2, ContentsFacts DEF AdvanceLast, QueueTypeOK
    <2>3. CASE ConstructFront(p)
      <3>1. cells' = WithCell(first - 1, hand[p]) /\ first - 1 \in Int
        BY <2>3 DEF ConstructFront, QueueTypeOK
      <3> QED
        BY <2>3, <3>1, <1>1, CellType, ContentsFacts DEF ConstructFront, QueueTypeOK
    <2>4. CASE RetreatFirst(p)
      BY <2>4, ContentsFacts DEF RetreatFirst, QueueTypeOK
    <2>5. CASE NewFrontNode(p)
      BY <2>5, ContentsFacts DEF NewFrontNode, QueueTypeOK
    <2>6. CASE FillFront(p)
      <3>1. PICK i \in {first, reg[p]} : cells' = WithCell(i, hand[p])
        BY <2>6 DEF FillFront
      <3>2. i \in Int
        BY ContentsFacts DEF QueueTypeOK
      <3> QED
        BY <2>6, <3>1, <3>2, <1>1, CellType, ContentsFacts DEF FillFront, QueueTypeOK
    <2> QED
      BY <2>1, <2>2, <2>3, <2>4, <2>5, <2>6 DEF FinishPush
  <1>3. /\ \A t \in Threads \ {p} : at'[t] = at[t]
        /\ at'[p] \in {"appended", "prepended", "fill", "idle"}
        /\ at'[p] # "idle" => at[p] # "idle" /\ hand'[p] = hand[p]
    <2>1. PICK s \in {"appended", "prepended", "fill", "idle"} :
             /\ at' = [at EXCEPT ![p] = s]
             /\ s # "idle" => at[p] # "idle" /\ hand' = hand
      BY <1>2
    <2>2. p \in Threads /\ at \in [Threads -> PushPoints \cup PopPoints]
      BY ContentsFacts DEF QueueTypeOK
    <2> QED
      BY <2>1, <2>2
  <1>4. QueueTypeOK'
    <2>1. at' \in [Threads -> PushPoints \cup PopPoints]
      BY <1>2, ContentsFacts DEF QueueTypeOK, PushPoints
    <2>2. mutex' \in Poppers \cup {None} /\ sent' \in Seq(Messages) /\ received' \in Seq(Contents)
      BY <1>2 DEF QueueTypeOK
    <2> QED
      BY <1>2, <2>1, <2>2 DEF QueueTypeOK
  <1>5. PointsOK'
    BY <1>2, <1>3, ContentsFacts DEF PointsOK, PushPoints
  <1>6. PopExclusive'
    BY <1>2, <1>3, ContentsFacts DEF PopExclusive
  <1> QED
    BY <1>4, <1>5, <1>6

LEMMA PopInv ==
  ASSUME QueueInv, NEW w \in Poppers, Pop(w) \/ SpuriousWake(w)
  PROVE  QueueInv'
  <1> USE DEF QueueInv
  <1>1. /\ \E s \in PopPoints : at' = [at EXCEPT ![w] = s]
        /\ mutex' \in {mutex, w, None}
        /\ hand' \in [Threads -> Contents \cup {None}]
        /\ \A t \in Threads \ {w} : hand'[t] = hand[t]
        /\ at'[w] = "advance" => hand'[w] \in Contents
        /\ at'[w] \in {"front", "advance"} <=> mutex' = w
        /\ \/ mutex = w /\ mutex' \in {w, None}
           \/ mutex = None /\ mutex' \in {w, None}
           \/ mutex \notin {w, None} /\ mutex' = mutex
    <2> USE ContentsFacts DEF QueueTypeOK, PopExclusive, PopPoints
    <2>1. CASE PopWait(w)
      BY <2>1 DEF PopWait
    <2>2. CASE PopLock(w)
      BY <2>2 DEF PopLock
    <2>3. CASE TakeFront(w)
      <3>1. Cell(first) \in Contents
        BY CellType
      <3> QED
        BY <2>3, <3>1 DEF TakeFront
    <2>4. CASE AdvanceFirst(w)
      BY <2>4 DEF AdvanceFirst
    <2>5. CASE SpuriousWake(w)
      BY <2>5 DEF SpuriousWake
    <2> QED
      BY <2>1, <2>2, <2>3, <2>4, <2>5 DEF Pop
  <1>2. /\ first' \in Int /\ last' \in Int /\ reg' \in [Threads -> Int]
        /\ DOMAIN cells' \subseteq Int /\ cells' \in [DOMAIN cells' -> Contents]
        /\ sent' \in Seq(Messages) /\ received' \in Seq(Contents)
    <2> USE ContentsFacts DEF QueueTypeOK
    <2>1. CASE PopWait(w) \/ PopLock(w) \/ SpuriousWake(w)
      BY <2>1 DEF PopWait, PopLock, SpuriousWake
    <2>2. CASE TakeFront(w)
      <3>1. cells' = WithCell(first, MovedFrom(Cell(first)))
        BY <2>2 DEF TakeFront
      <3>2. MovedFrom(Cell(first)) \in Contents
        BY CellType, MovedAssumption
      <3> QED
        BY <2>2, <3>1, <3>2, CellType DEF TakeFront
    <2>3. CASE AdvanceFirst(w)
      <3>1. hand[w] \in Contents
        BY <2>3 DEF AdvanceFirst, PointsOK
      <3> QED
        BY <2>3, <3>1 DEF AdvanceFirst
    <2> QED
      BY <2>1, <2>2, <2>3 DEF Pop
  <1>3. \A t \in Threads \ {w} : at'[t] = at[t]
    BY <1>1, ContentsFacts DEF QueueTypeOK
  <1>4. QueueTypeOK'
    <2>1. at' \in [Threads -> PushPoints \cup PopPoints]
      BY <1>1, ContentsFacts DEF QueueTypeOK
    <2>2. mutex' \in Poppers \cup {None}
      BY <1>1 DEF QueueTypeOK
    <2> QED
      BY <1>1, <1>2, <2>1, <2>2 DEF QueueTypeOK
  <1>5. PointsOK'
    <2>1. ASSUME NEW q \in Pushers
          PROVE  at'[q] \in PushPoints /\ (at'[q] # "idle" => hand'[q] \in Messages)
      BY <1>1, <1>3, ContentsFacts DEF PointsOK
    <2>2. ASSUME NEW v \in Poppers
          PROVE  at'[v] \in PopPoints /\ (at'[v] = "advance" => hand'[v] \in Contents)
      BY <1>1, <1>3, ContentsFacts DEF PointsOK, QueueTypeOK
    <2> QED
      BY <2>1, <2>2 DEF PointsOK
  <1>6. PopExclusive'
    BY <1>1, <1>3, ContentsFacts DEF PopExclusive
  <1> QED
    BY <1>4, <1>5, <1>6

LEMMA StutterInv ==
  ASSUME QueueInv, UNCHANGED queueVars
  PROVE  QueueInv'
  BY DEF QueueInv, queueVars, QueueTypeOK, PointsOK, PopExclusive, PopPoints, PushPoints

LEMMA StepInv ==
  ASSUME QueueInv, [QueueNext]_queueVars
  PROVE  QueueInv'
  <1>1. CASE \E p \in Pushers, m \in Messages : PushBack(p, m) \/ PushFront(p, m)
    BY <1>1, GuardedInv DEF PushBack, PushFront
  <1>2. CASE QueueStep
    BY <1>2, FinishPushInv, PopInv DEF QueueStep
  <1>3. CASE UNCHANGED queueVars
    BY <1>3, StutterInv
  <1> QED
    BY <1>1, <1>2, <1>3 DEF QueueNext, BackNext

\* The type invariant, for every use of the queue by any number of threads.
THEOREM QueueTypeCorrect == QueueSpec => []QueueTypeOK
  <1>1. QueueInv => QueueTypeOK
    BY DEF QueueInv
  <1> QED
    BY <1>1, InitInv, StepInv, PTL DEF QueueSpec

\* pop holds m_mutex from its test to its pop_front, so that no two poppers are
\* inside it, whatever the pushes that run beside them do to the deque.
THEOREM PopsExcludeEachOther == QueueSpec => []PopExclusive
  <1>1. QueueInv => PopExclusive
    BY DEF QueueInv
  <1> QED
    BY <1>1, InitInv, StepInv, PTL DEF QueueSpec

-----------------------------------------------------------------------------
(* No message twice.  A message that was sent is in one hand, in one cell or *)
(* received; a push and a pop move it on, and only a push makes a new one.    *)

\* The messages that no move leaves behind in the cell it was made from: a node_task
\* with a callsign is one.  The terminate task (nullptr, "") is not, its copy is left.
Emptied == {m \in Messages : \A c \in Contents : MovedFrom(c) # m}

\* pop has returned none of these messages more often than it was pushed.
OnceEach(S) ==
    \A m \in S : Cardinality(Positions(received, m)) <= Cardinality(Positions(sent, m))

Carries(t, m) == at[t] \in {"append", "prepend", "fill", "advance"} /\ hand[t] = m

Hands(m) == {t \in Threads : Carries(t, m)}

CopiesInv ==
    /\ IsFiniteSet(DOMAIN cells)
    /\ \A m \in Emptied :
          Cardinality(Positions(received, m)) + Cardinality(Positions(cells, m))
              + Cardinality(Hands(m)) <= Cardinality(Positions(sent, m))

LEMMA CopiesFinite ==
  ASSUME QueueTypeOK, IsFiniteSet(DOMAIN cells), NEW m
  PROVE  /\ IsFiniteSet(Positions(received, m)) /\ IsFiniteSet(Positions(sent, m))
         /\ IsFiniteSet(Positions(cells, m)) /\ IsFiniteSet(Hands(m))
         /\ Cardinality(Positions(received, m)) \in Nat /\ Cardinality(Positions(sent, m)) \in Nat
         /\ Cardinality(Positions(cells, m)) \in Nat /\ Cardinality(Hands(m)) \in Nat
  <1>1. IsFiniteSet(DOMAIN received) /\ IsFiniteSet(DOMAIN sent)
    <2>1. DOMAIN received = 1 .. Len(received) /\ DOMAIN sent = 1 .. Len(sent)
          /\ Len(received) \in Int /\ Len(sent) \in Int
      BY DEF QueueTypeOK
    <2> QED
      BY <2>1, FS_Interval
  <1>2. IsFiniteSet(Threads)
    BY ThreadsAssumption, FS_Union DEF Threads
  <1>3. /\ Positions(received, m) \in SUBSET DOMAIN received
        /\ Positions(sent, m) \in SUBSET DOMAIN sent
        /\ Positions(cells, m) \in SUBSET DOMAIN cells
        /\ Hands(m) \in SUBSET Threads
    BY DEF Positions, Hands
  <1>4. /\ IsFiniteSet(Positions(received, m)) /\ IsFiniteSet(Positions(sent, m))
        /\ IsFiniteSet(Positions(cells, m)) /\ IsFiniteSet(Hands(m))
    BY <1>1, <1>2, <1>3, FS_Subset
  <1> QED
    BY <1>4, FS_CardinalityType

\* One more position for what is appended.
LEMMA PositionsAppend ==
  ASSUME NEW S, NEW s \in Seq(S), NEW x \in S, NEW m
  PROVE  /\ IsFiniteSet(Positions(s, m)) /\ Cardinality(Positions(s, m)) \in Nat
         /\ IsFiniteSet(Positions(Append(s, x), m))
         /\ Cardinality(Positions(Append(s, x), m))
               = Cardinality(Positions(s, m)) + (IF x = m THEN 1 ELSE 0)
  <1>1. DOMAIN s = 1 .. Len(s) /\ Len(s) \in Int /\ Len(s) + 1 \notin DOMAIN s
    OBVIOUS
  <1>2. IsFiniteSet(DOMAIN s)
    BY <1>1, FS_Interval
  <1>3. Positions(s, m) \in SUBSET DOMAIN s
    BY DEF Positions
  <1>4. IsFiniteSet(Positions(s, m)) /\ Cardinality(Positions(s, m)) \in Nat
    BY <1>2, <1>3, FS_Subset, FS_CardinalityType
  <1>5. /\ DOMAIN Append(s, x) = DOMAIN s \cup {Len(s) + 1}
        /\ \A i \in DOMAIN s : Append(s, x)[i] = s[i]
        /\ Append(s, x)[Len(s) + 1] = x
    OBVIOUS
  <1>6. Positions(Append(s, x), m)
            = IF x = m THEN Positions(s, m) \cup {Len(s) + 1} ELSE Positions(s, m)
    BY <1>1, <1>5 DEF Positions
  <1>7. Len(s) + 1 \notin Positions(s, m)
    BY <1>1, <1>3
  <1> QED
    BY <1>4, <1>6, <1>7, FS_AddElement

\* A cell that is written holds what was written, and the others what they held.
LEMMA PositionsWithCell ==
  ASSUME QueueTypeOK, IsFiniteSet(DOMAIN cells), NEW i \in Int, NEW v, NEW m
  PROVE  /\ IsFiniteSet(DOMAIN WithCell(i, v))
         /\ Cardinality(Positions(WithCell(i, v), m))
               <= Cardinality(Positions(cells, m)) + (IF v = m THEN 1 ELSE 0)
         /\ Cardinality(Positions(WithCell(i, v), m)) \in Nat
         /\ (v # m /\ i \in Positions(cells, m)) =>
               Cardinality(Positions(WithCell(i, v), m)) = Cardinality(Positions(cells, m)) - 1
  <1>1. DOMAIN WithCell(i, v) = DOMAIN cells \cup {i}
        /\ \A j \in DOMAIN WithCell(i, v) : WithCell(i, v)[j] = IF j = i THEN v ELSE cells[j]
    BY DEF WithCell
  <1>2. IsFiniteSet(DOMAIN WithCell(i, v))
    BY <1>1, FS_AddElement
  <1>3. Positions(WithCell(i, v), m)
            = IF v = m THEN Positions(cells, m) \cup {i} ELSE Positions(cells, m) \ {i}
    BY <1>1 DEF Positions
  <1>4. IsFiniteSet(Positions(cells, m)) /\ Cardinality(Positions(cells, m)) \in Nat
    BY CopiesFinite
  <1>5. /\ IsFiniteSet(Positions(cells, m) \cup {i})
        /\ Cardinality(Positions(cells, m) \cup {i})
              = IF i \in Positions(cells, m) THEN Cardinality(Positions(cells, m))
                ELSE Cardinality(Positions(cells, m)) + 1
        /\ IsFiniteSet(Positions(cells, m) \ {i})
        /\ Cardinality(Positions(cells, m) \ {i})
              = IF i \in Positions(cells, m) THEN Cardinality(Positions(cells, m)) - 1
                ELSE Cardinality(Positions(cells, m))
    BY <1>4, FS_AddElement, FS_RemoveElement
  <1>6. Cardinality(Positions(WithCell(i, v), m)) \in Nat
    BY <1>3, <1>5, FS_CardinalityType
  <1> QED
    BY <1>2, <1>3, <1>4, <1>5, <1>6

\* One thread's hand changes.
LEMMA HandsChange ==
  ASSUME QueueTypeOK, IsFiniteSet(DOMAIN cells), NEW t \in Threads, NEW m,
         \A u \in Threads \ {t} : Carries(u, m)' <=> Carries(u, m)
  PROVE  Cardinality(Hands(m)') = Cardinality(Hands(m))
            + (IF Carries(t, m)' THEN 1 ELSE 0) - (IF Carries(t, m) THEN 1 ELSE 0)
  <1>1. IsFiniteSet(Hands(m)) /\ Cardinality(Hands(m)) \in Nat
    BY CopiesFinite
  <1>2. Hands(m)' = IF Carries(t, m)' THEN Hands(m) \cup {t} ELSE Hands(m) \ {t}
    BY DEF Hands
  <1>3. t \in Hands(m) <=> Carries(t, m)
    BY DEF Hands
  <1>4. /\ Cardinality(Hands(m) \cup {t})
              = IF t \in Hands(m) THEN Cardinality(Hands(m)) ELSE Cardinality(Hands(m)) + 1
        /\ Cardinality(Hands(m) \ {t})
              = IF t \in Hands(m) THEN Cardinality(Hands(m)) - 1 ELSE Cardinality(Hands(m))
    BY <1>1, FS_AddElement, FS_RemoveElement
  <1> QED
    BY <1>1, <1>2, <1>3, <1>4

LEMMA CopiesInit == QueueInit => CopiesInv
  <1> SUFFICES ASSUME QueueInit PROVE CopiesInv
    OBVIOUS
  <1>1. DOMAIN cells = {} /\ DOMAIN received = {} /\ DOMAIN sent = {}
    BY DEF QueueInit
  <1>2. \A m : /\ Positions(cells, m) = {} /\ Positions(received, m) = {}
               /\ Positions(sent, m) = {} /\ Hands(m) = {}
    BY <1>1 DEF Positions, Hands, Carries, QueueInit
  <1>3. IsFiniteSet(DOMAIN cells) /\ Cardinality({}) = 0
    BY <1>1, FS_EmptySet
  <1>4. ASSUME NEW m \in Emptied
        PROVE  Cardinality(Positions(received, m)) + Cardinality(Positions(cells, m))
                 + Cardinality(Hands(m)) <= Cardinality(Positions(sent, m))
    <2>1. /\ Cardinality(Positions(cells, m)) = 0 /\ Cardinality(Positions(received, m)) = 0
          /\ Cardinality(Positions(sent, m)) = 0 /\ Cardinality(Hands(m)) = 0
      BY <1>2, <1>3
    <2> QED
      BY <2>1
  <1> QED
    BY <1>3, <1>4 DEF CopiesInv

\* A push makes one.
LEMMA CopiesGuarded ==
  ASSUME QueueInv, CopiesInv, NEW p \in Pushers, NEW x \in Messages,
         NEW next \in {"append", "prepend"}, Guarded(p, x, next)
  PROVE  CopiesInv'
  <1> USE DEF QueueInv
  <1>1. /\ at[p] = "idle" /\ UNCHANGED <<cells, received>> /\ sent' = Append(sent, x)
        /\ sent \in Seq(Messages)
    BY DEF Guarded, QueueTypeOK
  <1>2. /\ at'[p] = next /\ hand'[p] = x
        /\ \A t \in Threads \ {p} : hand'[t] = hand[t]
              /\ at'[t] = IF at[t] = "asleep" THEN "woken" ELSE at[t]
    BY ContentsFacts DEF Guarded, Notified, QueueTypeOK
  <1> SUFFICES ASSUME NEW m \in Emptied
               PROVE  Cardinality(Positions(received, m)) + Cardinality(Positions(cells, m))
                        + Cardinality(Hands(m)') <= Cardinality(Positions(sent', m))
    BY <1>1 DEF CopiesInv, Positions
  <1>3. Cardinality(Hands(m)') = Cardinality(Hands(m)) + (IF x = m THEN 1 ELSE 0)
    <2>1. \A u \in Threads \ {p} : Carries(u, m)' <=> Carries(u, m)
      BY <1>2 DEF Carries
    <2>2. ~Carries(p, m) /\ (Carries(p, m)' <=> x = m)
      BY <1>1, <1>2 DEF Carries
    <2>3. Cardinality(Hands(m)) \in Nat
      BY CopiesFinite DEF CopiesInv
    <2> QED
      BY <2>1, <2>2, <2>3, HandsChange, ContentsFacts DEF CopiesInv
  <1>4. Cardinality(Positions(sent', m)) = Cardinality(Positions(sent, m)) + (IF x = m THEN 1 ELSE 0)
    BY <1>1, PositionsAppend
  <1> QED
    BY <1>3, <1>4, CopiesFinite DEF CopiesInv

\* Constructing a message writes it to a cell and lets it go.
LEMMA CopiesConstruct ==
  ASSUME QueueInv, CopiesInv, NEW p \in Pushers, NEW i \in Int,
         at[p] \in {"append", "prepend", "fill"}, at'[p] \in {"appended", "prepended", "idle"},
         cells' = WithCell(i, hand[p]), UNCHANGED <<sent, received>>,
         \A t \in Threads \ {p} : at'[t] = at[t] /\ hand'[t] = hand[t]
  PROVE  CopiesInv'
  <1> USE DEF QueueInv
  <1>1. IsFiniteSet(DOMAIN cells')
    BY PositionsWithCell DEF CopiesInv
  <1> SUFFICES ASSUME NEW m \in Emptied
               PROVE  Cardinality(Positions(received, m)) + Cardinality(Positions(cells', m))
                        + Cardinality(Hands(m)') <= Cardinality(Positions(sent, m))
    BY <1>1 DEF CopiesInv, Positions
  <1>2. Cardinality(Hands(m)') = Cardinality(Hands(m)) - (IF hand[p] = m THEN 1 ELSE 0)
    <2>1. \A u \in Threads \ {p} : Carries(u, m)' <=> Carries(u, m)
      BY DEF Carries
    <2>2. (Carries(p, m) <=> hand[p] = m) /\ ~Carries(p, m)'
      BY DEF Carries
    <2>3. Cardinality(Hands(m)) \in Nat
      BY CopiesFinite DEF CopiesInv
    <2> QED
      BY <2>1, <2>2, <2>3, HandsChange, ContentsFacts DEF CopiesInv
  <1>3. /\ Cardinality(Positions(cells', m))
              <= Cardinality(Positions(cells, m)) + (IF hand[p] = m THEN 1 ELSE 0)
        /\ Cardinality(Positions(cells', m)) \in Nat
    BY PositionsWithCell DEF CopiesInv
  <1> QED
    BY <1>2, <1>3, CopiesFinite DEF CopiesInv

LEMMA CopiesFinishPush ==
  ASSUME QueueInv, CopiesInv, NEW p \in Pushers, FinishPush(p)
  PROVE  CopiesInv'
  <1> USE DEF QueueInv
  <1>1. p \in Threads /\ first \in Int /\ last \in Int /\ reg[p] \in Int /\ first - 1 \in Int
    BY ContentsFacts DEF QueueTypeOK
  <1>2. CASE ConstructBack(p)
    <2>1. /\ at[p] = "append" /\ at'[p] = "appended" /\ cells' = WithCell(last, hand[p])
          /\ UNCHANGED <<sent, received>>
          /\ \A t \in Threads \ {p} : at'[t] = at[t] /\ hand'[t] = hand[t]
      BY <1>2, <1>1 DEF ConstructBack, QueueTypeOK
    <2> QED
      BY <1>1, <2>1, CopiesConstruct
  <1>3. CASE ConstructFront(p)
    <2>1. /\ at[p] = "prepend" /\ at'[p] = "prepended" /\ cells' = WithCell(first - 1, hand[p])
          /\ UNCHANGED <<sent, received>>
          /\ \A t \in Threads \ {p} : at'[t] = at[t] /\ hand'[t] = hand[t]
      BY <1>3, <1>1 DEF ConstructFront, QueueTypeOK
    <2> QED
      BY <1>1, <2>1, CopiesConstruct
  <1>4. CASE FillFront(p)
    <2>1. PICK i \in {first, reg[p]} : cells' = WithCell(i, hand[p])
      BY <1>4 DEF FillFront
    <2>2. /\ at[p] = "fill" /\ at'[p] = "idle"
          /\ UNCHANGED <<sent, received>>
          /\ \A t \in Threads \ {p} : at'[t] = at[t] /\ hand'[t] = hand[t]
      BY <1>4, <1>1 DEF FillFront, QueueTypeOK
    <2> QED
      BY <1>1, <2>1, <2>2, CopiesConstruct
  <1>5. CASE AdvanceLast(p) \/ RetreatFirst(p) \/ NewFrontNode(p)
    <2>1. \A m \in Emptied, t \in Threads : Carries(t, m)' <=> Carries(t, m)
      BY <1>5, <1>1 DEF AdvanceLast, RetreatFirst, NewFrontNode, Carries, QueueTypeOK
    <2>2. \A m \in Emptied : Hands(m)' = Hands(m)
      BY <2>1 DEF Hands
    <2>3. UNCHANGED <<cells, sent, received>>
      BY <1>5 DEF AdvanceLast, RetreatFirst, NewFrontNode
    <2> QED
      BY <2>2, <2>3 DEF CopiesInv, Positions
  <1> QED
    BY <1>2, <1>3, <1>4, <1>5 DEF FinishPush

\* A pop moves one out of its cell, and returns it.
LEMMA CopiesTake ==
  ASSUME QueueInv, CopiesInv, NEW w \in Poppers, TakeFront(w)
  PROVE  CopiesInv'
  <1> USE DEF QueueInv
  <1>1. /\ at[w] = "front" /\ at'[w] = "advance" /\ hand'[w] = Cell(first)
        /\ cells' = WithCell(first, MovedFrom(Cell(first)))
        /\ UNCHANGED <<sent, received>> /\ first \in Int
        /\ \A t \in Threads \ {w} : at'[t] = at[t] /\ hand'[t] = hand[t]
    BY ContentsFacts DEF TakeFront, QueueTypeOK
  <1>2. \A n \in Emptied : MovedFrom(Cell(first)) # n
    <2>1. Cell(first) \in Contents
      BY CellType, <1>1, ContentsFacts
    <2> QED
      BY <2>1 DEF Emptied
  <1>3. IsFiniteSet(DOMAIN cells')
    BY <1>1, PositionsWithCell DEF CopiesInv
  <1> SUFFICES ASSUME NEW m \in Emptied
               PROVE  Cardinality(Positions(received, m)) + Cardinality(Positions(cells', m))
                        + Cardinality(Hands(m)') <= Cardinality(Positions(sent, m))
    BY <1>1, <1>3 DEF CopiesInv, Positions
  <1>4. Cardinality(Hands(m)') = Cardinality(Hands(m)) + (IF Cell(first) = m THEN 1 ELSE 0)
    <2>1. \A u \in Threads \ {w} : Carries(u, m)' <=> Carries(u, m)
      BY <1>1 DEF Carries
    <2>2. ~Carries(w, m) /\ (Carries(w, m)' <=> Cell(first) = m)
      BY <1>1 DEF Carries
    <2>3. Cardinality(Hands(m)) \in Nat
      BY CopiesFinite DEF CopiesInv
    <2> QED
      BY <2>1, <2>2, <2>3, HandsChange, ContentsFacts DEF CopiesInv
  <1>5. Cell(first) = m => first \in Positions(cells, m)
    BY MessagesAssumption DEF Cell, Positions, Emptied
  <1>6. /\ Cardinality(Positions(cells', m)) \in Nat
        /\ Cardinality(Positions(cells', m)) <= Cardinality(Positions(cells, m))
        /\ Cell(first) = m =>
              Cardinality(Positions(cells', m)) = Cardinality(Positions(cells, m)) - 1
    <2>1. Cardinality(Positions(cells, m)) \in Nat
      BY CopiesFinite DEF CopiesInv
    <2> QED
      BY <1>1, <1>2, <1>5, <2>1, PositionsWithCell DEF CopiesInv
  <1> QED
    BY <1>4, <1>6, CopiesFinite DEF CopiesInv

LEMMA CopiesPop ==
  ASSUME QueueInv, CopiesInv, NEW w \in Poppers, Pop(w) \/ SpuriousWake(w)
  PROVE  CopiesInv'
  <1> USE DEF QueueInv
  <1>1. CASE PopWait(w) \/ PopLock(w) \/ SpuriousWake(w)
    <2>1. \A m \in Emptied, t \in Threads : Carries(t, m)' <=> Carries(t, m)
      BY <1>1, ContentsFacts DEF PopWait, PopLock, SpuriousWake, Carries, QueueTypeOK
    <2>2. \A m \in Emptied : Hands(m)' = Hands(m)
      BY <2>1 DEF Hands
    <2>3. UNCHANGED <<cells, sent, received>>
      BY <1>1 DEF PopWait, PopLock, SpuriousWake
    <2> QED
      BY <2>2, <2>3 DEF CopiesInv, Positions
  <1>2. CASE AdvanceFirst(w)
    <2>1. /\ at[w] = "advance" /\ at'[w] = "idle" /\ received' = Append(received, hand[w])
          /\ hand[w] \in Contents /\ received \in Seq(Contents)
          /\ UNCHANGED <<cells, sent, hand>>
          /\ \A t \in Threads \ {w} : at'[t] = at[t]
      BY <1>2, ContentsFacts DEF AdvanceFirst, QueueTypeOK, PointsOK
    <2> SUFFICES ASSUME NEW m \in Emptied
                 PROVE  Cardinality(Positions(received', m)) + Cardinality(Positions(cells, m))
                          + Cardinality(Hands(m)') <= Cardinality(Positions(sent, m))
      BY <2>1 DEF CopiesInv, Positions
    <2>2. Cardinality(Hands(m)') = Cardinality(Hands(m)) - (IF hand[w] = m THEN 1 ELSE 0)
      <3>1. \A u \in Threads \ {w} : Carries(u, m)' <=> Carries(u, m)
        BY <2>1 DEF Carries
      <3>2. (Carries(w, m) <=> hand[w] = m) /\ ~Carries(w, m)'
        BY <2>1 DEF Carries
      <3>3. Cardinality(Hands(m)) \in Nat
        BY CopiesFinite DEF CopiesInv
      <3> QED
        BY <3>1, <3>2, <3>3, HandsChange, ContentsFacts DEF CopiesInv
    <2>3. Cardinality(Positions(received', m))
              = Cardinality(Positions(received, m)) + (IF hand[w] = m THEN 1 ELSE 0)
      BY <2>1, PositionsAppend
    <2> QED
      BY <2>2, <2>3, CopiesFinite DEF CopiesInv
  <1> QED
    BY <1>1, <1>2, CopiesTake DEF Pop

LEMMA CopiesStutter ==
  ASSUME CopiesInv, UNCHANGED queueVars
  PROVE  CopiesInv'
  BY DEF CopiesInv, queueVars, Positions, Hands, Carries

LEMMA CopiesStep ==
  ASSUME QueueInv, CopiesInv, [QueueNext]_queueVars
  PROVE  CopiesInv'
  <1>1. CASE \E p \in Pushers, m \in Messages : PushBack(p, m) \/ PushFront(p, m)
    BY <1>1, CopiesGuarded DEF PushBack, PushFront
  <1>2. CASE QueueStep
    BY <1>2, CopiesFinishPush, CopiesPop DEF QueueStep
  <1> QED
    BY <1>1, <1>2, CopiesStutter DEF QueueNext, BackNext

LEMMA CopiesImply ==
  ASSUME QueueTypeOK, CopiesInv
  PROVE  OnceEach(Emptied)
  BY CopiesFinite DEF CopiesInv, OnceEach

\* However many threads push and pop at once, at whichever end, no message that a move
\* empties (a node_task with its callsign) is returned more often than it was pushed,
\* although a push excludes neither the pops nor another push.
THEOREM NoMessageTwice == QueueSpec => []OnceEach(Emptied)
  <1>1. QueueInv /\ CopiesInv => OnceEach(Emptied)
    BY CopiesImply DEF QueueInv
  <1>2. QueueInv /\ CopiesInv /\ [QueueNext]_queueVars => CopiesInv'
    BY CopiesStep
  <1> QED
    BY <1>1, <1>2, InitInv, StepInv, CopiesInit, PTL DEF QueueSpec

-----------------------------------------------------------------------------
(* Nor is a message that a move leaves where it was (a terminate task, what  *)
(* a console task has captured), as long as every push is at the back: the   *)
(* start cursor then only moves on, by one cell with each pop, and what is   *)
(* left behind it is not read again.                                         *)

Ahead(m) == {i \in Positions(cells, m) : i >= first /\ ~TakenOut(i)}

AheadInv ==
    /\ IsFiniteSet(DOMAIN cells)
    /\ \A p \in Pushers : at[p] \in {"idle", "append", "appended"}
    /\ \A w \in Poppers : at[w] = "advance" => reg[w] = first
    /\ \A m \in Messages :
          Cardinality(Positions(received, m)) + Cardinality(Ahead(m))
              + Cardinality(Hands(m)) <= Cardinality(Positions(sent, m))

LEMMA AheadFinite ==
  ASSUME QueueTypeOK, IsFiniteSet(DOMAIN cells), NEW m
  PROVE  IsFiniteSet(Ahead(m)) /\ Cardinality(Ahead(m)) \in Nat
  <1>1. IsFiniteSet(Positions(cells, m)) /\ Ahead(m) \in SUBSET Positions(cells, m)
    BY CopiesFinite DEF Ahead
  <1> QED
    BY <1>1, FS_Subset, FS_CardinalityType

LEMMA AheadInit == QueueInit => AheadInv
  <1> SUFFICES ASSUME QueueInit PROVE AheadInv
    OBVIOUS
  <1>1. DOMAIN cells = {} /\ DOMAIN received = {} /\ DOMAIN sent = {}
        /\ \A t \in Threads : at[t] = "idle"
    BY DEF QueueInit
  <1>2. \A m : /\ Ahead(m) = {} /\ Positions(received, m) = {}
               /\ Positions(sent, m) = {} /\ Hands(m) = {}
    BY <1>1 DEF Positions, Hands, Carries, Ahead
  <1>3. IsFiniteSet(DOMAIN cells) /\ Cardinality({}) = 0
    BY <1>1, FS_EmptySet
  <1>4. ASSUME NEW m \in Messages
        PROVE  Cardinality(Positions(received, m)) + Cardinality(Ahead(m))
                 + Cardinality(Hands(m)) <= Cardinality(Positions(sent, m))
    <2>1. /\ Cardinality(Ahead(m)) = 0 /\ Cardinality(Positions(received, m)) = 0
          /\ Cardinality(Positions(sent, m)) = 0 /\ Cardinality(Hands(m)) = 0
      BY <1>2, <1>3
    <2> QED
      BY <2>1
  <1> QED
    BY <1>1, <1>3, <1>4, ContentsFacts DEF AheadInv

\* Where the cells and their cursors stay, so do the messages ahead.
LEMMA AheadSame ==
  ASSUME UNCHANGED <<cells, first>>, \A i : TakenOut(i)' <=> TakenOut(i), NEW m
  PROVE  Ahead(m)' = Ahead(m)
  BY DEF Ahead, Positions

\* What a pusher does to its own point in push takes nothing out.
LEMMA TakenOutSame ==
  ASSUME QueueInv, NEW p \in Pushers, UNCHANGED <<first, mutex>>,
         \A t \in Threads \ {p} : at'[t] = "advance" <=> at[t] = "advance"
  PROVE  \A i : TakenOut(i)' <=> TakenOut(i)
  <1>1. mutex # None => mutex \in Threads \ {p}
    BY ContentsFacts DEF QueueInv, QueueTypeOK
  <1> QED
    BY <1>1 DEF TakenOut

LEMMA AheadPushBack ==
  ASSUME QueueInv, AheadInv, NEW p \in Pushers, NEW x \in Messages, PushBack(p, x)
  PROVE  AheadInv'
  <1> USE DEF QueueInv
  <1>1. /\ at[p] = "idle" /\ UNCHANGED <<cells, first, mutex, reg, received>>
        /\ sent' = Append(sent, x) /\ sent \in Seq(Messages)
    BY DEF PushBack, Guarded, QueueTypeOK
  <1>2. /\ at'[p] = "append" /\ hand'[p] = x
        /\ \A t \in Threads \ {p} : hand'[t] = hand[t]
              /\ at'[t] = IF at[t] = "asleep" THEN "woken" ELSE at[t]
    BY ContentsFacts DEF PushBack, Guarded, Notified, QueueTypeOK
  <1>3. \A i : TakenOut(i)' <=> TakenOut(i)
    BY <1>1, <1>2, TakenOutSame
  <1>4. /\ \A q \in Pushers : at'[q] \in {"idle", "append", "appended"}
        /\ \A w \in Poppers : at'[w] = "advance" => reg'[w] = first'
    BY <1>1, <1>2, ContentsFacts DEF AheadInv
  <1> SUFFICES ASSUME NEW m \in Messages
               PROVE  Cardinality(Positions(received, m)) + Cardinality(Ahead(m))
                        + Cardinality(Hands(m)') <= Cardinality(Positions(sent', m))
    BY <1>1, <1>3, <1>4, AheadSame DEF AheadInv, Positions
  <1>5. Cardinality(Hands(m)') = Cardinality(Hands(m)) + (IF x = m THEN 1 ELSE 0)
    <2>1. \A u \in Threads \ {p} : Carries(u, m)' <=> Carries(u, m)
      BY <1>2 DEF Carries
    <2>2. ~Carries(p, m) /\ (Carries(p, m)' <=> x = m)
      BY <1>1, <1>2 DEF Carries
    <2>3. Cardinality(Hands(m)) \in Nat
      BY CopiesFinite DEF AheadInv
    <2> QED
      BY <2>1, <2>2, <2>3, HandsChange, ContentsFacts DEF AheadInv
  <1>6. Cardinality(Positions(sent', m)) = Cardinality(Positions(sent, m)) + (IF x = m THEN 1 ELSE 0)
    BY <1>1, PositionsAppend
  <1> QED
    BY <1>5, <1>6, CopiesFinite, AheadFinite DEF AheadInv

LEMMA AheadConstruct ==
  ASSUME QueueInv, AheadInv, NEW p \in Pushers, ConstructBack(p)
  PROVE  AheadInv'
  <1> USE DEF QueueInv
  <1>1. /\ at[p] = "append" /\ at'[p] = "appended" /\ cells' = WithCell(last, hand[p])
        /\ UNCHANGED <<first, mutex, hand, sent, received>> /\ last \in Int
        /\ \A t \in Threads \ {p} : at'[t] = at[t] /\ reg'[t] = reg[t]
    BY ContentsFacts DEF ConstructBack, QueueTypeOK
  <1>2. \A i : TakenOut(i)' <=> TakenOut(i)
    BY <1>1, TakenOutSame
  <1>3. /\ \A q \in Pushers : at'[q] \in {"idle", "append", "appended"}
        /\ \A w \in Poppers : at'[w] = "advance" => reg'[w] = first'
    BY <1>1, ContentsFacts DEF AheadInv
  <1>4. IsFiniteSet(DOMAIN cells')
    BY <1>1, PositionsWithCell DEF AheadInv
  <1> SUFFICES ASSUME NEW m \in Messages
               PROVE  Cardinality(Positions(received, m)) + Cardinality(Ahead(m)')
                        + Cardinality(Hands(m)') <= Cardinality(Positions(sent, m))
    BY <1>1, <1>3, <1>4 DEF AheadInv, Positions
  <1>5. Cardinality(Hands(m)') = Cardinality(Hands(m)) - (IF hand[p] = m THEN 1 ELSE 0)
    <2>1. \A u \in Threads \ {p} : Carries(u, m)' <=> Carries(u, m)
      BY <1>1 DEF Carries
    <2>2. (Carries(p, m) <=> hand[p] = m) /\ ~Carries(p, m)'
      BY <1>1 DEF Carries
    <2>3. Cardinality(Hands(m)) \in Nat
      BY CopiesFinite DEF AheadInv
    <2> QED
      BY <2>1, <2>2, <2>3, HandsChange, ContentsFacts DEF AheadInv
  <1>6. /\ Cardinality(Ahead(m)') <= Cardinality(Ahead(m)) + (IF hand[p] = m THEN 1 ELSE 0)
        /\ Cardinality(Ahead(m)') \in Nat
    <2>1. IsFiniteSet(Ahead(m)) /\ Cardinality(Ahead(m)) \in Nat
      BY AheadFinite DEF AheadInv
    <2>2. Ahead(m)' \in SUBSET (IF hand[p] = m THEN Ahead(m) \cup {last} ELSE Ahead(m))
      BY <1>1, <1>2 DEF Ahead, Positions, WithCell
    <2>3. /\ IsFiniteSet(Ahead(m) \cup {last})
          /\ Cardinality(Ahead(m) \cup {last}) <= Cardinality(Ahead(m)) + 1
      BY <2>1, FS_AddElement
    <2>4. CASE hand[p] = m
      <3>1. Ahead(m)' \in SUBSET (Ahead(m) \cup {last})
        BY <2>2, <2>4
      <3>2. /\ IsFiniteSet(Ahead(m)')
            /\ Cardinality(Ahead(m)') <= Cardinality(Ahead(m) \cup {last})
            /\ Cardinality(Ahead(m)') \in Nat /\ Cardinality(Ahead(m) \cup {last}) \in Nat
        BY <3>1, <2>3, FS_Subset, FS_CardinalityType
      <3> QED
        BY <2>1, <2>3, <2>4, <3>2
    <2>5. CASE hand[p] # m
      <3>1. Ahead(m)' \in SUBSET Ahead(m)
        BY <2>2, <2>5
      <3>2. /\ IsFiniteSet(Ahead(m)') /\ Cardinality(Ahead(m)') <= Cardinality(Ahead(m))
            /\ Cardinality(Ahead(m)') \in Nat
        BY <3>1, <2>1, FS_Subset, FS_CardinalityType
      <3> QED
        BY <2>1, <2>5, <3>2
    <2> QED
      BY <2>4, <2>5
  <1> QED
    BY <1>5, <1>6, CopiesFinite, AheadFinite DEF AheadInv

LEMMA AheadFinishPush ==
  ASSUME QueueInv, AheadInv, NEW p \in Pushers, FinishPush(p)
  PROVE  AheadInv'
  <1> USE DEF QueueInv
  <1>1. CASE AdvanceLast(p)
    <2>1. /\ at[p] = "appended" /\ at'[p] = "idle"
          /\ UNCHANGED <<cells, first, mutex, reg, sent, received>>
          /\ \A t \in Threads \ {p} : at'[t] = at[t] /\ hand'[t] = hand[t]
      BY <1>1, ContentsFacts DEF AdvanceLast, QueueTypeOK
    <2>2. \A i : TakenOut(i)' <=> TakenOut(i)
      BY <2>1, TakenOutSame
    <2>3. \A m \in Messages, t \in Threads : Carries(t, m)' <=> Carries(t, m)
      BY <2>1 DEF Carries
    <2>4. \A m \in Messages : Hands(m)' = Hands(m)
      BY <2>3 DEF Hands
    <2>5. \A m \in Messages : Ahead(m)' = Ahead(m)
      BY <2>1, <2>2, AheadSame
    <2> QED
      BY <2>1, <2>4, <2>5, ContentsFacts DEF AheadInv, Positions
  <1>2. at[p] \in {"idle", "append", "appended"}
    BY DEF AheadInv
  <1> QED
    BY <1>1, <1>2, AheadConstruct
       DEF FinishPush, ConstructFront, RetreatFirst, NewFrontNode, FillFront

LEMMA AheadTake ==
  ASSUME QueueInv, AheadInv, NEW w \in Poppers, TakeFront(w)
  PROVE  AheadInv'
  <1> USE DEF QueueInv
  <1>1. /\ at[w] = "front" /\ at'[w] = "advance" /\ hand'[w] = Cell(first)
        /\ cells' = WithCell(first, MovedFrom(Cell(first)))
        /\ UNCHANGED <<first, mutex, sent, received>> /\ first \in Int /\ reg'[w] = first
        /\ \A t \in Threads \ {w} : at'[t] = at[t] /\ hand'[t] = hand[t] /\ reg'[t] = reg[t]
    BY ContentsFacts DEF TakeFront, QueueTypeOK
  <1>2. mutex = w /\ w # None
    BY <1>1, ContentsFacts DEF PopExclusive
  <1>3. (\A i : ~TakenOut(i)) /\ \A i : TakenOut(i)' <=> i = first
    BY <1>1, <1>2 DEF TakenOut
  <1>4. /\ \A q \in Pushers : at'[q] \in {"idle", "append", "appended"}
        /\ \A v \in Poppers : at'[v] = "advance" => reg'[v] = first'
    BY <1>1, ContentsFacts DEF AheadInv
  <1>5. IsFiniteSet(DOMAIN cells')
    BY <1>1, PositionsWithCell DEF AheadInv
  <1> SUFFICES ASSUME NEW m \in Messages
               PROVE  Cardinality(Positions(received, m)) + Cardinality(Ahead(m)')
                        + Cardinality(Hands(m)') <= Cardinality(Positions(sent, m))
    BY <1>1, <1>4, <1>5 DEF AheadInv, Positions
  <1>6. Cardinality(Hands(m)') = Cardinality(Hands(m)) + (IF Cell(first) = m THEN 1 ELSE 0)
    <2>1. \A u \in Threads \ {w} : Carries(u, m)' <=> Carries(u, m)
      BY <1>1 DEF Carries
    <2>2. ~Carries(w, m) /\ (Carries(w, m)' <=> Cell(first) = m)
      BY <1>1 DEF Carries
    <2>3. Cardinality(Hands(m)) \in Nat
      BY CopiesFinite DEF AheadInv
    <2> QED
      BY <2>1, <2>2, <2>3, HandsChange, ContentsFacts DEF AheadInv
  <1>7. Cell(first) = m => first \in Ahead(m)
    BY <1>1, <1>3, MessagesAssumption DEF Cell, Ahead, Positions
  <1>8. Ahead(m)' = Ahead(m) \ {first}
    BY <1>1, <1>3 DEF Ahead, Positions, WithCell
  <1>9. Cardinality(Ahead(m)') = Cardinality(Ahead(m)) - (IF first \in Ahead(m) THEN 1 ELSE 0)
        /\ Cardinality(Ahead(m)) \in Nat
    <2>1. IsFiniteSet(Ahead(m)) /\ Cardinality(Ahead(m)) \in Nat
      BY AheadFinite DEF AheadInv
    <2>2. Cardinality(Ahead(m) \ {first})
              = IF first \in Ahead(m) THEN Cardinality(Ahead(m)) - 1 ELSE Cardinality(Ahead(m))
      BY <2>1, FS_RemoveElement
    <2> QED
      BY <1>8, <2>1, <2>2
  <1> QED
    BY <1>6, <1>7, <1>9, CopiesFinite DEF AheadInv

LEMMA AheadAdvance ==
  ASSUME QueueInv, AheadInv, NEW w \in Poppers, AdvanceFirst(w)
  PROVE  AheadInv'
  <1> USE DEF QueueInv
  <1>1. /\ at[w] = "advance" /\ at'[w] = "idle" /\ received' = Append(received, hand[w])
        /\ hand[w] \in Contents /\ received \in Seq(Contents) /\ mutex' = None
        /\ UNCHANGED <<cells, sent, hand, reg>> /\ first \in Int
        /\ \A t \in Threads \ {w} : at'[t] = at[t]
    BY ContentsFacts DEF AdvanceFirst, QueueTypeOK, PointsOK
  <1>2. mutex = w /\ w # None /\ first' = first + 1
    BY <1>1, ContentsFacts DEF PopExclusive, AheadInv, AdvanceFirst
  <1>3. (\A i : TakenOut(i) <=> i = first) /\ \A i : ~TakenOut(i)'
    BY <1>1, <1>2 DEF TakenOut
  <1>4. /\ \A q \in Pushers : at'[q] \in {"idle", "append", "appended"}
        /\ \A v \in Poppers : at'[v] # "advance"
    BY <1>1, <1>2, ContentsFacts DEF AheadInv, PopExclusive
  <1>5. \A m : Ahead(m)' = Ahead(m)
    <2>1. \A i \in DOMAIN cells : i \in Int
      BY DEF QueueTypeOK
    <2>2. \A i \in Int : (i >= first + 1) <=> (i >= first /\ i # first)
      BY <1>1
    <2> QED
      BY <1>1, <1>2, <1>3, <2>1, <2>2 DEF Ahead, Positions
  <1> SUFFICES ASSUME NEW m \in Messages
               PROVE  Cardinality(Positions(received', m)) + Cardinality(Ahead(m))
                        + Cardinality(Hands(m)') <= Cardinality(Positions(sent, m))
    BY <1>1, <1>4, <1>5 DEF AheadInv, Positions
  <1>6. Cardinality(Hands(m)') = Cardinality(Hands(m)) - (IF hand[w] = m THEN 1 ELSE 0)
    <2>1. \A u \in Threads \ {w} : Carries(u, m)' <=> Carries(u, m)
      BY <1>1 DEF Carries
    <2>2. (Carries(w, m) <=> hand[w] = m) /\ ~Carries(w, m)'
      BY <1>1 DEF Carries
    <2>3. Cardinality(Hands(m)) \in Nat
      BY CopiesFinite DEF AheadInv
    <2> QED
      BY <2>1, <2>2, <2>3, HandsChange, ContentsFacts DEF AheadInv
  <1>7. Cardinality(Positions(received', m))
            = Cardinality(Positions(received, m)) + (IF hand[w] = m THEN 1 ELSE 0)
    BY <1>1, PositionsAppend
  <1> QED
    BY <1>6, <1>7, CopiesFinite, AheadFinite DEF AheadInv

LEMMA AheadPop ==
  ASSUME QueueInv, AheadInv, NEW w \in Poppers, Pop(w) \/ SpuriousWake(w)
  PROVE  AheadInv'
  <1> USE DEF QueueInv
  <1>1. CASE PopWait(w) \/ PopLock(w) \/ SpuriousWake(w)
    <2>1. /\ UNCHANGED <<cells, first, hand, reg, sent, received>>
          /\ at[w] # "advance" /\ at'[w] \in {"asleep", "woken", "front"}
          /\ \A t \in Threads \ {w} : at'[t] = at[t]
      BY <1>1, ContentsFacts DEF PopWait, PopLock, SpuriousWake, QueueTypeOK
    <2>2. \A m \in Messages, t \in Threads : Carries(t, m)' <=> Carries(t, m)
      <3>1. at[w] \in {"idle", "woken", "asleep"}
        BY <1>1 DEF PopWait, PopLock, SpuriousWake
      <3> QED
        BY <2>1, <3>1 DEF Carries
    <2>3. \A m \in Messages : Hands(m)' = Hands(m)
      BY <2>2 DEF Hands
    <2>4. \A i : TakenOut(i)' <=> TakenOut(i)
      BY <1>1, <2>1, ContentsFacts
         DEF TakenOut, PopWait, PopLock, SpuriousWake, QueueTypeOK
    <2>5. \A m \in Messages : Ahead(m)' = Ahead(m)
      BY <2>1, <2>4, AheadSame
    <2> QED
      BY <2>1, <2>3, <2>5, ContentsFacts DEF AheadInv, Positions
  <1> QED
    BY <1>1, AheadTake, AheadAdvance DEF Pop

LEMMA AheadStutter ==
  ASSUME AheadInv, UNCHANGED queueVars
  PROVE  AheadInv'
  <1>1. UNCHANGED <<cells, first, mutex, at, hand, reg, sent, received>>
    BY DEF queueVars
  <1>2. \A m : Hands(m)' = Hands(m) /\ Ahead(m)' = Ahead(m)
               /\ Positions(received, m)' = Positions(received, m)
               /\ Positions(sent, m)' = Positions(sent, m)
    BY <1>1 DEF Hands, Carries, Ahead, Positions, TakenOut
  <1> QED
    BY <1>1, <1>2 DEF AheadInv

LEMMA AheadStep ==
  ASSUME QueueInv, AheadInv, [BackNext]_queueVars
  PROVE  AheadInv'
  BY AheadPushBack, AheadFinishPush, AheadPop, AheadStutter DEF BackNext, QueueStep

LEMMA AheadImplies ==
  ASSUME QueueTypeOK, AheadInv
  PROVE  OnceEach(Messages)
  BY CopiesFinite, AheadFinite DEF AheadInv, OnceEach

\* However many threads push at the back and pop at once, no message is returned more
\* often than it was pushed, whatever a move leaves of it.
THEOREM NoMessageTwiceFromTheBack == BackSpec => []OnceEach(Messages)
  <1>1. QueueInv /\ AheadInv => OnceEach(Messages)
    BY AheadImplies DEF QueueInv
  <1>2. QueueInv /\ AheadInv /\ [BackNext]_queueVars => QueueInv' /\ AheadInv'
    <2> SUFFICES ASSUME QueueInv, AheadInv, [BackNext]_queueVars PROVE QueueInv' /\ AheadInv'
      OBVIOUS
    <2>1. [QueueNext]_queueVars
      BY DEF QueueNext
    <2> QED
      BY <2>1, StepInv, AheadStep
  <1> QED
    BY <1>1, <1>2, InitInv, AheadInit, PTL DEF BackSpec

-----------------------------------------------------------------------------
(* A queue with one pusher that pushes at the back delivers every message,   *)
(* once, whole and in order, hides at most one from a sleeping popper, and   *)
(* implements TaskFifo.                                                      *)

\* What the steps of such a queue assume.
Single(p) == QueueInv /\ Pushers = {p} /\ SinglePusherInv(p)

LEMMA CountersType ==
  ASSUME QueueTypeOK
  PROVE  /\ first \in Int /\ last \in Int
         /\ Len(sent) \in Nat /\ Len(received) \in Nat
         /\ \A p : Busy(p) \in {0, 1}
  BY DEF QueueTypeOK, Busy

LEMMA SingleInit ==
  ASSUME QueueInit, NEW p, Pushers = {p}
  PROVE  SinglePusherInv(p)
  BY ContentsFacts DEF QueueInit, SinglePusherInv, Busy, Threads

LEMMA SinglePushBack ==
  ASSUME NEW p, Single(p), NEW m \in Messages, PushBack(p, m)
  PROVE  SinglePusherInv(p)'
  <1> USE DEF Single, QueueInv
  <1>1. /\ at[p] = "idle" /\ mutex = None
        /\ UNCHANGED <<cells, first, last, mutex, reg, received>>
        /\ sent' = Append(sent, m)
    BY DEF PushBack, Guarded
  <1>2. /\ at'[p] = "append" /\ hand'[p] = m
        /\ \A w \in Poppers : at'[w] # "asleep" /\ at'[w] \in {"woken", at[w]} /\ hand'[w] = hand[w]
    BY ContentsFacts DEF PushBack, Guarded, Notified, QueueTypeOK
  <1>3. /\ Len(sent') = Len(sent) + 1 /\ sent'[Len(sent) + 1] = m
        /\ \A i \in 1 .. Len(sent) : sent'[i] = sent[i]
    BY <1>1 DEF QueueTypeOK
  <1>4. Len(sent) = last /\ first = Len(received) /\ first <= last /\ last \in Nat
    BY <1>1, CountersType DEF SinglePusherInv, Busy
  <1>5. \A i : Cell(i)' = Cell(i)
    BY <1>1 DEF Cell
  <1>6. \A i \in first .. (last - 1) : Cell(i) = sent[i + 1]
    BY <1>1 DEF SinglePusherInv, TakenOut
  <1>7. \A w \in Poppers : at'[w] # "advance"
    BY <1>1, <1>2, ContentsFacts DEF PopExclusive
  <1>8. \A i \in 1 .. Len(received) : received[i] = sent[i]
    BY DEF SinglePusherInv
  <1> QED
    BY <1>1, <1>2, <1>3, <1>4, <1>5, <1>6, <1>7, <1>8, CountersType
       DEF SinglePusherInv, Busy, TakenOut

LEMMA SingleFinishPush ==
  ASSUME NEW p, Single(p), FinishPush(p)
  PROVE  SinglePusherInv(p)'
  <1> USE DEF Single, QueueInv
  <1>1. CASE ConstructBack(p)
    <2>1. /\ at[p] = "append" /\ cells' = WithCell(last, hand[p])
          /\ UNCHANGED <<first, last, mutex, hand, sent, received>>
      BY <1>1 DEF ConstructBack
    <2>2. /\ at'[p] = "appended" /\ reg'[p] = last
          /\ \A w \in Poppers : at'[w] = at[w] /\ reg'[w] = reg[w]
      BY <1>1, ContentsFacts DEF ConstructBack, QueueTypeOK
    <2>3. hand[p] \in Contents /\ last \in Int /\ first \in Int
      BY <2>1, ContentsFacts DEF PointsOK, QueueTypeOK
    <2>4. Cell(last)' = hand[p] /\ \A i \in first .. (last - 1) : Cell(i)' = Cell(i)
      BY <2>1, <2>3, CellType DEF Cell
    <2>5. mutex # None => mutex \in Poppers
      BY DEF QueueTypeOK
    <2> QED
      BY <2>1, <2>2, <2>3, <2>4, <2>5, CountersType DEF SinglePusherInv, Busy, TakenOut
  <1>2. CASE AdvanceLast(p)
    <2>1. /\ at[p] = "appended"
          /\ UNCHANGED <<cells, first, mutex, reg, sent, received>>
      BY <1>2 DEF AdvanceLast
    <2>2. /\ at'[p] = "idle"
          /\ \A w \in Poppers : at'[w] = at[w] /\ hand'[w] = hand[w]
      BY <1>2, ContentsFacts DEF AdvanceLast, QueueTypeOK
    <2>3. last' = last + 1 /\ Len(sent) = last + 1 /\ last \in Int /\ first \in Int
      BY <1>2, <2>1, CountersType DEF AdvanceLast, SinglePusherInv, Busy
    <2>4. \A i : Cell(i)' = Cell(i)
      BY <2>1 DEF Cell
    <2>5. Cell(last) = sent[last + 1]
      BY <2>1 DEF SinglePusherInv
    <2>6. \A i \in first .. last : TakenOut(i) \/ Cell(i) = sent[i + 1]
      BY <2>3, <2>5 DEF SinglePusherInv
    <2>7. \A i : TakenOut(i) => TakenOut(i)'
      BY <2>1, <2>2 DEF TakenOut, QueueTypeOK
    <2> QED
      BY <2>1, <2>2, <2>3, <2>4, <2>6, <2>7, CountersType DEF SinglePusherInv, Busy
  <1> QED
    BY <1>1, <1>2 DEF FinishPush, ConstructFront, RetreatFirst, NewFrontNode, FillFront,
                      SinglePusherInv

LEMMA SinglePop ==
  ASSUME NEW p, Single(p), NEW w \in Poppers, Pop(w) \/ SpuriousWake(w)
  PROVE  SinglePusherInv(p)'
  <1> USE DEF Single, QueueInv
  <1>1. /\ at'[p] = at[p] /\ hand'[p] = hand[p] /\ reg'[p] = reg[p]
        /\ \A v \in Poppers \ {w} : at'[v] = at[v] /\ hand'[v] = hand[v] /\ reg'[v] = reg[v]
        /\ UNCHANGED <<last, sent>>
    BY ContentsFacts DEF Pop, PopWait, PopLock, TakeFront, AdvanceFirst, SpuriousWake,
                         QueueTypeOK
  <1>2. w \in Threads /\ p \in Pushers /\ w # p
    BY ContentsFacts
  <1>3. CASE PopWait(w) \/ PopLock(w) \/ SpuriousWake(w)
    <2>1. UNCHANGED <<cells, first, received, hand, reg>>
      BY <1>3 DEF PopWait, PopLock, SpuriousWake
    <2>2. /\ at'[w] \in {"asleep", "front", "woken"}
          /\ at'[w] = "asleep" => first = last
      BY <1>3, <1>2 DEF PopWait, PopLock, SpuriousWake, Empty, QueueTypeOK
    <2>3. mutex' # None => first < last
      BY <1>3, CountersType DEF PopWait, PopLock, SpuriousWake, Empty, SinglePusherInv
    <2>4. \A i : Cell(i)' = Cell(i)
      BY <2>1 DEF Cell
    <2>5. \A i : TakenOut(i) => TakenOut(i)'
      BY <1>3, <1>1, <2>1 DEF TakenOut, PopWait, PopLock, SpuriousWake, QueueTypeOK, PopExclusive
    <2>6. Busy(p)' = Busy(p)
      BY <1>1 DEF Busy
    <2> QED
      BY <1>1, <2>1, <2>2, <2>3, <2>4, <2>5, <2>6, CountersType DEF SinglePusherInv
  <1>4. CASE TakeFront(w)
    <2>1. /\ at[w] = "front" /\ cells' = WithCell(first, MovedFrom(Cell(first)))
          /\ at'[w] = "advance" /\ hand'[w] = Cell(first) /\ reg'[w] = first
          /\ UNCHANGED <<first, mutex, received>>
      BY <1>4, <1>2 DEF TakeFront, QueueTypeOK
    <2>2. mutex = w /\ w # None
      BY <2>1, ContentsFacts DEF PopExclusive
    <2>3. MovedFrom(Cell(first)) \in Contents /\ first \in Int /\ last \in Int
      BY CellType, MovedAssumption, CountersType, ContentsFacts DEF QueueTypeOK
    <2>4. \A i \in Int : i # first => Cell(i)' = Cell(i)
      BY <2>1, <2>3, CellType DEF Cell
    <2>5. first < last /\ ~TakenOut(first)
      BY <2>1, <2>2 DEF SinglePusherInv, TakenOut
    <2>6. TakenOut(first)'
      BY <2>1, <2>2 DEF TakenOut
    <2>7. hand'[w] = sent[first + 1]
      <3>1. first \in first .. (last - 1)
        BY <2>3, <2>5
      <3> QED
        BY <3>1, <2>1, <2>5 DEF SinglePusherInv
    <2>8. \A i \in first .. (last - 1) : TakenOut(i)' \/ Cell(i)' = sent[i + 1]
      <3>1. SUFFICES ASSUME NEW i \in first .. (last - 1), i # first
                     PROVE  Cell(i)' = sent[i + 1]
        BY <2>1, <2>6 DEF TakenOut
      <3>2. i \in Int /\ Cell(i)' = Cell(i)
        BY <2>3, <2>4, <3>1
      <3>3. ~TakenOut(i)
        BY <3>1 DEF TakenOut
      <3> QED
        BY <3>1, <3>2, <3>3 DEF SinglePusherInv
    <2>9. at[p] = "appended" => Cell(last)' = hand[p]
      BY <1>1, <2>3, <2>4, <2>5 DEF SinglePusherInv, Cell
    <2> QED
      BY <1>1, <2>1, <2>2, <2>3, <2>5, <2>7, <2>8, <2>9, CountersType DEF SinglePusherInv, Busy
  <1>5. CASE AdvanceFirst(w)
    <2>1. /\ at[w] = "advance" /\ at'[w] = "idle" /\ mutex' = None
          /\ received' = Append(received, hand[w])
          /\ UNCHANGED <<cells, hand, reg>>
      BY <1>5, <1>2 DEF AdvanceFirst, QueueTypeOK
    <2>2. mutex = w /\ w # None
      BY <2>1, ContentsFacts DEF PopExclusive
    <2>3. /\ first' = first + 1 /\ first < last /\ first \in Nat /\ last \in Int
          /\ hand[w] = sent[first + 1] /\ hand[w] \in Contents
      BY <1>5, <2>1, <2>2, CountersType DEF AdvanceFirst, SinglePusherInv, PointsOK
    <2>4. /\ Len(received') = Len(received) + 1
          /\ received'[Len(received) + 1] = hand[w]
          /\ \A i \in 1 .. Len(received) : received'[i] = received[i]
      BY <2>1, <2>3 DEF QueueTypeOK
    <2>5. \A v \in Poppers \ {w} : at[v] # "advance"
      BY <2>2 DEF PopExclusive
    <2>6. \A i : Cell(i)' = Cell(i)
      BY <2>1 DEF Cell
    <2>7. \A i \in (first + 1) .. (last - 1) : Cell(i) = sent[i + 1]
      BY <2>3 DEF SinglePusherInv, TakenOut
    <2> QED
      BY <1>1, <2>1, <2>3, <2>4, <2>5, <2>6, <2>7, CountersType DEF SinglePusherInv, Busy
  <1>6. PopWait(w) \/ PopLock(w) \/ SpuriousWake(w) \/ TakeFront(w) \/ AdvanceFirst(w)
    BY DEF Pop
  <1> QED
    BY <1>3, <1>4, <1>5, <1>6

LEMMA SingleStutter ==
  ASSUME NEW p, Single(p), UNCHANGED queueVars
  PROVE  SinglePusherInv(p)'
  BY DEF Single, queueVars, SinglePusherInv, Busy, TakenOut, Cell

LEMMA SingleStep ==
  ASSUME NEW p, Single(p), [BackNext]_queueVars
  PROVE  SinglePusherInv(p)'
  <1>1. CASE UNCHANGED queueVars
    BY <1>1, SingleStutter
  <1>2. CASE \E q \in Pushers, m \in Messages : PushBack(q, m)
    BY <1>2, SinglePushBack DEF Single
  <1>3. CASE QueueStep
    BY <1>3, SingleFinishPush, SinglePop DEF QueueStep, Single
  <1> QED
    BY <1>1, <1>2, <1>3 DEF BackNext

-----------------------------------------------------------------------------
LEMMA PushingCount ==
  ASSUME NEW p, Pushers = {p}
  PROVE  Cardinality(Pushing) = Busy(p) /\ Cardinality(Pushers) = 1
  <1>1. Pushing = IF at[p] = "idle" THEN {} ELSE {p}
    BY DEF Pushing
  <1> QED
    BY <1>1, FS_EmptySet, FS_Singleton DEF Busy

LEMMA SingleImplies ==
  ASSUME NEW p, Single(p)
  PROVE  Fifo /\ NothingLost /\ AtMostOneMissed
  <1> USE DEF Single, QueueInv
  <1>1. Fifo
    BY CountersType DEF Fifo, SinglePusherInv
  <1>2. NothingLost
    BY PushingCount, CountersType DEF NothingLost, SinglePusherInv
  <1>3. AtMostOneMissed
    BY PushingCount DEF AtMostOneMissed, SinglePusherInv
  <1> QED
    BY <1>1, <1>2, <1>3

LEMMA SingleInvariant ==
  ASSUME NEW p, Pushers = {p}
  PROVE  BackSpec => []Single(p)
  <1>1. QueueInit => Single(p)
    BY InitInv, SingleInit DEF Single
  <1>2. Single(p) /\ [BackNext]_queueVars => Single(p)'
    <2> SUFFICES ASSUME Single(p), [BackNext]_queueVars PROVE Single(p)'
      OBVIOUS
    <2>1. [QueueNext]_queueVars
      BY DEF QueueNext
    <2> QED
      BY <2>1, StepInv, SingleStep DEF Single
  <1> QED
    BY <1>1, <1>2, PTL DEF BackSpec

\* With a single pusher that only pushes at the back, pop returns what was pushed, in
\* order and once, however many threads pop at once.
THEOREM SinglePusherCorrect ==
  ASSUME NEW p, Pushers = {p}
  PROVE  BackSpec => []Fifo
  <1>1. Single(p) => Fifo
    BY SingleImplies
  <1> QED
    BY <1>1, SingleInvariant, PTL

\* Nor does such a queue lose a message: what was sent has been returned, is in the deque,
\* or is on its way into it.
THEOREM SinglePusherLosesNothing ==
  ASSUME NEW p, Pushers = {p}
  PROVE  BackSpec => []NothingLost
  <1>1. Single(p) => NothingLost
    BY SingleImplies
  <1> QED
    BY <1>1, SingleInvariant, PTL

\* The notification of a push precedes its message, and yet a thread that sleeps has
\* missed no more than the last one.
THEOREM OneMessageMissed ==
  ASSUME NEW p, Pushers = {p}
  PROVE  BackSpec => []AtMostOneMissed
  <1>1. Single(p) => AtMostOneMissed
    BY SingleImplies
  <1> QED
    BY <1>1, SingleInvariant, PTL

-----------------------------------------------------------------------------
(* The refinement of TaskFifo.                                               *)

\* What the user sees of such a queue, in terms of the messages sent.
SeenFrom(p) ==
    /\ Pending \in Seq(Messages) /\ Len(Pending) = last - first
    /\ \A i \in 1 .. (last - first) : Pending[i] = sent[first + i]

LEMMA PendingSeen ==
  ASSUME NEW p
  PROVE  Single(p) => SeenFrom(p)
  <1> SUFFICES ASSUME Single(p) PROVE SeenFrom(p)
    OBVIOUS
  <1> USE DEF Single, QueueInv
  <1>1. /\ first \in Nat /\ last \in Int /\ first <= last /\ last <= Len(sent)
        /\ Len(sent) \in Nat
    BY CountersType DEF SinglePusherInv
  <1>2. last - first \in Nat
    BY <1>1
  <1> DEFINE seen(i) == IF i = 1 /\ mutex # None /\ at[mutex] = "advance"
                        THEN hand[mutex] ELSE Cell(first + i - 1)
  <1>3. Pending = [i \in 1 .. (last - first) |-> seen(i)]
    BY DEF Pending
  <1>4. ASSUME NEW i \in 1 .. (last - first)
        PROVE  seen(i) = sent[first + i] /\ seen(i) \in Messages
    <2>1. first + i - 1 \in first .. (last - 1) /\ first + i \in 1 .. Len(sent)
          /\ (first + i - 1) + 1 = first + i
      BY <1>1
    <2>2. TakenOut(first + i - 1) <=> i = 1 /\ mutex # None /\ at[mutex] = "advance"
      BY <1>1 DEF TakenOut
    <2>3. CASE TakenOut(first + i - 1)
      <3>1. mutex \in Poppers /\ i = 1 /\ at[mutex] = "advance"
        BY <2>2, <2>3 DEF QueueTypeOK
      <3> QED
        BY <2>1, <3>1, <2>2, <2>3 DEF SinglePusherInv, QueueTypeOK
    <2>4. CASE ~TakenOut(first + i - 1)
      <3>1. Cell(first + i - 1) = sent[first + i]
        BY <2>1, <2>4 DEF SinglePusherInv
      <3> QED
        BY <2>1, <2>2, <2>4, <3>1 DEF QueueTypeOK
    <2> QED
      BY <2>3, <2>4
  <1>5. Pending \in Seq(Messages) /\ Len(Pending) = last - first
    <2>1. Pending \in [1 .. (last - first) -> Messages]
      BY <1>3, <1>4
    <2> HIDE DEF seen
    <2>2. Pending \in Seq(Messages)
      BY <2>1, <1>2, SeqDef
    <2> QED
      BY <2>1, <2>2, <1>2, LenProperties
  <1> QED
    BY <1>3, <1>4, <1>5 DEF SeenFrom

LEMMA PendingSeenNext ==
  ASSUME NEW p
  PROVE  Single(p)' => SeenFrom(p)'
  <1>1. Single(p) => SeenFrom(p)
    BY PendingSeen
  <1> QED
    BY <1>1, PTL

-----------------------------------------------------------------------------
LEMMA AbstractInit ==
  ASSUME NEW p, Pushers = {p}, QueueInit
  PROVE  Abstract!Init
  <1>1. Single(p)
    BY InitInv, SingleInit DEF Single
  <1>2. Pending \in Seq(Messages) /\ Len(Pending) = 0
    BY <1>1, PendingSeen DEF SeenFrom, QueueInit
  <1> QED
    BY <1>2, EmptySeq DEF Abstract!Init, QueueInit

\* The end of a push is the abstract Put.
LEMMA AdvanceLastPuts ==
  ASSUME NEW p, Single(p), Single(p)', AdvanceLast(p)
  PROVE  \E m \in Messages : Abstract!Put(m)
  <1> USE DEF Single, QueueInv
  <1>1. SeenFrom(p) /\ SeenFrom(p)'
    BY PendingSeen, PendingSeenNext
  <1>2. /\ at[p] = "appended" /\ UNCHANGED <<first, sent, received>>
        /\ last' = last + 1 /\ Len(sent) = last + 1
        /\ first \in Nat /\ last \in Int /\ first <= last
    BY CountersType DEF AdvanceLast, SinglePusherInv, Busy
  <1> DEFINE m == sent[last + 1]
  <1>3. m \in Messages
    <2>1. last + 1 \in 1 .. Len(sent)
      BY <1>2
    <2> QED
      BY <2>1 DEF QueueTypeOK
  <1> HIDE DEF m
  <1>4. /\ Append(Pending, m) \in Seq(Messages)
        /\ Len(Append(Pending, m)) = last - first + 1
        /\ \A i \in 1 .. (last - first) : Append(Pending, m)[i] = Pending[i]
        /\ Append(Pending, m)[last - first + 1] = m
    BY <1>1, <1>2, <1>3 DEF SeenFrom
  <1>5. /\ Pending' \in Seq(Messages) /\ Len(Pending') = last - first + 1
        /\ \A i \in 1 .. (last - first + 1) : Pending'[i] = sent[first + i]
    BY <1>1, <1>2 DEF SeenFrom
  <1>6. \A i \in 1 .. (last - first + 1) : Append(Pending, m)[i] = sent[first + i]
    <2> SUFFICES ASSUME NEW i \in 1 .. (last - first + 1)
                 PROVE  Append(Pending, m)[i] = sent[first + i]
      OBVIOUS
    <2>1. CASE i = last - first + 1
      BY <1>2, <1>4, <2>1 DEF m
    <2>2. CASE i # last - first + 1
      <3>1. i \in 1 .. (last - first)
        BY <1>2, <2>2
      <3> QED
        BY <1>1, <1>4, <3>1 DEF SeenFrom
    <2> QED
      BY <2>1, <2>2
  <1>7. Pending' = Append(Pending, m)
    BY <1>4, <1>5, <1>6, SeqEqual
  <1> QED
    BY <1>2, <1>3, <1>7 DEF Abstract!Put

\* The end of a pop is the abstract Take.
LEMMA AdvanceFirstTakes ==
  ASSUME NEW p, Single(p), Single(p)', NEW w \in Poppers, AdvanceFirst(w)
  PROVE  Abstract!Take
  <1> USE DEF Single, QueueInv
  <1>1. SeenFrom(p) /\ SeenFrom(p)'
    BY PendingSeen, PendingSeenNext
  <1>2. /\ at[w] = "advance" /\ mutex = w /\ w # None
        /\ UNCHANGED <<last, sent>> /\ received' = Append(received, hand[w])
    BY ContentsFacts DEF AdvanceFirst, PopExclusive
  <1>3. /\ first' = first + 1 /\ first < last /\ first \in Nat /\ last \in Int
        /\ hand[w] = sent[first + 1]
    BY <1>2, CountersType DEF AdvanceFirst, SinglePusherInv
  <1>4. Pending \in Seq(Messages) /\ Pending # <<>> /\ Pending[1] = hand[w]
    <2>1. Len(Pending) > 0 /\ 1 \in 1 .. (last - first)
      BY <1>1, <1>3 DEF SeenFrom
    <2> QED
      BY <1>1, <1>3, <2>1, EmptySeq DEF SeenFrom
  <1>5. /\ Tail(Pending) \in Seq(Messages) /\ Len(Tail(Pending)) = last - first - 1
        /\ \A i \in 1 .. (last - first - 1) : Tail(Pending)[i] = Pending[i + 1]
    BY <1>1, <1>4, HeadTailProperties DEF SeenFrom
  <1>6. /\ Pending' \in Seq(Messages) /\ Len(Pending') = last - first - 1
        /\ \A i \in 1 .. (last - first - 1) : Pending'[i] = sent[first + 1 + i]
    BY <1>1, <1>2, <1>3 DEF SeenFrom
  <1>7. \A i \in 1 .. (last - first - 1) : Tail(Pending)[i] = sent[first + 1 + i]
    <2> SUFFICES ASSUME NEW i \in 1 .. (last - first - 1)
                 PROVE  Tail(Pending)[i] = sent[first + 1 + i]
      OBVIOUS
    <2>1. i + 1 \in 1 .. (last - first) /\ first + (i + 1) = first + 1 + i
      BY <1>3
    <2> QED
      BY <1>1, <1>5, <2>1 DEF SeenFrom
  <1>8. Pending' = Tail(Pending)
    BY <1>5, <1>6, <1>7, SeqEqual
  <1>9. Head(Pending) = hand[w]
    BY <1>4
  <1> QED
    BY <1>2, <1>4, <1>8, <1>9 DEF Abstract!Take

\* Every other step leaves what the user sees as it was.
LEMMA OthersStutter ==
  ASSUME NEW p, Single(p), Single(p)', UNCHANGED <<first, last, received>>,
         \A i \in 1 .. last : sent'[i] = sent[i]
  PROVE  UNCHANGED <<Pending, received>>
  <1> USE DEF Single, QueueInv
  <1>1. SeenFrom(p) /\ SeenFrom(p)'
    BY PendingSeen, PendingSeenNext
  <1>2. first \in Nat /\ last \in Int /\ first <= last
    BY CountersType DEF SinglePusherInv
  <1>3. /\ Pending \in Seq(Messages) /\ Len(Pending) = last - first
        /\ Pending' \in Seq(Messages) /\ Len(Pending') = last - first
    BY <1>1 DEF SeenFrom
  <1>4. \A i \in 1 .. (last - first) : Pending'[i] = Pending[i]
    <2> SUFFICES ASSUME NEW i \in 1 .. (last - first) PROVE Pending'[i] = Pending[i]
      OBVIOUS
    <2>1. first + i \in 1 .. last
      BY <1>2
    <2> QED
      BY <1>1, <2>1 DEF SeenFrom
  <1> QED
    BY <1>3, <1>4, SeqEqual

LEMMA AbstractStep ==
  ASSUME NEW p, Single(p), Single(p)', [BackNext]_queueVars
  PROVE  [Abstract!Next]_<<Pending, received>>
  <1> USE DEF Single
  <1>1. CASE AdvanceLast(p)
    BY <1>1, AdvanceLastPuts DEF Abstract!Next
  <1>2. CASE \E w \in Poppers : AdvanceFirst(w)
    BY <1>2, AdvanceFirstTakes DEF Abstract!Next
  <1>3. CASE \E m \in Messages : PushBack(p, m)
    <2>1. PICK m \in Messages : sent' = Append(sent, m) /\ at[p] = "idle"
                                 /\ UNCHANGED <<first, last, received>>
      BY <1>3 DEF PushBack, Guarded
    <2>2. last = Len(sent) /\ sent \in Seq(Messages)
      BY <2>1, CountersType DEF SinglePusherInv, Busy, QueueInv, QueueTypeOK
    <2> QED
      BY <2>1, <2>2, OthersStutter
  <1>4. CASE UNCHANGED <<first, last, received, sent>>
    BY <1>4, OthersStutter
  <1>5. CASE ConstructBack(p) \/ \E w \in Poppers : PopWait(w) \/ PopLock(w)
                                 \/ TakeFront(w) \/ SpuriousWake(w)
    BY <1>4, <1>5 DEF ConstructBack, PopWait, PopLock, TakeFront, SpuriousWake
  <1>6. ~(ConstructFront(p) \/ RetreatFirst(p) \/ NewFrontNode(p) \/ FillFront(p))
    BY DEF SinglePusherInv, ConstructFront, RetreatFirst, NewFrontNode, FillFront
  <1> QED
    BY <1>1, <1>2, <1>3, <1>4, <1>5, <1>6
       DEF BackNext, QueueStep, FinishPush, Pop, queueVars

\* A queue with one pusher that pushes at the back implements a FIFO, for any
\* number of poppers and messages: every step is a Put, a Take or a stutter.
THEOREM QueueImplementsFifo ==
  ASSUME NEW p, Pushers = {p}
  PROVE  BackSpec => ImplementsFifo
  <1>1. QueueInit => Single(p) /\ Abstract!Init
    BY InitInv, SingleInit, AbstractInit DEF Single
  <1>2. Single(p) /\ [BackNext]_queueVars => Single(p)'
    <2> SUFFICES ASSUME Single(p), [BackNext]_queueVars PROVE Single(p)'
      OBVIOUS
    <2>1. [QueueNext]_queueVars
      BY DEF QueueNext
    <2> QED
      BY <2>1, StepInv, SingleStep DEF Single
  <1>3. Single(p) /\ Single(p)' /\ [BackNext]_queueVars => [Abstract!Next]_<<Pending, received>>
    BY AbstractStep
  <1> QED
    BY <1>1, <1>2, <1>3, PTL DEF BackSpec, ImplementsFifo, Abstract!Spec
=============================================================================
