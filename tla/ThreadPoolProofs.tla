-------------------------- MODULE ThreadPoolProofs --------------------------
(* Theorems about ThreadPool: its types, for every use of it, and, for a     *)
(* pool with one pusher that ends in shutdown(), that no worker thread ends  *)
(* while a task is still waiting.                                            *)
EXTENDS ThreadPool, MessageQueueProofs

PoolInv ==
    /\ QueueInv
    /\ PoolTypeOK
    /\ \A w \in Poppers : /\ stage[w] # "pop" => at[w] = "idle"
                          /\ stage[w] = "run" => hand[w] \in Contents

LEMMA OutcomeFacts ==
  /\ Owner \in Pushers /\ Terminate \in Messages
  /\ \A m \in Contents : Outcomes[m] \subseteq {Zero, Nonzero, Throw}
  /\ Zero # Nonzero /\ Zero # Throw /\ Nonzero # Throw
  BY OwnerAssumption, OutcomesAssumption DEF Zero, Nonzero, Throw

LEMMA PoolInitInv == PoolInit => PoolInv
  BY InitInv DEF PoolInit, PoolInv, PoolTypeOK, QueueInv

\* Running a task touches the queue only through the worker's own hand.
LEMMA RunTaskInv ==
  ASSUME PoolInv, NEW w \in Poppers, RunTask(w)
  PROVE  PoolInv'
  <1> USE DEF PoolInv
  <1>1. /\ stage[w] = "run" /\ at[w] = "idle"
        /\ hand' = [hand EXCEPT ![w] = None]
        /\ UNCHANGED <<cells, first, last, mutex, at, reg, sent, received, phase, stops>>
    BY DEF RunTask
  <1>2. QueueInv'
    <2>1. \A t \in Threads \ {w} : hand'[t] = hand[t]
      BY <1>1, ContentsFacts DEF PoolTypeOK, QueueTypeOK
    <2>2. QueueTypeOK'
      BY <1>1 DEF QueueInv, QueueTypeOK
    <2>3. PointsOK' /\ PopExclusive'
      BY <1>1, <2>1, ContentsFacts DEF QueueInv, PointsOK, PopExclusive
    <2> QED
      BY <2>2, <2>3 DEF QueueInv
  <1>3. PICK outcome \in Outcomes[hand[w]] :
           result' = [result EXCEPT ![w] = IF outcome = Throw THEN @ ELSE outcome]
    BY DEF RunTask
  <1>4. result' \in [Poppers -> {Zero, Nonzero}]
    <2>1. hand[w] \in Contents
      BY <1>1
    <2> QED
      BY <1>3, <2>1, OutcomeFacts DEF PoolTypeOK
  <1>5. stage' \in [Poppers -> {"pop", "run", "exited"}]
        /\ stage'[w] # "run"
        /\ \A v \in Poppers : v # w => stage'[v] = stage[v] /\ hand'[v] = hand[v]
    BY <1>1, ContentsFacts DEF RunTask, PoolTypeOK, QueueTypeOK
  <1>6. PoolTypeOK'
    BY <1>1, <1>2, <1>4, <1>5 DEF PoolTypeOK, QueueInv
  <1> QED
    BY <1>1, <1>2, <1>5, <1>6

\* A step of the queue that the worker loop or a pusher makes.
LEMMA PoolQueueStepInv ==
  ASSUME PoolInv, QueueInv', UNCHANGED <<result, phase>>,
         stops' \in Nat,
         NEW t \in Threads,
         \A u \in Threads \ {t} : at[u] = "idle" => at'[u] = "idle" /\ hand'[u] = hand[u],
         \/ t \in Pushers /\ UNCHANGED stage
         \/ t \in Poppers /\ stage[t] = "pop" /\ UNCHANGED stage
         \/ t \in Poppers /\ stage[t] = "pop" /\ stage' = [stage EXCEPT ![t] = "run"]
            /\ at'[t] = "idle" /\ hand'[t] \in Contents
  PROVE  PoolInv'
  <1> USE DEF PoolInv, PoolTypeOK
  <1>1. stage' \in [Poppers -> {"pop", "run", "exited"}]
    OBVIOUS
  <1>2. ASSUME NEW w \in Poppers
        PROVE  /\ stage'[w] # "pop" => at'[w] = "idle"
               /\ stage'[w] = "run" => hand'[w] \in Contents
    BY <1>2, ContentsFacts
  <1> QED
    BY <1>1, <1>2 DEF QueueInv

LEMMA PoolStepInv ==
  ASSUME PoolInv, [PoolNext]_vars
  PROVE  PoolInv'
  <1> USE DEF PoolInv
  <1>1. ASSUME NEW w \in Poppers, WorkerPop(w) \/ WokenForNothing(w)
        PROVE  PoolInv'
    <2>1. QueueInv'
      BY <1>1, PopInv DEF WorkerPop, WokenForNothing, Pop
    <2>2. /\ UNCHANGED <<result, phase, stops, stage>> /\ stage[w] = "pop"
          /\ \A u \in Threads \ {w} : at'[u] = at[u] /\ hand'[u] = hand[u]
      BY <1>1, ContentsFacts
         DEF WorkerPop, WokenForNothing, poolVars, PopWait, PopLock, TakeFront,
             SpuriousWake, QueueInv, QueueTypeOK
    <2> QED
      BY <2>1, <2>2, PoolQueueStepInv, ContentsFacts DEF PoolTypeOK
  <1>2. ASSUME NEW w \in Poppers, WorkerPopped(w)
        PROVE  PoolInv'
    <2>1. QueueInv'
      BY <1>2, PopInv DEF WorkerPopped, Pop
    <2>2. /\ UNCHANGED <<result, phase, stops>> /\ stage[w] = "pop"
          /\ stage' = [stage EXCEPT ![w] = "run"]
          /\ at'[w] = "idle" /\ hand'[w] \in Contents
          /\ \A u \in Threads \ {w} : at'[u] = at[u] /\ hand'[u] = hand[u]
      BY <1>2, ContentsFacts DEF WorkerPopped, AdvanceFirst, QueueInv, QueueTypeOK, PointsOK
    <2> QED
      BY <2>1, <2>2, PoolQueueStepInv, ContentsFacts DEF PoolTypeOK
  <1>3. ASSUME NEW p \in Pushers, NEW m \in Messages, NEW next \in {"append", "prepend"},
               Guarded(p, m, next), stops' \in Nat, UNCHANGED <<stage, result, phase>>
        PROVE  PoolInv'
    <2>1. QueueInv'
      BY <1>3, GuardedInv
    <2>2. \A u \in Threads \ {p} : at[u] = "idle" => at'[u] = "idle" /\ hand'[u] = hand[u]
      BY <1>3, ContentsFacts DEF Guarded, Notified, QueueInv, QueueTypeOK
    <2> QED
      BY <1>3, <2>1, <2>2, PoolQueueStepInv, ContentsFacts
  <1>4. ASSUME NEW p \in Pushers, PusherStep(p)
        PROVE  PoolInv'
    <2>1. QueueInv'
      BY <1>4, FinishPushInv DEF PusherStep
    <2>2. /\ UNCHANGED <<result, phase, stops, stage>>
          /\ \A u \in Threads \ {p} : at'[u] = at[u] /\ hand'[u] = hand[u]
      BY <1>4, ContentsFacts
         DEF PusherStep, poolVars, FinishPush, ConstructBack, AdvanceLast, ConstructFront,
             RetreatFirst, NewFrontNode, FillFront, QueueInv, QueueTypeOK
    <2> QED
      BY <2>1, <2>2, PoolQueueStepInv, ContentsFacts DEF PoolTypeOK
  <1>5. CASE \E p \in Pushers, task \in Tasks : Push(p, task)
    BY <1>5, <1>3 DEF Push, Tasks, PushBack, poolVars, PoolTypeOK
  <1>6. CASE PushStop
    <2>1. stops' \in Nat
      BY <1>6 DEF PushStop, PoolTypeOK
    <2> QED
      BY <1>6, <2>1, <1>3, OutcomeFacts DEF PushStop, PushBack, PushFront
  <1>7. CASE Shutdown \/ ShutdownNow \/ JoinEach
    <2>1. /\ UNCHANGED queueVars /\ UNCHANGED <<stage, result>>
          /\ phase' \in {"shutdown", "shutdown_now", "down"}
      BY <1>7 DEF Shutdown, ShutdownNow, BeginShutdown, JoinEach, queueVars
    <2>2. stops' \in Nat
      BY <1>7, ThreadsAssumption, FS_CardinalityType
         DEF Shutdown, ShutdownNow, BeginShutdown, JoinEach, PoolTypeOK
    <2>3. QueueInv'
      BY <2>1, StutterInv
    <2> QED
      BY <2>1, <2>2, <2>3 DEF PoolTypeOK, QueueInv, queueVars
  <1>8. CASE UNCHANGED vars
    <2>1. QueueInv'
      BY <1>8, StutterInv DEF vars, queueVars
    <2> QED
      BY <1>8, <2>1 DEF PoolTypeOK, QueueInv, vars
  <1> QED
    BY <1>1, <1>2, <1>4, <1>5, <1>6, <1>7, <1>8, RunTaskInv
       DEF PoolNext, GracefulNext, PoolStep, WorkerStep

\* The type invariant of the pool, whatever its tasks do and however it is shut
\* down; and the exclusion of pops, which the pool inherits from its queue.
THEOREM PoolTypeCorrect == PoolSpec => [](PoolTypeOK /\ PopExclusive)
  <1>1. PoolInv => PoolTypeOK /\ PopExclusive
    BY DEF PoolInv, QueueInv
  <1> QED
    BY <1>1, PoolInitInv, PoolStepInv, PTL DEF PoolSpec

-----------------------------------------------------------------------------
(* A pool with one pusher, whose tasks return 0, shut down by shutdown().   *)

TasksReturnZero == \A task \in Tasks : Outcomes[task] = {Zero}

Graceful ==
    PoolInv /\ Pushers = {Owner} /\ SinglePusherInv(Owner) /\ StopsComeLast /\ WorkersInv

LEMMA ReceivedWasSent ==
  ASSUME Graceful, NEW i \in DOMAIN received
  PROVE  /\ i \in 1 .. Len(received) /\ i \in DOMAIN sent
         /\ received[i] = sent[i] /\ sent[i] \in Messages
  <1>1. QueueTypeOK /\ SinglePusherInv(Owner)
    BY DEF Graceful, PoolInv, PoolTypeOK
  <1>2. DOMAIN received = 1 .. Len(received) /\ DOMAIN sent = 1 .. Len(sent)
    BY <1>1 DEF QueueTypeOK
  <1>3. Len(received) <= Len(sent)
    BY <1>1, CountersType DEF SinglePusherInv
  <1>4. i \in DOMAIN sent /\ received[i] = sent[i]
    BY <1>1, <1>2, <1>3, CountersType DEF SinglePusherInv
  <1> QED
    BY <1>1, <1>2, <1>4 DEF QueueTypeOK

LEMMA GracefulInit ==
  ASSUME Pushers = {Owner}, PoolInit
  PROVE  Graceful
  BY PoolInitInv, SingleInit DEF PoolInit, Graceful, StopsComeLast, WorkersInv, QueueInit

\* A graceful step is a step of a queue with a single pusher, or leaves what the
\* queue's invariant speaks of alone.
LEMMA GracefulQueue ==
  ASSUME Graceful, [GracefulNext]_vars
  PROVE  SinglePusherInv(Owner)'
  <1> USE DEF Graceful, PoolInv
  <1>1. Single(Owner)
    BY DEF Single
  <1>2. CASE \E w \in Poppers : RunTask(w)
    <2>1. PICK w \in Poppers : RunTask(w)
      BY <1>2
    <2>2. /\ at[w] = "idle" /\ hand'[Owner] = hand[Owner]
          /\ \A v \in Poppers \ {w} : hand'[v] = hand[v]
          /\ UNCHANGED <<cells, first, last, mutex, at, reg, sent, received>>
      BY <2>1, ContentsFacts DEF RunTask, QueueInv, QueueTypeOK
    <2> QED
      BY <2>2 DEF SinglePusherInv, Busy, TakenOut, Cell
  <1>3. CASE \E w \in Poppers : WorkerPop(w) \/ WorkerPopped(w) \/ WokenForNothing(w)
    BY <1>1, <1>3, SinglePop DEF WorkerPop, WorkerPopped, WokenForNothing, Pop
  <1>4. CASE \E p \in Pushers : PusherStep(p)
    BY <1>1, <1>4, SingleFinishPush DEF PusherStep
  <1>5. CASE PushStop \/ \E p \in Pushers, task \in Tasks : Push(p, task)
    BY <1>1, <1>5, SinglePushBack, OutcomeFacts DEF PushStop, Push, Tasks, StopsComeLast
  <1>6. CASE JoinEach \/ Shutdown \/ UNCHANGED vars
    <2>1. UNCHANGED queueVars
      BY <1>6 DEF JoinEach, Shutdown, BeginShutdown, vars, queueVars
    <2> QED
      BY <1>1, <2>1, SingleStutter
  <1> QED
    BY <1>2, <1>3, <1>4, <1>5, <1>6 DEF GracefulNext, PoolStep, WorkerStep

LEMMA GracefulStops ==
  ASSUME Graceful, [GracefulNext]_vars
  PROVE  StopsComeLast'
  <1> USE DEF Graceful, PoolInv, PoolTypeOK, QueueTypeOK
  <1>1. CASE \E p \in Pushers, task \in Tasks : Push(p, task)
    <2>1. PICK task \in Tasks : phase = "open" /\ sent' = Append(sent, task) /\ phase' = phase
      BY <1>1 DEF Push, PushBack, Guarded, poolVars
    <2>2. task \in Messages /\ task # Terminate
      BY DEF Tasks
    <2>3. \A i \in DOMAIN sent' : sent'[i] # Terminate
      BY <2>1, <2>2 DEF StopsComeLast
    <2> QED
      BY <2>1, <2>3 DEF StopsComeLast
  <1>2. CASE PushStop
    <2>1. /\ sent' = Append(sent, Terminate) /\ phase' = phase /\ phase = "shutdown"
          /\ Terminate \in Messages
      BY <1>2, OutcomeFacts DEF PushStop, PushBack, Guarded, StopsComeLast
    <2> QED
      BY <2>1 DEF StopsComeLast
  <1>3. CASE UNCHANGED sent /\ phase' \in {phase, "shutdown", "down"}
    BY <1>3 DEF StopsComeLast
  <1>4. CASE \E w \in Poppers : WorkerStep(w) \/ WokenForNothing(w)
    BY <1>3, <1>4 DEF WorkerStep, WokenForNothing, WorkerPop, WorkerPopped, RunTask, PopWait,
                      PopLock, TakeFront, AdvanceFirst, SpuriousWake, poolVars
  <1>5. CASE \E p \in Pushers : PusherStep(p)
    BY <1>3, <1>5 DEF PusherStep, FinishPush, ConstructBack, AdvanceLast, ConstructFront,
                      RetreatFirst, NewFrontNode, FillFront, poolVars
  <1>6. CASE JoinEach \/ Shutdown \/ UNCHANGED vars
    BY <1>3, <1>6 DEF JoinEach, Shutdown, BeginShutdown, vars
  <1> QED
    BY <1>1, <1>2, <1>4, <1>5, <1>6 DEF GracefulNext, PoolStep

LEMMA GracefulWorkers ==
  ASSUME TasksReturnZero, Graceful, [GracefulNext]_vars
  PROVE  WorkersInv'
  <1> USE DEF Graceful, PoolInv, PoolTypeOK, QueueTypeOK
  <1>1. ASSUME NEW w \in Poppers, WorkerPopped(w)
        PROVE  WorkersInv'
    <2>1. /\ received' = Append(received, hand[w]) /\ hand[w] \in Contents
          /\ stage' = [stage EXCEPT ![w] = "run"] /\ hand' = hand
          /\ at'[w] = "idle" /\ \A v \in Poppers \ {w} : at'[v] = at[v]
      BY <1>1, ContentsFacts DEF WorkerPopped, AdvanceFirst, PointsOK, QueueInv
    <2>2. /\ received'[Len(received) + 1] = hand[w]
          /\ Len(received) + 1 \in DOMAIN received'
          /\ \A i \in DOMAIN received : i \in DOMAIN received' /\ received'[i] = received[i]
      BY <2>1
    <2>3. ASSUME NEW v \in Poppers
          PROVE  /\ stage'[v] # "pop" => at'[v] = "idle"
                 /\ stage'[v] = "run" => \E i \in DOMAIN received' : received'[i] = hand'[v]
                 /\ stage'[v] = "exited" => \E i \in DOMAIN received' : received'[i] = Terminate
      <3>1. CASE v = w
        BY <2>1, <2>2, <3>1
      <3>2. CASE v # w
        BY <2>1, <2>2, <3>2 DEF WorkersInv
      <3> QED
        BY <3>1, <3>2
    <2> QED
      BY <2>3 DEF WorkersInv
  <1>2. ASSUME NEW w \in Poppers, RunTask(w)
        PROVE  WorkersInv'
    <2>1. /\ stage[w] = "run" /\ UNCHANGED <<at, received>>
          /\ \A v \in Poppers \ {w} : stage'[v] = stage[v] /\ hand'[v] = hand[v]
          /\ stage'[w] \in {"pop", "exited"}
      BY <1>2, ContentsFacts DEF RunTask
    <2>2. PICK i \in DOMAIN received : received[i] = hand[w]
      BY <2>1 DEF WorkersInv
    <2>3. hand[w] \in Messages
      BY <2>2, ReceivedWasSent
    <2>4. stage'[w] = "exited" => hand[w] = Terminate
      <3>1. SUFFICES ASSUME hand[w] # Terminate PROVE stage'[w] = "pop"
        BY <2>1
      <3>2. Outcomes[hand[w]] = {Zero}
        BY <2>3, <3>1 DEF TasksReturnZero, Tasks
      <3> QED
        BY <1>2, <3>2, OutcomeFacts DEF RunTask
    <2> QED
      BY <2>1, <2>2, <2>4 DEF WorkersInv
  <1>3. ASSUME UNCHANGED <<stage, received>>,
               \A w \in Poppers : at[w] = "idle" /\ stage[w] # "pop"
                                       => at'[w] = "idle" /\ hand'[w] = hand[w]
        PROVE  WorkersInv'
    BY <1>3 DEF WorkersInv
  <1>4. ASSUME NEW w \in Poppers, WorkerPop(w) \/ WokenForNothing(w)
        PROVE  WorkersInv'
    BY <1>3, <1>4, ContentsFacts
       DEF WorkerPop, WokenForNothing, PopWait, PopLock, TakeFront, SpuriousWake, poolVars
  <1>5. ASSUME NEW p \in Pushers, PusherStep(p)
        PROVE  WorkersInv'
    BY <1>3, <1>5, ContentsFacts
       DEF PusherStep, FinishPush, ConstructBack, AdvanceLast, ConstructFront, RetreatFirst,
           NewFrontNode, FillFront, poolVars
  <1>6. CASE PushStop \/ \E p \in Pushers, task \in Tasks : Push(p, task)
    <2>1. PICK p \in Pushers, m \in Messages, next \in {"append", "prepend"} : Guarded(p, m, next)
      BY <1>6, OutcomeFacts DEF PushStop, Push, PushBack, PushFront, Tasks
    <2>2. UNCHANGED <<stage, received>>
      BY <1>6, <2>1 DEF PushStop, Push, Guarded, poolVars
    <2> QED
      BY <1>3, <2>1, <2>2, ContentsFacts DEF Guarded, Notified
  <1>7. CASE JoinEach \/ Shutdown \/ UNCHANGED vars
    BY <1>3, <1>7 DEF JoinEach, Shutdown, BeginShutdown, vars
  <1> QED
    BY <1>1, <1>2, <1>4, <1>5, <1>6, <1>7 DEF GracefulNext, PoolStep, WorkerStep

LEMMA GracefulStep ==
  ASSUME TasksReturnZero, Graceful, [GracefulNext]_vars
  PROVE  Graceful'
  <1>1. PoolInv'
    BY PoolStepInv DEF Graceful, PoolNext
  <1> QED
    BY <1>1, GracefulQueue, GracefulStops, GracefulWorkers DEF Graceful

LEMMA GracefulImplies == Graceful => NoneLeftBehind
  <1> SUFFICES ASSUME Graceful, NEW w \in Poppers, stage[w] = "exited",
                      NEW i \in DOMAIN sent, sent[i] # Terminate
               PROVE  i <= Len(received)
    BY DEF NoneLeftBehind
  <1> USE DEF Graceful, PoolInv, PoolTypeOK, QueueTypeOK
  <1>1. PICK j \in DOMAIN received : received[j] = Terminate
    BY DEF WorkersInv
  <1>2. j \in 1 .. Len(received) /\ j \in DOMAIN sent /\ sent[j] = Terminate
    BY <1>1, ReceivedWasSent
  <1>3. ~(j < i)
    BY <1>2 DEF StopsComeLast
  <1> QED
    BY <1>2, <1>3

\* "Shut down each thread after all pending tasks are done": in a pool with one
\* pusher whose tasks return 0, shut down with shutdown(), no worker thread ends
\* while a task is still in the queue, however many workers and tasks there are.
THEOREM NoTaskLeftBehind ==
  ASSUME Pushers = {Owner}, TasksReturnZero
  PROVE  GracefulSpec => []NoneLeftBehind
  <1>1. PoolInit => Graceful
    BY GracefulInit
  <1>2. Graceful /\ [GracefulNext]_vars => Graceful'
    BY GracefulStep
  <1>3. Graceful => NoneLeftBehind
    BY GracefulImplies
  <1> QED
    BY <1>1, <1>2, <1>3, PTL DEF GracefulSpec

-----------------------------------------------------------------------------
(* Terminate tasks are counted: as many are sent as there are workers, and   *)
(* each one popped belongs to one worker, which ends.                        *)

TerminateEnds == Outcomes[Terminate] = {Nonzero}

Ending(w) == stage[w] = "exited" \/ (stage[w] = "run" /\ hand[w] = Terminate)

EndingWorkers == {w \in Poppers : Ending(w)}

StopsCounted ==
    /\ Cardinality(Positions(sent, Terminate)) + stops
           = IF phase = "open" THEN 0 ELSE Cardinality(Poppers)
    /\ Cardinality(Positions(received, Terminate)) = Cardinality(EndingWorkers)

DownInv ==
    phase = "down" => stops = 0 /\ at[Owner] = "idle" /\ \A w \in Poppers : stage[w] = "exited"

CountingInv == Graceful /\ StopsCounted /\ DownInv

LEMMA EndingFinite ==
  /\ IsFiniteSet(EndingWorkers) /\ Cardinality(EndingWorkers) \in Nat
  /\ IsFiniteSet(Poppers) /\ Cardinality(Poppers) \in Nat
  <1>1. EndingWorkers \in SUBSET Poppers /\ IsFiniteSet(Poppers)
    BY ThreadsAssumption DEF EndingWorkers
  <1> QED
    BY <1>1, FS_Subset, FS_CardinalityType

LEMMA CountingInit ==
  ASSUME Pushers = {Owner}, PoolInit
  PROVE  CountingInv
  <1>1. Graceful
    BY GracefulInit
  <1>2. Positions(sent, Terminate) = {} /\ Positions(received, Terminate) = {}
    BY DEF PoolInit, QueueInit, Positions
  <1>3. EndingWorkers = {}
    BY DEF PoolInit, EndingWorkers, Ending
  <1> QED
    BY <1>1, <1>2, <1>3, FS_EmptySet DEF CountingInv, StopsCounted, DownInv, PoolInit

\* Neither what was sent and received nor who is ending changes.
LEMMA CountingSame ==
  ASSUME StopsCounted, UNCHANGED <<sent, received, stops>>,
         phase' = phase \/ (phase # "open" /\ phase' # "open"),
         \A w \in Poppers : Ending(w)' <=> Ending(w)
  PROVE  StopsCounted'
  <1>1. EndingWorkers' = EndingWorkers
    BY DEF EndingWorkers
  <1> QED
    BY <1>1 DEF StopsCounted, Positions

LEMMA CountingPush ==
  ASSUME CountingInv, NEW m \in Messages, NEW p \in Pushers, NEW next, Guarded(p, m, next),
         UNCHANGED <<stage, phase>>, stops' \in Nat,
         stops' = stops - (IF m = Terminate THEN 1 ELSE 0)
  PROVE  StopsCounted'
  <1> USE DEF CountingInv, Graceful, PoolInv, PoolTypeOK, QueueTypeOK
  <1>1. sent' = Append(sent, m) /\ sent \in Seq(Messages) /\ UNCHANGED received /\ stops \in Nat
    BY DEF Guarded
  <1>2. \A w \in Poppers : hand'[w] = hand[w]
    BY ContentsFacts DEF Guarded
  <1>3. EndingWorkers' = EndingWorkers
    BY <1>2 DEF EndingWorkers, Ending
  <1>4. /\ Cardinality(Positions(sent', Terminate))
              = Cardinality(Positions(sent, Terminate)) + (IF m = Terminate THEN 1 ELSE 0)
        /\ Cardinality(Positions(sent, Terminate)) \in Nat
    BY <1>1, PositionsAppend
  <1>5. Positions(received, Terminate)' = Positions(received, Terminate)
        /\ Positions(sent, Terminate)' = Positions(sent', Terminate)
    BY <1>1 DEF Positions
  <1> QED
    BY <1>1, <1>3, <1>4, <1>5, EndingFinite DEF StopsCounted

LEMMA CountingPopped ==
  ASSUME CountingInv, NEW w \in Poppers, WorkerPopped(w)
  PROVE  StopsCounted'
  <1> USE DEF CountingInv, Graceful, PoolInv, PoolTypeOK, QueueTypeOK
  <1>1. /\ received' = Append(received, hand[w]) /\ hand[w] \in Contents
        /\ received \in Seq(Contents) /\ stage[w] = "pop"
        /\ stage' = [stage EXCEPT ![w] = "run"] /\ UNCHANGED <<sent, hand, phase, stops>>
    BY DEF WorkerPopped, AdvanceFirst, PointsOK, QueueInv
  <1>2. EndingWorkers' = IF hand[w] = Terminate THEN EndingWorkers \cup {w} ELSE EndingWorkers
    BY <1>1 DEF EndingWorkers, Ending
  <1>3. w \notin EndingWorkers
    BY <1>1 DEF EndingWorkers, Ending
  <1>4. Cardinality(EndingWorkers \cup {w}) = Cardinality(EndingWorkers) + 1
    BY <1>3, EndingFinite, FS_AddElement
  <1>5. /\ Cardinality(Positions(received', Terminate))
              = Cardinality(Positions(received, Terminate)) + (IF hand[w] = Terminate THEN 1 ELSE 0)
        /\ Cardinality(Positions(received, Terminate)) \in Nat
    BY <1>1, PositionsAppend
  <1>6. Positions(sent, Terminate)' = Positions(sent, Terminate)
        /\ Positions(received, Terminate)' = Positions(received', Terminate)
    BY <1>1 DEF Positions
  <1> QED
    BY <1>1, <1>2, <1>4, <1>5, <1>6, EndingFinite DEF StopsCounted

LEMMA CountingRun ==
  ASSUME TasksReturnZero, TerminateEnds, CountingInv, NEW w \in Poppers, RunTask(w)
  PROVE  StopsCounted'
  <1> USE DEF CountingInv, Graceful, PoolInv, PoolTypeOK, QueueTypeOK
  <1>1. /\ stage[w] = "run" /\ UNCHANGED <<sent, received, stops, phase>>
        /\ \A v \in Poppers \ {w} : stage'[v] = stage[v] /\ hand'[v] = hand[v]
        /\ stage'[w] = IF result'[w] = Zero THEN "pop" ELSE "exited"
    BY ContentsFacts DEF RunTask
  <1>2. PICK i \in DOMAIN received : received[i] = hand[w]
    BY <1>1 DEF WorkersInv
  <1>3. hand[w] \in Messages
    BY <1>2, ReceivedWasSent
  <1>4. Outcomes[hand[w]] = IF hand[w] = Terminate THEN {Nonzero} ELSE {Zero}
    BY <1>3 DEF TasksReturnZero, TerminateEnds, Tasks
  <1>5. result'[w] = IF hand[w] = Terminate THEN Nonzero ELSE Zero
    BY <1>4, OutcomeFacts DEF RunTask
  <1>6. \A v \in Poppers : Ending(v)' <=> Ending(v)
    <2>1. Ending(w)' <=> Ending(w)
      BY <1>1, <1>5, OutcomeFacts DEF Ending
    <2> QED
      BY <1>1, <2>1 DEF Ending
  <1> QED
    BY <1>1, <1>6, CountingSame

LEMMA CountingStep ==
  ASSUME TasksReturnZero, TerminateEnds, CountingInv, [GracefulNext]_vars
  PROVE  StopsCounted'
  <1> USE DEF CountingInv, Graceful, PoolInv, PoolTypeOK, QueueTypeOK
  <1>1. CASE \E p \in Pushers, task \in Tasks : Push(p, task)
    BY <1>1, CountingPush DEF Push, PushBack, poolVars, Tasks
  <1>2. CASE PushStop
    <2>1. stops' \in Nat /\ stops' = stops - 1 /\ UNCHANGED <<stage, phase>>
          /\ Guarded(Owner, Terminate, "append")
      BY <1>2 DEF PushStop, PushBack, StopsComeLast
    <2> QED
      BY <2>1, CountingPush, OutcomeFacts
  <1>3. CASE Shutdown
    <2>1. /\ phase = "open" /\ phase' = "shutdown" /\ stops' = Cardinality(Poppers)
          /\ UNCHANGED <<sent, received, stage, hand>>
      BY <1>3 DEF Shutdown, BeginShutdown
    <2>2. EndingWorkers' = EndingWorkers
      BY <2>1 DEF EndingWorkers, Ending
    <2>3. Positions(sent, Terminate) = {} /\ Positions(sent', Terminate) = {}
      BY <2>1 DEF StopsComeLast, Positions
    <2>4. Cardinality(Positions(sent', Terminate)) = 0 /\ phase' # "open"
      BY <2>1, <2>3, FS_EmptySet
    <2>5. Cardinality(Positions(received, Terminate)) = Cardinality(EndingWorkers)
      BY DEF StopsCounted
    <2>6. Positions(received', Terminate) = Positions(received, Terminate)
      BY <2>1
    <2>7. Positions(sent, Terminate)' = Positions(sent', Terminate)
          /\ Positions(received, Terminate)' = Positions(received', Terminate)
      BY DEF Positions
    <2>8. stops' = Cardinality(Poppers) /\ 0 + Cardinality(Poppers) = Cardinality(Poppers)
      BY <2>1, EndingFinite
    <2> QED
      BY <2>2, <2>4, <2>5, <2>6, <2>7, <2>8 DEF StopsCounted
  <1>4. CASE JoinEach \/ UNCHANGED vars
    BY <1>4, CountingSame DEF JoinEach, vars, Ending
  <1>5. ASSUME NEW w \in Poppers, WorkerPop(w) \/ WokenForNothing(w)
        PROVE  StopsCounted'
    <2>1. UNCHANGED <<sent, received, stops, phase, stage>>
      BY <1>5 DEF WorkerPop, WokenForNothing, PopWait, PopLock, TakeFront, SpuriousWake, poolVars
    <2>2. \A v \in Poppers : hand'[v] = hand[v] \/ (v = w /\ stage[w] = "pop")
      BY <1>5, ContentsFacts
         DEF WorkerPop, WokenForNothing, PopWait, PopLock, TakeFront, SpuriousWake
    <2> QED
      BY <2>1, <2>2, CountingSame DEF Ending
  <1>6. ASSUME NEW p \in Pushers, PusherStep(p)
        PROVE  StopsCounted'
    <2>1. UNCHANGED <<sent, received, stops, phase, stage>>
      BY <1>6 DEF PusherStep, FinishPush, ConstructBack, AdvanceLast, ConstructFront,
                  RetreatFirst, NewFrontNode, FillFront, poolVars
    <2>2. \A v \in Poppers : hand'[v] = hand[v]
      BY <1>6, ContentsFacts
         DEF PusherStep, FinishPush, ConstructBack, AdvanceLast, ConstructFront,
             RetreatFirst, NewFrontNode, FillFront
    <2> QED
      BY <2>1, <2>2, CountingSame DEF Ending
  <1> QED
    BY <1>1, <1>2, <1>3, <1>4, <1>5, <1>6, CountingPopped, CountingRun
       DEF GracefulNext, PoolStep, WorkerStep

\* When the shutdown is over nothing moves any more.
LEMMA DownStep ==
  ASSUME CountingInv, [GracefulNext]_vars
  PROVE  DownInv'
  <1> USE DEF CountingInv, DownInv
  <1>1. CASE \E p \in Pushers, task \in Tasks : Push(p, task)
    BY <1>1 DEF Push, poolVars
  <1>2. CASE PushStop \/ Shutdown
    BY <1>2 DEF PushStop, Shutdown, BeginShutdown
  <1>3. CASE JoinEach \/ UNCHANGED vars
    BY <1>3 DEF JoinEach, vars
  <1>4. ASSUME NEW w \in Poppers, WorkerStep(w)
        PROVE  DownInv'
    <2>1. stage[w] # "exited" /\ UNCHANGED phase
      BY <1>4 DEF WorkerStep, WorkerPop, WorkerPopped, RunTask, poolVars
    <2> QED
      BY <2>1
  <1>5. ASSUME NEW w \in Poppers, WokenForNothing(w)
        PROVE  DownInv'
    <2>1. at[w] = "asleep" /\ UNCHANGED <<phase, stops, stage>>
      BY <1>5 DEF WokenForNothing, SpuriousWake, poolVars
    <2>2. phase # "down"
      BY <2>1 DEF Graceful, WorkersInv
    <2> QED
      BY <2>1, <2>2
  <1>6. ASSUME NEW p \in Pushers, PusherStep(p)
        PROVE  DownInv'
    <2>1. at[p] # "idle" /\ p = Owner /\ UNCHANGED phase
      BY <1>6 DEF PusherStep, FinishPush, ConstructBack, AdvanceLast, ConstructFront,
                  RetreatFirst, NewFrontNode, FillFront, poolVars, Graceful
    <2> QED
      BY <2>1
  <1> QED
    BY <1>1, <1>2, <1>3, <1>4, <1>5, <1>6 DEF GracefulNext, PoolStep

LEMMA CountingImplies == CountingInv => Drained
  <1> SUFFICES ASSUME CountingInv, phase = "down" PROVE
          /\ Len(received) = Len(sent) /\ first = last
          /\ Cardinality(Positions(received, Terminate)) = Cardinality(Poppers)
    BY DEF Drained
  <1> USE DEF CountingInv, Graceful, PoolInv, PoolTypeOK
  <1>1. /\ stops = 0 /\ at[Owner] = "idle"
        /\ \A w \in Poppers : stage[w] = "exited"
    BY DEF DownInv
  <1>2. EndingWorkers = Poppers
    BY <1>1 DEF EndingWorkers, Ending
  <1>3. /\ Cardinality(Positions(received, Terminate)) = Cardinality(Poppers)
        /\ Cardinality(Positions(sent, Terminate)) = Cardinality(Poppers)
    <2>1. Cardinality(Positions(sent, Terminate)) \in Nat
      <3>1. sent \in Seq(Messages) /\ Terminate \in Messages
        BY OutcomeFacts DEF QueueTypeOK
      <3> QED
        BY <3>1, PositionsAppend
    <2> QED
      BY <1>1, <1>2, <2>1 DEF StopsCounted
  <1>4. Positions(received, Terminate) \in SUBSET Positions(sent, Terminate)
    BY ReceivedWasSent DEF Positions
  <1>5. Positions(received, Terminate) = Positions(sent, Terminate)
    <2>1. sent \in Seq(Messages) /\ Terminate \in Messages
      BY OutcomeFacts DEF QueueTypeOK
    <2>2. IsFiniteSet(Positions(sent, Terminate))
      BY <2>1, PositionsAppend
    <2> QED
      BY <1>3, <1>4, <2>2, FS_Subset
  <1>6. /\ Len(received) \in Nat /\ Len(sent) \in Nat /\ Len(received) <= Len(sent)
        /\ Len(sent) = last /\ first = Len(received)
    <2>1. Busy(Owner) = 0 /\ first <= last /\ last \in Int
      BY <1>1, CountersType DEF Busy, SinglePusherInv
    <2> QED
      BY <2>1, CountersType DEF SinglePusherInv
  <1>7. Len(received) = Len(sent)
    <2> SUFFICES ASSUME Len(received) < Len(sent) PROVE FALSE
      BY <1>6
    <2>1. Len(sent) \in DOMAIN sent /\ Len(sent) \notin DOMAIN received
      BY <1>6 DEF QueueTypeOK
    <2>2. PICK w \in Poppers : TRUE
      BY ThreadsAssumption
    <2>3. sent[Len(sent)] = Terminate
      BY <1>1, <1>6, <2>1, <2>2, GracefulImplies DEF NoneLeftBehind
    <2> QED
      BY <1>5, <2>1, <2>3 DEF Positions
  <1> QED
    BY <1>3, <1>6, <1>7

\* When shutdown() has joined every thread of a pool with one pusher, whose tasks
\* return 0 and whose terminate task does not, everything pushed has been popped, and
\* each worker has used up one terminate task: none is left over and none was shared.
THEOREM ShutdownDrains ==
  ASSUME Pushers = {Owner}, TasksReturnZero, TerminateEnds
  PROVE  GracefulSpec => []Drained
  <1>1. PoolInit => CountingInv
    BY CountingInit
  <1>2. CountingInv /\ [GracefulNext]_vars => CountingInv'
    BY GracefulStep, CountingStep, DownStep DEF CountingInv
  <1> QED
    BY <1>1, <1>2, CountingImplies, PTL DEF GracefulSpec

-----------------------------------------------------------------------------
(* No task twice, from the two invariants of the queue that count messages.  *)

\* Running a task empties the worker's hand, which it no longer carries.
LEMMA RunTaskHands ==
  ASSUME PoolInv, NEW w \in Poppers, RunTask(w)
  PROVE  /\ UNCHANGED <<cells, first, mutex, at, reg, sent, received>>
         /\ \A m : Hands(m)' = Hands(m)
  <1> USE DEF PoolInv, PoolTypeOK
  <1>1. /\ at[w] = "idle" /\ UNCHANGED <<cells, first, mutex, at, reg, sent, received>>
        /\ \A t \in Threads \ {w} : hand'[t] = hand[t]
    BY ContentsFacts DEF RunTask, QueueTypeOK
  <1>2. \A m : \A t \in Threads : Carries(t, m)' <=> Carries(t, m)
    BY <1>1 DEF Carries
  <1> QED
    BY <1>1, <1>2 DEF Hands

\* A pool runs no task that a move empties (a node_task with its callsign) more often
\* than it was pushed, with any number of workers and pushers, whatever the tasks do and
\* with either shutdown.
THEOREM NoTaskTwice == PoolSpec => []OnceEach(Emptied)
  <1>1. PoolInv /\ CopiesInv /\ [PoolNext]_vars => CopiesInv'
    <2> SUFFICES ASSUME PoolInv, CopiesInv, [PoolNext]_vars PROVE CopiesInv'
      OBVIOUS
    <2> USE DEF PoolInv, PoolTypeOK
    <2>1. CASE \E w \in Poppers : RunTask(w)
      <3>1. UNCHANGED <<cells, sent, received>> /\ \A m : Hands(m)' = Hands(m)
        BY <2>1, RunTaskHands
      <3> QED
        BY <3>1 DEF CopiesInv, Positions
    <2>2. CASE \E w \in Poppers : WorkerPop(w) \/ WorkerPopped(w) \/ WokenForNothing(w)
      BY <2>2, CopiesPop DEF WorkerPop, WorkerPopped, WokenForNothing, Pop
    <2>3. CASE \E p \in Pushers : PusherStep(p)
      BY <2>3, CopiesFinishPush DEF PusherStep
    <2>4. CASE PushStop \/ \E p \in Pushers, task \in Tasks : Push(p, task)
      BY <2>4, CopiesGuarded, OutcomeFacts DEF PushStop, Push, PushBack, PushFront, Tasks
    <2>5. CASE Shutdown \/ ShutdownNow \/ JoinEach \/ UNCHANGED vars
      <3>1. UNCHANGED queueVars
        BY <2>5 DEF Shutdown, ShutdownNow, BeginShutdown, JoinEach, vars, queueVars
      <3> QED
        BY <3>1, CopiesStutter
    <2> QED
      BY <2>1, <2>2, <2>3, <2>4, <2>5 DEF PoolNext, GracefulNext, PoolStep, WorkerStep
  <1>2. PoolInv /\ CopiesInv => OnceEach(Emptied)
    BY CopiesImply DEF PoolInv, QueueInv
  <1>3. PoolInit => CopiesInv
    BY CopiesInit DEF PoolInit
  <1> QED
    BY <1>1, <1>2, <1>3, PoolInitInv, PoolStepInv, PTL DEF PoolSpec

\* Only shutdown_now pushes at the front.
BackOnly == phase \in {"open", "shutdown"}

LEMMA BackOnlyStep ==
  ASSUME PoolInv, BackOnly => AheadInv, [PoolNext]_vars
  PROVE  (BackOnly => AheadInv)'
  <1> USE DEF PoolInv, PoolTypeOK
  <1> SUFFICES ASSUME BackOnly' PROVE AheadInv'
    OBVIOUS
  <1>1. BackOnly /\ AheadInv
    BY DEF BackOnly, PoolNext, GracefulNext, PoolStep, WorkerStep, WorkerPop, WorkerPopped,
           RunTask, WokenForNothing, PusherStep, Push, PushStop, JoinEach, Shutdown,
           ShutdownNow, BeginShutdown, vars, poolVars
  <1>2. CASE \E w \in Poppers : RunTask(w)
    <2>1. /\ UNCHANGED <<cells, first, mutex, at, reg, sent, received>>
          /\ \A m : Hands(m)' = Hands(m)
      BY <1>2, RunTaskHands
    <2>2. \A m : /\ Ahead(m)' = Ahead(m) /\ Positions(received, m)' = Positions(received, m)
                 /\ Positions(sent, m)' = Positions(sent, m)
      BY <2>1 DEF Ahead, Positions, TakenOut
    <2> QED
      BY <1>1, <2>1, <2>2 DEF AheadInv
  <1>3. CASE \E w \in Poppers : WorkerPop(w) \/ WorkerPopped(w) \/ WokenForNothing(w)
    BY <1>1, <1>3, AheadPop DEF WorkerPop, WorkerPopped, WokenForNothing, Pop
  <1>4. CASE \E p \in Pushers : PusherStep(p)
    BY <1>1, <1>4, AheadFinishPush DEF PusherStep
  <1>5. CASE PushStop \/ \E p \in Pushers, task \in Tasks : Push(p, task)
    BY <1>1, <1>5, AheadPushBack, OutcomeFacts DEF PushStop, Push, Tasks, BackOnly
  <1>6. CASE Shutdown \/ ShutdownNow \/ JoinEach \/ UNCHANGED vars
    <2>1. UNCHANGED queueVars
      BY <1>6 DEF Shutdown, ShutdownNow, BeginShutdown, JoinEach, vars, queueVars
    <2> QED
      BY <1>1, <2>1, AheadStutter
  <1> QED
    BY <1>2, <1>3, <1>4, <1>5, <1>6 DEF PoolNext, GracefulNext, PoolStep, WorkerStep

\* Until shutdown_now, a pool runs nothing more often than it was pushed, whatever a move
\* leaves of a task: a console task, whose string a move copies, and the terminate tasks
\* of shutdown() included, with any number of workers and pushers.
THEOREM NoTaskTwiceFromTheBack == PoolSpec => [](BackOnly => OnceEach(Messages))
  <1>1. PoolInit => AheadInv
    BY AheadInit DEF PoolInit
  <1>2. PoolInv /\ (BackOnly => AheadInv) => (BackOnly => OnceEach(Messages))
    BY AheadImplies DEF PoolInv, QueueInv
  <1>3. PoolInv /\ (BackOnly => AheadInv) /\ [PoolNext]_vars => (BackOnly => AheadInv)'
    BY BackOnlyStep
  <1> QED
    BY <1>1, <1>2, <1>3, PoolInitInv, PoolStepInv, PTL DEF PoolSpec
=============================================================================
