----------------------------- MODULE ThreadPool -----------------------------
(***************************************************************************)
(* levitator::concurrency::ThreadPool and PoolThread                       *)
(* (concurrency/thread_pool.hpp): worker threads that pop tasks from a     *)
(* MessageQueue and run them until one returns non-zero, and the owner     *)
(* that pushes tasks, queues one terminate task per thread and joins.      *)
(*                                                                         *)
(* The poppers of the queue are the workers, its messages the tasks.       *)
(***************************************************************************)
EXTENDS MessageQueue

CONSTANTS
    Owner,      \* the thread that constructs the pool and shuts it down
    Terminate,  \* m_terminate_task
    Outcomes    \* for each task, the ways its operator() may end

Zero == "zero"          \* operator() returned 0
Nonzero == "nonzero"    \* operator() returned something else
Throw == "throw"        \* operator() threw, the exception handler returned

ASSUME OwnerAssumption == Owner \in Pushers /\ Terminate \in Messages

ASSUME OutcomesAssumption ==
    Outcomes \in [Contents -> SUBSET {Zero, Nonzero, Throw} \ {{}}]

VARIABLES
    stage,      \* of each worker: in pop, running a task, or its thread ended
    result,     \* pool_thread_proc's `result'
    phase,      \* what the owner is doing to the pool
    stops       \* terminate tasks the shutdown loop has still to push

poolVars == <<stage, result, phase, stops>>
vars == <<cells, first, last, mutex, at, hand, reg, sent, received,
          stage, result, phase, stops>>

Tasks == Messages \ {Terminate}

\* `int result;' is not initialised: its first value is whatever was there.
PoolInit ==
    /\ QueueInit
    /\ stage = [w \in Poppers |-> "pop"]
    /\ result \in [Poppers -> {Zero, Nonzero}]
    /\ phase = "open"
    /\ stops = 0

-----------------------------------------------------------------------------
(* pool_thread_proc: do { pop; run the task } while (result == 0).         *)

WorkerPop(w) ==
    /\ stage[w] = "pop"
    /\ PopWait(w) \/ PopLock(w) \/ TakeFront(w)
    /\ UNCHANGED poolVars

WorkerPopped(w) ==
    /\ stage[w] = "pop"
    /\ AdvanceFirst(w)
    /\ stage' = [stage EXCEPT ![w] = "run"]
    /\ UNCHANGED <<result, phase, stops>>

\* An exception leaves `result' as the previous task set it.
RunTask(w) ==
    /\ stage[w] = "run"
    /\ \E outcome \in Outcomes[hand[w]] :
          result' = [result EXCEPT ![w] = IF outcome = Throw THEN @ ELSE outcome]
    /\ stage' = [stage EXCEPT ![w] = IF result'[w] = Zero THEN "pop" ELSE "exited"]
    /\ hand' = [hand EXCEPT ![w] = None]
    /\ UNCHANGED <<cells, first, last, mutex, at, reg, sent, received, phase, stops>>

WorkerStep(w) == WorkerPop(w) \/ WorkerPopped(w) \/ RunTask(w)

WokenForNothing(w) == SpuriousWake(w) /\ UNCHANGED poolVars

-----------------------------------------------------------------------------
(* The owner and the other threads that push.                              *)

Push(p, task) ==
    /\ phase = "open"
    /\ PushBack(p, task)
    /\ UNCHANGED poolVars

PusherStep(p) == FinishPush(p) /\ UNCHANGED poolVars

\* Every client stops pushing before the owner shuts the pool down.
BeginShutdown(how) ==
    /\ phase = "open"
    /\ \A p \in Pushers : at[p] = "idle"
    /\ phase' = how
    /\ stops' = Cardinality(Poppers)
    /\ UNCHANGED <<cells, first, last, mutex, at, hand, reg, sent, received,
                   stage, result>>

Shutdown == BeginShutdown("shutdown")
ShutdownNow == BeginShutdown("shutdown_now")

\* Mutant: shutdown() uses push_front too.
PushStopFirst ==
    /\ stops > 0
    /\ phase \in {"shutdown", "shutdown_now"} /\ PushFront(Owner, Terminate)
    /\ stops' = stops - 1
    /\ UNCHANGED <<stage, result, phase>>

\* The loop over m_threads: all of them are still joinable.
PushStop ==
    /\ stops > 0
    /\ \/ phase = "shutdown" /\ PushBack(Owner, Terminate)
       \/ phase = "shutdown_now" /\ PushFront(Owner, Terminate)
    /\ stops' = stops - 1
    /\ UNCHANGED <<stage, result, phase>>

\* Mutant: only one thread is joined.
JoinOne ==
    /\ phase \in {"shutdown", "shutdown_now"}
    /\ stops = 0
    /\ at[Owner] = "idle"
    /\ \E w \in Poppers : stage[w] = "exited"
    /\ phase' = "down"
    /\ UNCHANGED <<cells, first, last, mutex, at, hand, reg, sent, received,
                   stage, result, stops>>

\* join_each.  ~ThreadPool's own shutdown_now then finds no joinable thread.
JoinEach ==
    /\ phase \in {"shutdown", "shutdown_now"}
    /\ stops = 0
    /\ at[Owner] = "idle"
    /\ \A w \in Poppers : stage[w] = "exited"
    /\ phase' = "down"
    /\ UNCHANGED <<cells, first, last, mutex, at, hand, reg, sent, received,
                   stage, result, stops>>

OwnerStep == PusherStep(Owner) \/ PushStop \/ JoinEach

-----------------------------------------------------------------------------
PoolStep ==
    \/ \E w \in Poppers : WorkerStep(w) \/ WokenForNothing(w)
    \/ \E p \in Pushers : PusherStep(p) \/ \E task \in Tasks : Push(p, task)
    \/ PushStop
    \/ JoinEach

\* The pool as its owner uses it when nothing fails: shutdown() at the end.
GracefulNext == PoolStep \/ Shutdown

PoolNext == GracefulNext \/ ShutdownNow

GracefulSpec == PoolInit /\ [][GracefulNext]_vars
PoolSpec == PoolInit /\ [][PoolNext]_vars

\* The scheduler runs every thread that can run; a task ends; a thread inside
\* push, shutdown or join goes on.  Nothing obliges a client to push or to
\* shut down, and spurious wakeups may never come.
PoolFairness ==
    /\ \A w \in Poppers : WF_vars(WorkerStep(w))
    /\ \A p \in Pushers : WF_vars(PusherStep(p))
    /\ WF_vars(PushStop)
    /\ WF_vars(JoinEach)

-----------------------------------------------------------------------------
PoolTypeOK ==
    /\ QueueTypeOK
    /\ stage \in [Poppers -> {"pop", "run", "exited"}]
    /\ result \in [Poppers -> {Zero, Nonzero}]
    /\ phase \in {"open", "shutdown", "shutdown_now", "down"}
    /\ stops \in Nat

\* "Shut down each thread after all pending tasks are done": no worker thread
\* ends while a task that was pushed has not been popped by some worker.
NoneLeftBehind ==
    \A w \in Poppers : stage[w] = "exited" =>
        \A i \in DOMAIN sent : sent[i] # Terminate => i <= Len(received)

(* The inductive invariant behind it, for a pool whose tasks return 0: no    *)
(* task follows a terminate task in the queue, and a thread has ended only   *)
(* after it popped one.                                                      *)
StopsComeLast ==
    /\ phase # "shutdown_now"
    /\ phase = "open" => \A i \in DOMAIN sent : sent[i] # Terminate
    /\ \A i, j \in DOMAIN sent :
          (sent[i] = Terminate /\ i < j) => sent[j] = Terminate

WorkersInv ==
    \A w \in Poppers :
        /\ stage[w] # "pop" => at[w] = "idle"
        /\ stage[w] = "run" => \E i \in DOMAIN received : received[i] = hand[w]
        /\ stage[w] = "exited" => \E i \in DOMAIN received : received[i] = Terminate

\* Once shutdown() has joined every thread, every task has been popped and run,
\* and the terminate tasks are used up: one for each worker, none shared.
Drained ==
    phase = "down" =>
        /\ Len(received) = Len(sent)
        /\ first = last
        /\ Cardinality(Positions(received, Terminate)) = Cardinality(Poppers)

\* Every message but the last one pushed is eventually popped: a lost wakeup
\* delays a message until the next push, and so strands only the last.
AllButLastTaken ==
    \A i \in 1 .. 3 : Len(sent) > i ~> Len(received) >= i

\* The one way a shutdown can stop for ever: a single worker is asleep and the
\* message it was not woken for is the terminate task meant for it.
LastWorkerStranded ==
    /\ stops = 0 /\ at[Owner] = "idle"
    /\ last - first = 1 /\ Cell(first) = Terminate
    /\ Cardinality({w \in Poppers : stage[w] # "exited"}) = 1
    /\ \E w \in Poppers : at[w] = "asleep"

\* shutdown() ends with every thread joined, or is stuck in that one way.
ShutdownEndsOrStrands ==
    phase = "shutdown" ~> (phase = "down" \/ [](LastWorkerStranded))

\* "Shut down each thread after all pending tasks are done": shutdown returns.
ShutdownReturns == phase = "shutdown" ~> phase = "down"
=============================================================================
