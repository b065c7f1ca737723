-------------------------------- MODULE Baw --------------------------------
(***************************************************************************)
(* k3yab::bawns::baw::run (app/source/baw.cpp) and the node_task it queues:*)
(* the main thread reads callsigns from standard input, one per line,      *)
(* pushes a node_task for each to its own ThreadPool, and shuts the pool   *)
(* down.  The pool is ThreadPool with the main thread as its only pusher.  *)
(***************************************************************************)
EXTENDS ThreadPool

CONSTANTS
    Inputs      \* what standard input may hold: see the assumption

(* A text is what std::getline stores: its characters, of which only their *)
(* number is told, and whether a carriage return follows them.  The line   *)
(* feed is never stored.                                                   *)
Texts == [sign : STRING, length : Nat, cr : BOOLEAN]

NoText == [sign |-> "", length |-> 0, cr |-> FALSE]

\* call.size() <= 1: nothing, a carriage return alone, or a single character.
Blank(text) == text.length + (IF text.cr THEN 1 ELSE 0) <= 1

(* `terminated' says whether the last line has its line feed.              *)
ASSUME InputsAssumption ==
    \A input \in Inputs :
        /\ input.terminated \in BOOLEAN
        /\ input.lines \in Seq(Texts)
        /\ \A i \in DOMAIN input.lines :
              ~Blank(input.lines[i]) => input.lines[i] \in Tasks

ASSUME MainAssumption == Pushers = {Owner}

VARIABLES
    main,       \* where baw::run stands
    input,      \* what standard input holds
    next,       \* the next line to read
    stdin,      \* state of the input stream: good, eof or fail
    call        \* run's `call'

mainVars == <<main, input, next, stdin, call>>
bawVars == <<cells, first, last, mutex, at, hand, reg, sent, received,
             stage, result, phase, stops, main, input, next, stdin, call>>

\* node_task::operator() drops what run() returns and returns 0, for the
\* default-constructed terminate task too.  Running storage that was never
\* constructed is undefined.
NodeOutcomes ==
    [m \in Contents |-> IF m = Raw THEN {Zero, Nonzero, Throw} ELSE {Zero}]

BawInit ==
    /\ PoolInit
    /\ main = "opening"
    /\ input \in Inputs
    /\ next = 1
    /\ stdin = "good"
    /\ call = NoText

\* m_state = { m_config.state_path }: the state file opens, or its constructor
\* throws and the exception leaves run through ~ThreadPool.
OpenStateFile ==
    /\ main = "opening"
    /\ main' = "reading"
    /\ UNCHANGED <<queueVars, poolVars, input, next, stdin, call>>

OpenFails ==
    /\ main = "opening"
    /\ ShutdownNow
    /\ main' = "unwinding"
    /\ UNCHANGED <<input, next, stdin, call>>

-----------------------------------------------------------------------------
(* The loop over standard input: getline, the size test, the push.         *)

\* std::getline clears `call' only if the stream is still good; the last line
\* leaves the stream at eof when nothing terminates it.
GetLine ==
    \/ /\ stdin = "good" /\ next <= Len(input.lines)
       /\ call' = input.lines[next]
       /\ next' = next + 1
       /\ stdin' = IF next = Len(input.lines) /\ ~input.terminated THEN "eof" ELSE "good"
    \/ /\ stdin = "good" /\ next > Len(input.lines)
       /\ call' = NoText
       /\ stdin' = "fail"
       /\ UNCHANGED next
    \/ /\ stdin = "eof"
       /\ stdin' = "fail"
       /\ UNCHANGED <<call, next>>

\* The branch that would remove a '\n' from the end of `call' is never taken,
\* getline having removed it: a carriage return stays.
ReadCall ==
    /\ main = "reading" /\ at[Owner] = "idle"
    /\ stdin # "fail"
    /\ GetLine
    /\ main' = IF Blank(call') THEN "reading" ELSE "pushing"
    /\ UNCHANGED <<queueVars, poolVars, input>>

PushCall ==
    /\ main = "pushing"
    /\ Push(Owner, call)
    /\ main' = "reading"
    /\ UNCHANGED <<input, next, stdin, call>>

\* Mutant: a blank line ends the input.
EndAtBlank ==
    /\ main = "reading" /\ at[Owner] = "idle"
    /\ stdin = "fail" \/ (next > 1 /\ Blank(call))
    /\ Shutdown
    /\ main' = "joining"
    /\ UNCHANGED <<input, next, stdin, call>>

EndOfInput ==
    /\ main = "reading" /\ at[Owner] = "idle"
    /\ stdin = "fail"
    /\ Shutdown
    /\ main' = "joining"
    /\ UNCHANGED <<input, next, stdin, call>>

\* run returns, or its exception goes on to main(), when the joins are over.
Leave ==
    /\ JoinEach
    /\ main' = IF main = "joining" THEN "returned" ELSE "thrown"
    /\ UNCHANGED <<input, next, stdin, call>>

MainStep ==
    \/ OpenStateFile \/ OpenFails \/ ReadCall \/ PushCall \/ EndOfInput \/ Leave
    \/ (PusherStep(Owner) \/ PushStop) /\ UNCHANGED mainVars

PoolThreadStep(w) == WorkerStep(w) /\ UNCHANGED mainVars

BawNext ==
    \/ MainStep
    \/ \E w \in Poppers : PoolThreadStep(w)
    \/ \E w \in Poppers : WokenForNothing(w) /\ UNCHANGED mainVars

BawSpec == BawInit /\ [][BawNext]_bawVars

\* Standard input is a finite file, so that getline always answers; a node_task
\* ends, its socket having a receive timeout.
BawFairness ==
    /\ WF_bawVars(MainStep)
    /\ \A w \in Poppers : WF_bawVars(PoolThreadStep(w))

BawFairSpec == BawSpec /\ BawFairness

-----------------------------------------------------------------------------
CallLines == {k \in DOMAIN input.lines : ~Blank(input.lines[k])}
CallsSent == {i \in DOMAIN sent : sent[i] # Terminate}

\* For each callsign that was queued, the line it comes from: in the order of the
\* lines, and each line once, but for the last one, which may come twice if nothing
\* terminates it.
FromLines(from) ==
    /\ \A i \in CallsSent : sent[i] = input.lines[from[i]]
    /\ \A i, j \in CallsSent :
          i < j => \/ from[i] < from[j]
                   \/ ~input.terminated /\ from[i] = from[j] /\ from[j] = Len(input.lines)
    /\ \A i, j, k \in CallsSent : i < j /\ j < k => from[i] < from[k]

\* The pool is shut down only when every callsign has been queued, in the order of
\* the input and once, whatever the blank lines.  Of the callsign of a last line that
\* nothing terminates no more is claimed than that it is queued once or twice: getline
\* then leaves `call' as it was, and the loop queues it again.
AllCallsQueued ==
    phase = "shutdown" =>
        \E from \in [CallsSent -> CallLines] :
            FromLines(from) /\ \A k \in CallLines : \E i \in CallsSent : from[i] = k

\* Every callsign read is visited, although wakeups get lost: the terminate
\* tasks queued behind the last callsign wake the threads for it.
EveryCallVisited ==
    phase = "shutdown" ~> \A i \in DOMAIN sent : sent[i] # Terminate => i <= Len(received)
=============================================================================
