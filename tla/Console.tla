------------------------------ MODULE Console ------------------------------
(***************************************************************************)
(* jab::util::Console (console.hpp, console.cpp) and what baw.cpp prints   *)
(* through it: the main thread and the workers queue their output as tasks *)
(* of a ThreadPool of one thread, which writes them to the terminal.  A    *)
(* ConsoleOutBuffer queues its text when it is destroyed, and copying one  *)
(* copies no text, so that the pieces of a statement that hands a buffer   *)
(* on are queued apart: the callsign by the buffer inside print(), the     *)
(* rest by the one print() returned.                                       *)
(***************************************************************************)
EXTENDS ThreadPool

VARIABLES
    saying,     \* of each thread: the pieces of its statement still to queue
    line,       \* of each thread: the statements it has begun
    screen      \* what the console thread has written, in order

consoleVars == <<saying, line, screen>>
allVars == <<cells, first, last, mutex, at, hand, reg, sent, received,
             stage, result, phase, stops, saying, line, screen>>

\* make_console_output_task: a task with a stream writes and returns 0; the
\* terminate task, made with nullptr, returns -1.
ConsoleOutcomes ==
    [m \in Contents |-> IF m = Terminate THEN {Nonzero}
                        ELSE IF m = Raw THEN {Zero, Nonzero, Throw} ELSE {Zero}]

Text(p, n, part) == [from |-> p, line |-> n, part |-> part]

\* The pool is made with one thread.
ConsoleInit ==
    /\ PoolInit
    /\ Cardinality(Poppers) = 1
    /\ saying = [p \in Pushers |-> <<>>]
    /\ line = [p \in Pushers |-> 0]
    /\ screen = <<>>

-----------------------------------------------------------------------------
(* queue_out, from the destructor of a ConsoleOutBuffer.                   *)

\* What can be said is bounded by what Messages holds.
QueueOut(p, n, part) == Text(p, n, part) \in Tasks /\ Push(p, Text(p, n, part))

Begin(p, pieces) ==
    /\ saying[p] = <<>>
    /\ QueueOut(p, line[p] + 1, Head(pieces))
    /\ line' = [line EXCEPT ![p] = @ + 1]
    /\ saying' = [saying EXCEPT ![p] = Tail(pieces)]
    /\ UNCHANGED screen

\* console.out() << ...: one buffer, queued at the end of the statement.  It is
\* what the main thread prints with, while the workers already run.
SayPlain(p) == p = Owner /\ Begin(p, <<"text">>)

\* print() << ...: the callsign is queued inside print().
SayPrint(p) == p # Owner /\ Begin(p, <<"callsign", "text">>)

\* auto pr = print() << ...: what was written to the buffer that `pr' is a copy
\* of is queued at the end of the statement, the route at the end of the scope.
SayRoute(p) == p # Owner /\ Begin(p, <<"callsign", "text", "route">>)

SayRest(p) ==
    /\ saying[p] # <<>>
    /\ QueueOut(p, line[p], Head(saying[p]))
    /\ saying' = [saying EXCEPT ![p] = Tail(@)]
    /\ UNCHANGED <<line, screen>>

Say(p) == SayPlain(p) \/ SayPrint(p) \/ SayRoute(p) \/ SayRest(p)

\* The console thread runs one task: it writes the message, if it is one.
Write(w) ==
    /\ RunTask(w)
    /\ screen' = IF hand[w] \in Tasks THEN Append(screen, hand[w]) ELSE screen
    /\ UNCHANGED <<saying, line>>

ConsoleThread(w) ==
    \/ (WorkerPop(w) \/ WorkerPopped(w)) /\ UNCHANGED consoleVars
    \/ Write(w)

\* The static console is destroyed after main() returns, by ~ThreadPool.
Exit ==
    /\ \A p \in Pushers : saying[p] = <<>>
    /\ ShutdownNow
    /\ UNCHANGED consoleVars

Pusher(p) == PusherStep(p) /\ UNCHANGED consoleVars

Destroy == (PushStop \/ JoinEach) /\ UNCHANGED consoleVars

ConsoleNext ==
    \/ \E p \in Pushers : Say(p) \/ Pusher(p)
    \/ \E w \in Poppers : ConsoleThread(w) \/ (WokenForNothing(w) /\ UNCHANGED consoleVars)
    \/ Exit
    \/ Destroy

ConsoleSpec == ConsoleInit /\ [][ConsoleNext]_allVars

-----------------------------------------------------------------------------
\* "so that threads don't talk over each other": nothing comes on the screen
\* between two pieces of one statement, until the console is destroyed.
LinesWhole ==
    LET statement(i) == <<screen[i].from, screen[i].line>>
    IN  phase = "open" =>
            \A i, k \in DOMAIN screen : statement(i) = statement(k) =>
                \A j \in i .. k : statement(j) = statement(i)
=============================================================================
