---------------------------- MODULE MCThreadPool ----------------------------
(* ThreadPool with a bound on the tasks pushed and on the messages popped.  *)
EXTENDS ThreadPool

CONSTANTS
    TaskLimit,      \* tasks the clients push before the shutdown
    ReceiveLimit,   \* pops, where a race makes the queue return garbage for ever
    TaskOutcomes,   \* how a task may end
    StopOutcomes    \* how the terminate task ends

MCOutcomes ==
    [m \in Contents |-> IF m = Terminate THEN StopOutcomes ELSE TaskOutcomes]

WithinLimits ==
    /\ Cardinality({i \in DOMAIN sent' : sent'[i] # Terminate}) <= TaskLimit
    /\ Len(received') <= ReceiveLimit

MCGracefulSpec == PoolInit /\ [][GracefulNext /\ WithinLimits]_vars
MCFairGracefulSpec == MCGracefulSpec /\ PoolFairness

\* A node_task that was moved from has lost its callsign; the terminate task has
\* none to lose, and stays what it is.
MCMovedFrom(m) == IF m = Terminate THEN Terminate ELSE Moved
=============================================================================
