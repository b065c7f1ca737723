----------------------------- MODULE MCConsole -----------------------------
(* Console with a bound on the statements each thread prints.               *)
EXTENDS Console

CONSTANTS LineLimit, ReceiveLimit

MCMessages ==
    {Text(p, n, part) : p \in Pushers, n \in 1 .. LineLimit, part \in {"callsign", "text", "route"}}
        \cup {Terminate}

\* The message captured by the task is const: moving the task copies it.
MCMovedFrom(m) == m

WithinLimits == Len(received') <= ReceiveLimit

MCConsoleSpec == ConsoleInit /\ [][ConsoleNext /\ WithinLimits]_allVars
=============================================================================
