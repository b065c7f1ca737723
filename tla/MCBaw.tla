------------------------------- MODULE MCBaw -------------------------------
(* Baw on small inputs: up to two callsigns, lines that count as blank       *)
(* anywhere, single characters with and without a carriage return, the last  *)
(* line terminated or not.                                                   *)
EXTENDS Baw, TLC

CONSTANTS ReceiveLimit

Text(sign, length, cr) == [sign |-> sign, length |-> length, cr |-> cr]
First == Text("K3YAB", 5, FALSE)
Second == Text("N0ARY", 5, FALSE)
Letter == Text("K", 1, FALSE)
LetterCR == Text("K", 1, TRUE)
LoneCR == Text("", 0, TRUE)

MCMessages == {First, Second, LetterCR, Terminate}

MCLines == {<<>>,
            <<First>>,
            <<NoText, First>>,
            <<Letter, First>>,
            <<First, Letter>>,
            <<First, LoneCR>>,
            <<LetterCR, First>>,
            <<First, Second>>}
MCInputs == [lines : MCLines, terminated : BOOLEAN]

Bounded == BawNext /\ Len(received') <= ReceiveLimit
MCBawSpec == BawInit /\ [][Bounded]_bawVars
MCBawFairSpec == MCBawSpec /\ BawFairness
\* A node_task that was moved from has lost its callsign; the terminate task has
\* none to lose, and stays what it is.
MCMovedFrom(m) == IF m = Terminate THEN Terminate ELSE Moved
=============================================================================
