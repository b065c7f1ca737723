---------------------------- MODULE MCStateFile ----------------------------
(* Two processes on the same file or on two, after options or none; and one   *)
(* process alone with any command line of up to ArgLimit arguments.            *)
EXTENDS StateFile
CONSTANTS p1, p2, ArgLimit
MCNumbers == [w \in {"0", "1"} |-> IF w = "0" THEN 0 ELSE 1]
CommandLines == UNION {[1 .. n -> Args] : n \in 0 .. ArgLimit}
MCStarts ==
    [Processes -> {<<"w">>, <<"-f", "0", "-h", "w">>}]
        \cup [Processes -> {<<>>}]
        \cup {(p1 :> args @@ p2 :> <<>>) : args \in CommandLines}
=============================================================================
