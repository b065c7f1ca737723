-------------------------- MODULE MCFilestreambuf --------------------------
(* Filestreambuf on small rings.  Nothing is claimed of a buffer whose       *)
(* ranges have gone wrong, and it is followed no further.                    *)
EXTENDS Filestreambuf

MCNext == ~misread /\ ~miswrote /\ Next
MCSpec == Init /\ [][MCNext]_vars
=============================================================================
