------------------------------ MODULE MCImage ------------------------------
(* Two threads, and a buffer that may be in either of two places.            *)
EXTENDS Image, TLC
CONSTANTS t1, t2
ThreadSymmetry == Permutations(Threads)
=============================================================================
