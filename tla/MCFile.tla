------------------------------ MODULE MCFile ------------------------------
(* A pipe with two writing files and one reading file.                       *)
EXTENDS File
CONSTANTS out1, out2, in
=============================================================================
