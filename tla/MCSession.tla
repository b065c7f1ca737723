----------------------------- MODULE MCSession -----------------------------
(* A session with a node that knows two callsigns.                           *)
EXTENDS Session
CONSTANTS a, b
=============================================================================
