------------------------------- MODULE MCRing -------------------------------
(* An instance of MngrRing for TLC. *)
EXTENDS MngrRing

CONSTANTS a, b

MCPidOf == [x \in Bridge |-> IF x = b THEN 2 ELSE 1]
=============================================================================
