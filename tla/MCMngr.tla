------------------------------- MODULE MCMngr -------------------------------
(* Instances of Mngr for TLC: three processes of which two may have one number. *)
EXTENDS MngrSafety

CONSTANTS a, b, c

\* c is a later process with the number of a.
MCPidOf == [x \in Bridge |-> IF x = b THEN 2 ELSE 1]

\* One port of bridge 2 with either port of bridge 1.
MCLinks == {<<1, 0, 2, 0>>, <<1, 1, 2, 0>>}
\* A port with the neighbour, and with itself.
MCSelf == {<<1, 0, 2, 0>>, <<1, 0, 1, 0>>}
=============================================================================
