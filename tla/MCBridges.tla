----------------------------- MODULE MCBridges -----------------------------
(* Instances of Bridges for TLC: the addresses are model values. *)
EXTENDS BridgesSafety

CONSTANTS l, r, zero
=============================================================================
