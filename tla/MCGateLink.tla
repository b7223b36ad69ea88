----------------------------- MODULE MCGateLink -----------------------------
(* Model-checking instances of GateLink with its gateway.                   *)
EXTENDS GateLink
=============================================================================
