--------------------------- MODULE MCGateClients ----------------------------
(* Model-checking instances of GateClients.                                 *)
EXTENDS GateClients
=============================================================================
