--------------------------- MODULE MCLogicHandoff ---------------------------
(* Model-checking instance of LogicHandoff: a ring of two slots and enough  *)
(* messages to fill every ring and be refused, and to wrap each ring round. *)
EXTENDS LogicHandoff

MCItem == 1 .. MaxMsgs
=============================================================================
