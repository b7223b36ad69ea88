------------------------------ MODULE MCWorld -------------------------------
(* Model-checking instances of World: three by three towers of one cell,    *)
(* with a view of one tower around.                                         *)
EXTENDS World

\* Right of the map and left of it: the towers the code takes these for are the one at
\* the beginning of the next row and the one at the end of the row before.
MCOutside == {[x |-> 3, y |-> 0], [x |-> -1, y |-> 2]}
MCRight == {[x |-> 3, y |-> 0]}
=============================================================================
