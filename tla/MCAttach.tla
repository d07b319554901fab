------------------------------ MODULE MCAttach ------------------------------
(* A detach sequence whose beginning repeats itself; sizes at the edges.   *)
EXTENDS Attach

CONSTANTS b, d

MCDetach == <<b, b, d>>

MCSizes == {[rows |-> 0, cols |-> 0], [rows |-> 3, cols |-> 1]}
=============================================================================
