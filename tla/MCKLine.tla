------------------------------ MODULE MCKLine ------------------------------
(* Model-checking instance of KLine: two sessions, the first two bars long,   *)
(* the second one, listed in the order opposite to time, with a gap between   *)
(* the end of the grace of the first and the start of the second.             *)
EXTENDS KLine

MCSegments == <<[From |-> 9, To |-> 11], [From |-> 2, To |-> 6]>>
=============================================================================
