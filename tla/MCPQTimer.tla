----------------------------- MODULE MCPQTimer -----------------------------
(* Model-checking instance of PQTimer: six timers, the least number with   *)
(* which a cancelled node's replacement has to rise.                       *)
EXTENDS PQTimer
=============================================================================
