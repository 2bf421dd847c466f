---------------------------- MODULE MCTickStore ----------------------------
(* Model-checking instance of TickStore: two seconds, a trade or none, two    *)
(* prices in the second one; any advance of the clock makes a full tick.      *)
EXTENDS TickStore

MCQuotes == {q \in [ts : 1..2, qty : 1..2, px : 1..2] : q.ts = 1 => q.px = 1}
=============================================================================
