----------------------------- MODULE MCFrontEnd -----------------------------
(* Model-checking instance of FrontEnd: a contract with two quotes of one   *)
(* day and one of the next, whose volume starts again, and a second one.    *)
EXTENDS FrontEnd

Quote(contract, date, time, total) ==
    [contract |-> contract, date |-> date, time |-> time, total |-> total]
MCTape == <<Quote("a", 1, 1, 1), Quote("a", 1, 2, 1), Quote("b", 1, 2, 1), Quote("a", 2, 3, 0)>>
=============================================================================
