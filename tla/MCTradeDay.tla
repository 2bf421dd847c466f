----------------------------- MODULE MCTradeDay -----------------------------
(* Model-checking instance of TradeDay: Friday to Monday, two products   *)
(* that close at 15:00 and at 15:15.                                        *)
EXTENDS TradeDay, TLC

CONSTANTS k1, k2

MCContracts == {k1, k2}
MCCloseAt == (k1 :> 150000) @@ (k2 :> 151500)
MCTimes == <<10000, 150500, 153000, 193000, 203500, 210000>>
=============================================================================
