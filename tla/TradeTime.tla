---------------------------- MODULE TradeTime ----------------------------
(***************************************************************************)
(* The trading-session calendar of one product and the two conversions     *)
(* that decide which K-line bar a quote belongs to: IsInTradeTime          *)
(* (Util.cpp), which also moves a quote that arrives just after the close  *)
(* back into the session, and the rounding to the start of a bar at the    *)
(* head of each half of CalKLine.                                          *)
(*                                                                         *)
(* Time is absolute, in seconds.  The code compares HHMMSS times of day    *)
(* and cuts a session that crosses midnight into [from,240000) and [0,to); *)
(* here such a session is one segment.                                     *)
(***************************************************************************)
EXTENDS Integers, Sequences

CONSTANTS
    Segments,   \* <<[From, To], ...>>: g_mapProductTradeTime of one product
    Grace,      \* seconds after the close a quote still counts (10 in the code)
    Period      \* length of a bar in seconds (60 or 300 in the code)

ASSUME SegmentsAssumption ==
    /\ Segments \in Seq([From : Nat, To : Nat])
    /\ \A i \in DOMAIN Segments :
          Period <= Segments[i].From /\ Segments[i].From < Segments[i].To

ASSUME GraceAssumption == Grace \in Nat

ASSUME PeriodAssumption == Period \in Nat \ {0}

\* Segment i accepts a quote stamped ts: it is inside the half-open session, or
\* within Grace seconds of its end.
Accepts(i, ts) == Segments[i].From <= ts /\ ts < Segments[i].To + Grace

Hits(ts) == {i \in DOMAIN Segments : Accepts(i, ts)}

IsInTradeTime(ts) == Hits(ts) # {}

\* The loop over the segments stops at the first one that accepts the quote.
FirstHit(ts) == CHOOSE i \in Hits(ts) : \A j \in Hits(ts) : i <= j

\* Mutated form of TradeStamp: the stamp is not corrected.
RawStamp(ts) == ts

\* The time stamp IsInTradeTime leaves in the quote: past the close it becomes
\* the last second of the session.
TradeStamp(ts) ==
    LET close == Segments[FirstHit(ts)].To
    IN  IF ts < close THEN ts ELSE close - 1

\* The time stamp of the bar that holds ts.
BarOf(ts) == (ts \div Period) * Period
=============================================================================
