------------------------------- MODULE DayLog -------------------------------
(***************************************************************************)
(* What the tick storage of one option promises, without its buffers,      *)
(* locks and threads: the ticks of a trade date form one log, in the order *)
(* they were accepted.  A growing prefix of it is durable.  A crash keeps  *)
(* that prefix and may lose what follows, never something in the middle,   *)
(* and nothing else removes a tick before the next trade date.             *)
(***************************************************************************)
EXTENDS Naturals, Sequences

VARIABLES
    accepted,   \* number of ticks accepted on this trade date
    log,        \* serial numbers of the ticks that can be served
    durable     \* the part of the log on disk

vars == <<accepted, log, durable>>

Init ==
    /\ accepted = 0
    /\ log = <<>>
    /\ durable = <<>>

Accept ==
    /\ accepted' = accepted + 1
    /\ log' = Append(log, accepted')
    /\ UNCHANGED durable

Flush ==
    /\ \E k \in Len(durable)..Len(log) : durable' = SubSeq(log, 1, k)
    /\ UNCHANGED <<accepted, log>>

Crash ==
    /\ \E k \in Len(durable)..Len(log) : durable' = SubSeq(log, 1, k)
    /\ log' = durable'
    /\ UNCHANGED accepted

NewDay ==
    /\ accepted' = 0
    /\ log' = <<>>
    /\ durable' = <<>>

Next == Accept \/ Flush \/ Crash \/ NewDay

Spec == Init /\ [][Next]_vars
=============================================================================
