------------------------------ MODULE TimerSet ------------------------------
(***************************************************************************)
(* What a timer queue (TimerQueueBase) promises, without the heap: a set   *)
(* of deadlines.  One call of Update fires every timer that is due at its  *)
(* time, those its callbacks add or cancel included, the earliest first,   *)
(* each once, and none before its deadline.                                *)
(***************************************************************************)
EXTENDS Naturals

VARIABLES
    time,       \* the clock
    pending,    \* the timers, [id, expires]
    used,       \* the number of ids given away
    limit,      \* the time Update works for
    phase       \* "idle", "looping" in Update, "calling" a callback of it

vars == <<time, pending, used, limit, phase>>

Init ==
    /\ time \in Nat
    /\ pending = {} /\ used = 0 /\ limit = 0 /\ phase = "idle"

Pass ==
    /\ time' > time
    /\ UNCHANGED <<pending, used, limit, phase>>

Add ==
    /\ phase # "looping"
    /\ used' = used + 1
    /\ \E n \in pending' : n.id = used' /\ n.expires >= time /\ pending' = pending \cup {n}
    /\ UNCHANGED <<time, limit, phase>>

Remove ==
    /\ phase # "looping"
    /\ \E n \in pending : pending' = pending \ {n}
    /\ UNCHANGED <<time, used, limit, phase>>

Begin ==
    /\ phase = "idle"
    /\ phase' = "looping" /\ limit' = time
    /\ UNCHANGED <<time, pending, used>>

Fire ==
    /\ phase = "looping"
    /\ \E n \in pending :
        /\ n.expires <= limit
        /\ \A m \in pending : n.expires <= m.expires
        /\ pending' = pending \ {n}
    /\ phase' = "calling"
    /\ UNCHANGED <<time, used, limit>>

Return ==
    /\ phase = "calling"
    /\ phase' = "looping"
    /\ UNCHANGED <<time, pending, used, limit>>

End ==
    /\ phase = "looping"
    /\ \A n \in pending : n.expires > limit
    /\ phase' = "idle"
    /\ UNCHANGED <<time, pending, used, limit>>

Next == Pass \/ Add \/ Remove \/ Begin \/ Fire \/ Return \/ End

Spec == Init /\ [][Next]_vars
=============================================================================
