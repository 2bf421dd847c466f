------------------------------ MODULE PQTimer ------------------------------
(***************************************************************************)
(* The timer queue of the server's timer thread (timer/PQTimer.cpp): a     *)
(* binary heap of nodes ordered by deadline, each node knowing its place,  *)
(* and a map from ids to nodes.  timer_proc calls Update every 100 ms, and *)
(* a callback run by it schedules itself again, so the heap changes under  *)
(* the loop of Update.                                                     *)
(*                                                                         *)
(* Places count from 1 here and from 0 in the code.                        *)
(*                                                                         *)
(* LeftChild and DownOnly are mutated forms used by the tests of the       *)
(* properties only.                                                        *)
(***************************************************************************)
EXTENDS Naturals, Sequences, SequencesExt

CONSTANTS
    MaxTimers,  \* bound: calls of Schedule
    MaxUnits,   \* bound: how far ahead a timer is scheduled
    MaxClock    \* bound: the clock

ASSUME BoundsAssumption == MaxTimers \in Nat /\ MaxUnits \in Nat /\ MaxClock \in Nat \ {0}

VARIABLES
    clock,      \* Clock::CurrentTimeUnits()
    queue,      \* heap_, and the member index of every node
    ref,        \* the keys of ref_
    counter,    \* counter_
    now,        \* the argument of Update
    pc          \* outside Update, at the head of its loop, in a callback

vars == <<clock, queue, ref, counter, now, pc>>

Ids == 1..MaxTimers

Init ==
    /\ clock = 1
    /\ queue = [heap |-> <<>>, index |-> [i \in Ids |-> 0]]
    /\ ref = {} /\ counter = 0 /\ now = 0 /\ pc = "idle"

-----------------------------------------------------------------------------
(* The heap *)

Less(q, i, j) == q.heap[i].expires < q.heap[j].expires

Swap(q, i, j) ==
    [q EXCEPT !.heap[i] = q.heap[j], !.heap[j] = q.heap[i],
              !.index[q.heap[j].id] = i, !.index[q.heap[i].id] = j]

\* The smaller child of place i in the first n places; the right one if equal.
LeftChild(q, i, n) == 2 * i
Child(q, i, n) == IF 2 * i + 1 <= n /\ ~Less(q, 2 * i, 2 * i + 1) THEN 2 * i + 1 ELSE 2 * i

\* One round of the loop of siftdown, for the node at a place of the first n; of siftup.
Sink(s, n) ==
    LET child == Child(s.queue, s.place, n)
    IN  IF 2 * s.place <= n /\ Less(s.queue, child, s.place)
        THEN [queue |-> Swap(s.queue, s.place, child), place |-> child]
        ELSE s
Rise(s) ==
    LET parent == s.place \div 2
    IN  IF s.place > 1 /\ Less(s.queue, s.place, parent)
        THEN [queue |-> Swap(s.queue, parent, s.place), place |-> parent]
        ELSE s

\* Where the loops end: a node sinks at most n times and rises at most to the top.
SiftDown(q, place, n) ==
    LET round[k \in 0..n] ==
            IF k = 0 THEN [queue |-> q, place |-> place] ELSE Sink(round[k - 1], n)
    IN  round[n]
SiftUp(q, place) ==
    LET round[k \in 0..place] ==
            IF k = 0 THEN [queue |-> q, place |-> place] ELSE Rise(round[k - 1])
    IN  round[place].queue

\* Cancel(node): the last node takes its place and sinks, or else rises.
DownOnly(q, i, n) == SiftDown(q, i, n).queue
Restore(q, i, n) ==
    LET sunk == SiftDown(q, i, n) IN IF sunk.place > i THEN sunk.queue ELSE SiftUp(q, i)
Without(id) ==
    LET n == Len(queue.heap)
        i == queue.index[id]
        q == IF i = n THEN queue ELSE Restore(Swap(queue, i, n), i, n - 1)
    IN  [heap |-> Front(q.heap), index |-> [q.index EXCEPT ![id] = 0]]

-----------------------------------------------------------------------------
(* The operations: Schedule and Cancel are called by main() before the timer *)
(* thread runs and by the callbacks.                                        *)

Schedule(units) ==
    /\ pc # "loop"
    /\ counter < MaxTimers
    /\ counter' = counter + 1
    /\ LET node == [id |-> counter + 1, expires |-> clock + units]
           size == Len(queue.heap) + 1
       IN  queue' = SiftUp([heap |-> Append(queue.heap, node),
                            index |-> [queue.index EXCEPT ![node.id] = size]], size)
    /\ ref' = ref \cup {counter'}
    /\ UNCHANGED <<clock, now, pc>>

\* An id that has fired or was cancelled is not found.
Cancel(id) ==
    /\ pc # "loop"
    /\ id \in ref
    /\ queue' = Without(id)
    /\ ref' = ref \ {id}
    /\ UNCHANGED <<clock, counter, now, pc>>

\* Update returns at once if the heap is empty.
Update ==
    /\ pc = "idle"
    /\ queue.heap # <<>>
    /\ now' = clock
    /\ pc' = "loop"
    /\ UNCHANGED <<clock, queue, ref, counter>>

Fire ==
    /\ pc = "loop"
    /\ queue.heap # <<>>
    /\ now >= queue.heap[1].expires
    /\ queue' = Without(queue.heap[1].id)
    /\ ref' = ref \ {queue.heap[1].id}
    /\ pc' = "callback"
    /\ UNCHANGED <<clock, counter, now>>

Return ==
    /\ pc = "callback"
    /\ pc' = "loop"
    /\ UNCHANGED <<clock, queue, ref, counter, now>>

UpdateEnds ==
    /\ pc = "loop"
    /\ queue.heap # <<>> => now < queue.heap[1].expires
    /\ pc' = "idle"
    /\ UNCHANGED <<clock, queue, ref, counter, now>>

Tick ==
    /\ clock < MaxClock
    /\ clock' = clock + 1
    /\ UNCHANGED <<queue, ref, counter, now, pc>>

Next ==
    \/ \E units \in 0..MaxUnits : Schedule(units)
    \/ \E id \in Ids : Cancel(id)
    \/ Update \/ Fire \/ Return \/ UpdateEnds
    \/ Tick

Spec == Init /\ [][Next]_vars

-----------------------------------------------------------------------------
(* Properties *)

\* Type invariant, with what the operations rely on: every node knows its place
\* after all the moves of the others, ref_ has the nodes of the heap and no freed
\* one, and no node has an earlier deadline than its parent.
HeapOK ==
    LET heap == queue.heap IN
    /\ clock \in 1..MaxClock /\ now \in 0..clock /\ counter \in 0..MaxTimers
    /\ pc \in {"idle", "loop", "callback"}
    /\ heap \in Seq([id : Ids, expires : 1..(MaxClock + MaxUnits)])
    /\ queue.index \in [Ids -> 0..MaxTimers]
    /\ \A i \in DOMAIN heap : queue.index[heap[i].id] = i
    /\ ref = {heap[i].id : i \in DOMAIN heap}
    /\ \A i \in 2..Len(heap) : ~Less(queue, i, i \div 2)

\* The heap implements a set of deadlines of which Update fires all that are due,
\* the earliest first (TimerSet).
Timers == INSTANCE TimerSet WITH
    time <- clock,
    pending <- Range(queue.heap),
    used <- counter,
    limit <- now,
    phase <- [idle |-> "idle", loop |-> "looping", callback |-> "calling"][pc]
TimerSetSpec == Timers!Spec
=============================================================================
