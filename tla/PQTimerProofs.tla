--------------------------- MODULE PQTimerProofs ---------------------------
(***************************************************************************)
(* Proofs about PQTimer for every number of timers and every deadline: the *)
(* moves of siftdown and siftup end with a heap in which each node knows   *)
(* its place, and the heap implements TimerSet.                            *)
(***************************************************************************)
EXTENDS PQTimer, Integers, WellFoundedInduction, SequenceTheorems, TLAPS

-----------------------------------------------------------------------------
(* Induction over the natural numbers *)

\* A nonempty set of natural numbers has a least element.
LEMMA LeastNumber ==
    ASSUME NEW T \in SUBSET Nat, T # {}
    PROVE  \E x \in T : \A y \in T : x <= y
<1>1. PICK x \in T : \A y \in T : ~(<<y, x>> \in OpToRel(<, Nat))
  BY NatLessThanWellFounded, WFMin
<1>2. \A y \in T : ~(y < x)
  BY <1>1 DEF OpToRel
<1> QED BY <1>2

\* A set with 0 and the successor of each of its numbers has all of them.
LEMMA SetInduction ==
    ASSUME NEW T, 0 \in T, \A n \in Nat : n \in T => n + 1 \in T
    PROVE  Nat \subseteq T
<1> SUFFICES ASSUME Nat \ T # {} PROVE FALSE
  OBVIOUS
<1>1. PICK x \in Nat \ T : \A y \in Nat \ T : x <= y
  BY LeastNumber
<1>2. x - 1 \in Nat
  BY <1>1
<1> QED BY <1>1, <1>2

-----------------------------------------------------------------------------
(* The invariant *)

Nodes == [id : Ids, expires : 1..(MaxClock + MaxUnits)]
Queues == [heap : Seq(Nodes), index : [Ids -> 0..MaxTimers]]

\* A queue whose nodes know their places, in whatever order.
Good(q) ==
    /\ q \in Queues /\ Len(q.heap) <= MaxTimers
    /\ \A i \in 1..Len(q.heap) : q.index[q.heap[i].id] = i

\* The node at place i is not due before its parent.
InOrder(q, i) == q.heap[i \div 2].expires <= q.heap[i].expires

IInv ==
    /\ clock \in 1..MaxClock /\ now \in 0..clock /\ counter \in 0..MaxTimers
    /\ pc \in {"idle", "loop", "callback"}
    /\ Good(queue) /\ Len(queue.heap) <= counter
    /\ \A i \in 2..Len(queue.heap) : InOrder(queue, i)
    /\ \A m \in Range(queue.heap) : m.id <= counter
    /\ ref = {m.id : m \in Range(queue.heap)}

-----------------------------------------------------------------------------
(* Places and swaps *)

LEMMA Half ==
    ASSUME NEW i \in Nat
    PROVE  /\ i \div 2 \in Nat
           /\ i = 2 * (i \div 2) \/ i = 2 * (i \div 2) + 1
           /\ i > 1 => i \div 2 >= 1 /\ i \div 2 < i
OBVIOUS

LEMMA GoodIs ==
    ASSUME NEW q, Good(q)
    PROVE  /\ q.heap \in Seq(Nodes) /\ Len(q.heap) \in Nat /\ Len(q.heap) <= MaxTimers
           /\ \A i \in 1..Len(q.heap) :
                /\ q.heap[i] \in Nodes /\ q.heap[i].id \in Ids /\ q.heap[i].expires \in Nat
                /\ q.index[q.heap[i].id] = i
           /\ \A i, j \in 1..Len(q.heap) : q.heap[i].id = q.heap[j].id => i = j
<1>1. q.heap \in Seq(Nodes) /\ Len(q.heap) \in Nat
  BY DEF Good, Queues
<1>2. ASSUME NEW i \in 1..Len(q.heap)
      PROVE  q.heap[i] \in Nodes /\ q.heap[i].id \in Ids /\ q.heap[i].expires \in Nat
  <2>1. q.heap[i] \in Nodes
    BY <1>1, ElementOfSeq
  <2> QED BY <2>1, BoundsAssumption DEF Nodes
<1> QED BY <1>1, <1>2 DEF Good

\* Two nodes change their places and know it; no other node moves.
LEMMA SwapIs ==
    ASSUME NEW q, Good(q), NEW i \in 1..Len(q.heap), NEW j \in 1..Len(q.heap), i # j
    PROVE  /\ Good(Swap(q, i, j))
           /\ Len(Swap(q, i, j).heap) = Len(q.heap)
           /\ Swap(q, i, j).heap[i] = q.heap[j] /\ Swap(q, i, j).heap[j] = q.heap[i]
           /\ \A k \in 1..Len(q.heap) : k # i /\ k # j => Swap(q, i, j).heap[k] = q.heap[k]
           /\ Range(Swap(q, i, j).heap) = Range(q.heap)
<1> DEFINE p == Swap(q, i, j)
           heap == [[q.heap EXCEPT ![i] = q.heap[j]] EXCEPT ![j] = q.heap[i]]
           index == [[q.index EXCEPT ![q.heap[j].id] = i] EXCEPT ![q.heap[i].id] = j]
<1>1. q \in Queues /\ q.index \in [Ids -> 0..MaxTimers]
  BY DEF Good, Queues
<1>2. /\ q.heap \in Seq(Nodes) /\ Len(q.heap) \in Nat /\ Len(q.heap) <= MaxTimers
      /\ \A k \in 1..Len(q.heap) : q.heap[k] \in Nodes /\ q.heap[k].id \in Ids /\ q.index[q.heap[k].id] = k
      /\ \A k, m \in 1..Len(q.heap) : q.heap[k].id = q.heap[m].id => k = m
  BY GoodIs
<1>3. p = [heap |-> heap, index |-> index]
  <2>1. q = [heap |-> q.heap, index |-> q.index]
    BY <1>1 DEF Queues
  <2>2. \A h, x : [heap |-> h, index |-> x].heap = h /\ [heap |-> h, index |-> x].index = x
    OBVIOUS
  <2>3. \A h, x, a, b : [[heap |-> h, index |-> x] EXCEPT !.heap[a] = b]
                        = [heap |-> [h EXCEPT ![a] = b], index |-> x]
    OBVIOUS
  <2>4. \A h, x, a, b : [[heap |-> h, index |-> x] EXCEPT !.index[a] = b]
                        = [heap |-> h, index |-> [x EXCEPT ![a] = b]]
    OBVIOUS
  <2>5. p = [[[[q EXCEPT !.heap[i] = q.heap[j]] EXCEPT !.heap[j] = q.heap[i]]
                EXCEPT !.index[q.heap[j].id] = i] EXCEPT !.index[q.heap[i].id] = j]
    BY DEF Swap
  <2> QED BY <2>1, <2>3, <2>4, <2>5
<1>4. [q.heap EXCEPT ![i] = q.heap[j]] \in Seq(Nodes) /\ Len([q.heap EXCEPT ![i] = q.heap[j]]) = Len(q.heap)
  BY <1>2, ExceptSeq
<1>5. heap \in Seq(Nodes) /\ Len(heap) = Len(q.heap)
  BY <1>2, <1>4, ExceptSeq
<1>6. /\ DOMAIN q.heap = 1..Len(q.heap) /\ DOMAIN heap = 1..Len(q.heap)
      /\ \A k \in 1..Len(q.heap) : heap[k] = IF k = j THEN q.heap[i] ELSE IF k = i THEN q.heap[j] ELSE q.heap[k]
  BY <1>2, <1>4, <1>5, ExceptSeq, LenProperties
<1>7. i \in 0..MaxTimers /\ j \in 0..MaxTimers
  BY <1>2, BoundsAssumption
<1>8. /\ index \in [Ids -> 0..MaxTimers]
      /\ \A k \in Ids : index[k] = IF k = q.heap[i].id THEN j ELSE IF k = q.heap[j].id THEN i ELSE q.index[k]
  BY <1>1, <1>2, <1>7
<1> HIDE DEF heap, index
<1>9. ASSUME NEW k \in 1..Len(q.heap) PROVE index[heap[k].id] = k
  BY <1>2, <1>6, <1>8
<1>10. Good(p)
  BY <1>2, <1>3, <1>5, <1>8, <1>9 DEF Good, Queues
<1>11. Range(heap) = Range(q.heap)
  BY <1>6 DEF Range
<1> QED BY <1>3, <1>5, <1>6, <1>10, <1>11

-----------------------------------------------------------------------------
(* What is left to do when a node sinks or rises *)

\* Another arrangement of the first n places.
Rearranged(q, p, n) ==
    /\ Good(p) /\ Len(p.heap) = Len(q.heap) /\ Range(p.heap) = Range(q.heap)
    /\ \A k \in (n + 1)..Len(q.heap) : p.heap[k] = q.heap[k]

\* The children of a place are not due before its parent.
Bridged(q, i, n) ==
    i > 1 => \A k \in 2..n : k \div 2 = i => q.heap[i \div 2].expires <= q.heap[k].expires

\* The first n places are a heap but for the node at place i, that has sunk from x.
Sinking(q, i, x, n) ==
    /\ Bridged(q, i, n)
    /\ \A k \in 2..n : k \div 2 # i /\ (k = i => i # x) => InOrder(q, k)

\* They are but for the node at place i, that rises.
Rising(q, i, n) ==
    /\ Bridged(q, i, n)
    /\ \A k \in 2..n : k # i => InOrder(q, k)

LEMMA RearrangedSwap ==
    ASSUME NEW q, NEW p, NEW n \in Nat, n <= Len(q.heap), Rearranged(q, p, n), Good(q),
           NEW i \in 1..n, NEW j \in 1..n, i # j
    PROVE  Rearranged(q, Swap(p, i, j), n)
<1>1. Len(q.heap) \in Nat /\ i \in 1..Len(p.heap) /\ j \in 1..Len(p.heap)
  BY GoodIs DEF Rearranged
<1> QED BY <1>1, SwapIs DEF Rearranged

\* The child the node would change places with is the one due first.
LEMMA ChildIs ==
    ASSUME NEW q, Good(q), NEW n \in Nat, n <= Len(q.heap), NEW i \in 1..n, 2 * i <= n
    PROVE  /\ Child(q, i, n) \in 1..n /\ Child(q, i, n) \div 2 = i /\ Child(q, i, n) > i
           /\ \A k \in 2..n : k \div 2 = i => q.heap[Child(q, i, n)].expires <= q.heap[k].expires
<1>1. \A k \in 1..n : q.heap[k].expires \in Nat
  BY GoodIs
<1>2. \A k \in 2..n : k \div 2 = i => k = 2 * i \/ k = 2 * i + 1
  BY Half
<1>3. (2 * i) \div 2 = i /\ (2 * i + 1) \div 2 = i
  OBVIOUS
<1>4. CASE 2 * i + 1 <= n /\ ~Less(q, 2 * i, 2 * i + 1)
  <2>1. Child(q, i, n) = 2 * i + 1
    BY <1>4 DEF Child
  <2>2. 2 * i \in 1..n /\ 2 * i + 1 \in 1..n
    BY <1>4
  <2>3. /\ q.heap[2 * i + 1].expires <= q.heap[2 * i].expires
        /\ q.heap[2 * i + 1].expires <= q.heap[2 * i + 1].expires
    BY <1>1, <1>4, <2>2 DEF Less
  <2>4. \A k \in 2..n : k \div 2 = i => q.heap[2 * i + 1].expires <= q.heap[k].expires
    BY <1>2, <2>3
  <2> QED BY <1>3, <2>1, <2>2, <2>4
<1>5. CASE ~(2 * i + 1 <= n /\ ~Less(q, 2 * i, 2 * i + 1))
  <2>1. Child(q, i, n) = 2 * i
    BY <1>5 DEF Child
  <2>2. 2 * i \in 1..n
    OBVIOUS
  <2>3. 2 * i + 1 <= n => q.heap[2 * i].expires <= q.heap[2 * i + 1].expires
    BY <1>1, <1>5, <2>2 DEF Less
  <2>4. q.heap[2 * i].expires <= q.heap[2 * i].expires
    BY <1>1, <2>2
  <2>5. \A k \in 2..n : k \div 2 = i => q.heap[2 * i].expires <= q.heap[k].expires
    BY <1>2, <2>3, <2>4
  <2> QED BY <1>3, <2>1, <2>2, <2>5
<1> QED BY <1>4, <1>5

\* One exchange of a node that sinks.
LEMMA SinkingStep ==
    ASSUME NEW q, Good(q), NEW n \in Nat, n <= Len(q.heap), NEW x \in 1..n, NEW i \in x..n,
           Sinking(q, i, x, n), 2 * i <= n, Less(q, Child(q, i, n), i)
    PROVE  Sinking(Swap(q, i, Child(q, i, n)), Child(q, i, n), x, n)
<1> DEFINE j == Child(q, i, n)
           p == Swap(q, i, j)
<1>0. i \in 1..n /\ Len(q.heap) \in Nat
  BY GoodIs
<1>1. /\ j \in 1..n /\ j \div 2 = i /\ j > i
      /\ \A k \in 2..n : k \div 2 = i => q.heap[j].expires <= q.heap[k].expires
  BY <1>0, ChildIs
<1>2. /\ p.heap[i] = q.heap[j] /\ p.heap[j] = q.heap[i]
      /\ \A k \in 1..n : k # i /\ k # j => p.heap[k] = q.heap[k]
  <2> HIDE DEF j
  <2>1. i \in 1..Len(q.heap) /\ j \in 1..Len(q.heap) /\ i # j /\ 1..n \subseteq 1..Len(q.heap)
    BY <1>0, <1>1
  <2>2. /\ p.heap[i] = q.heap[j] /\ p.heap[j] = q.heap[i]
        /\ \A k \in 1..Len(q.heap) : k # i /\ k # j => p.heap[k] = q.heap[k]
    BY <2>1, SwapIs
  <2> QED BY <2>1, <2>2
<1>3. \A k \in 1..n : q.heap[k].expires \in Nat
  BY GoodIs
<1>4. q.heap[j].expires <= q.heap[i].expires
  BY <1>0, <1>1, <1>3 DEF Less
<1> HIDE DEF j, p
<1>5. ASSUME NEW k \in 2..n, k \div 2 # j PROVE InOrder(p, k)
  <2>1. k \div 2 \in 1..n /\ k \div 2 # k
    BY Half
  <2>2. CASE k = j
    BY <1>1, <1>2, <1>4, <2>2 DEF InOrder
  <2>3. CASE k = i
    <3>1. i > 1 /\ q.heap[i \div 2].expires <= q.heap[j].expires
      BY <1>1, <2>3 DEF Sinking, Bridged
    <3>2. i \div 2 # i /\ i \div 2 # j
      BY <1>5, <2>1, <2>3
    <3> QED BY <1>2, <2>1, <2>3, <3>1, <3>2 DEF InOrder
  <2>4. CASE k # j /\ k # i /\ k \div 2 = i
    <3>1. p.heap[k] = q.heap[k] /\ q.heap[j].expires <= q.heap[k].expires
      BY <1>1, <1>2, <2>4
    <3> QED BY <1>2, <2>4, <3>1 DEF InOrder
  <2>5. CASE k # j /\ k # i /\ k \div 2 # i
    <3>1. InOrder(q, k)
      BY <2>5 DEF Sinking
    <3> QED BY <1>2, <1>5, <2>1, <2>5, <3>1 DEF InOrder
  <2> QED BY <2>2, <2>3, <2>4, <2>5
<1>6. Bridged(p, j, n)
  <2> SUFFICES ASSUME NEW k \in 2..n, k \div 2 = j PROVE p.heap[j \div 2].expires <= p.heap[k].expires
    BY DEF Bridged
  <2>1. k # j /\ k # i
    BY <1>1, Half
  <2>2. InOrder(q, k)
    BY <1>1, <2>1 DEF Sinking
  <2> QED BY <1>1, <1>2, <2>1, <2>2 DEF InOrder
<1> QED BY <1>5, <1>6 DEF Sinking, j, p

\* One exchange of a node that rises.
LEMMA RisingStep ==
    ASSUME NEW q, Good(q), NEW n \in Nat, n <= Len(q.heap), NEW i \in 2..n,
           Rising(q, i, n), Less(q, i, i \div 2)
    PROVE  Rising(Swap(q, i \div 2, i), i \div 2, n)
<1> DEFINE r == i \div 2
           p == Swap(q, r, i)
<1>0. Len(q.heap) \in Nat
  BY GoodIs
<1>1. r \in 1..n /\ r < i
  BY Half
<1>2. /\ p.heap[r] = q.heap[i] /\ p.heap[i] = q.heap[r]
      /\ \A k \in 1..n : k # r /\ k # i => p.heap[k] = q.heap[k]
  BY <1>0, <1>1, SwapIs
<1>3. \A k \in 1..n : q.heap[k].expires \in Nat
  BY GoodIs
<1>4. q.heap[i].expires <= q.heap[r].expires
  BY <1>1, <1>3 DEF Less
<1>4a. \A k \in 2..n : k # i => q.heap[k \div 2].expires <= q.heap[k].expires
  BY DEF Rising, InOrder
<1>4b. \A k \in 2..n : k \div 2 = i => q.heap[r].expires <= q.heap[k].expires
  BY DEF Rising, Bridged, r
<1>4c. \A k \in 2..n : k \div 2 \in 1..n /\ k \div 2 < k
  BY Half
<1>4d. i \div 2 = r
  OBVIOUS
<1> HIDE DEF p, r
<1>5. ASSUME NEW k \in 2..n, k # r PROVE InOrder(p, k)
  <2>1. CASE k = i
    BY <1>2, <1>4, <1>4d, <2>1 DEF InOrder
  <2>2. CASE k # i /\ k \div 2 = i
    BY <1>2, <1>4b, <1>5, <2>2 DEF InOrder
  <2>3. CASE k # i /\ k \div 2 = r
    <3>1. q.heap[r].expires <= q.heap[k].expires
      BY <1>4a, <2>3
    <3>2. q.heap[i].expires <= q.heap[k].expires
      BY <1>1, <1>3, <1>4, <3>1
    <3> QED BY <1>2, <1>5, <2>3, <3>2 DEF InOrder
  <2>4. CASE k # i /\ k \div 2 # i /\ k \div 2 # r
    BY <1>2, <1>4a, <1>4c, <1>5, <2>4 DEF InOrder
  <2> QED BY <2>1, <2>2, <2>3, <2>4
<1>6. Bridged(p, r, n)
  <2> SUFFICES ASSUME r > 1, NEW k \in 2..n, k \div 2 = r
               PROVE  p.heap[r \div 2].expires <= p.heap[k].expires
    BY DEF Bridged
  <2>1. r \div 2 \in 1..n /\ r \div 2 # r /\ r \div 2 # i /\ k # r
    BY <1>1, <1>4c
  <2>2. q.heap[r \div 2].expires <= q.heap[r].expires
    BY <1>1, <1>4a
  <2>3. q.heap[r].expires <= p.heap[k].expires
    <3>1. CASE k = i
      <4>1. p.heap[k] = q.heap[r] /\ q.heap[r].expires \in Nat
        BY <1>1, <1>2, <1>3, <3>1
      <4> QED BY <4>1
    <3>2. CASE k # i
      <4>1. p.heap[k] = q.heap[k] /\ q.heap[k \div 2].expires <= q.heap[k].expires
        BY <1>2, <1>4a, <2>1, <3>2
      <4> QED BY <4>1
    <3> QED BY <3>1, <3>2
  <2>4. q.heap[r].expires \in Nat /\ p.heap[k].expires \in Nat /\ q.heap[r \div 2].expires \in Nat
    <3>1. k \in 1..n /\ (p.heap[k] = q.heap[r] \/ p.heap[k] = q.heap[k])
      BY <1>2, <2>1
    <3> QED BY <1>1, <1>3, <2>1, <3>1
  <2>5. p.heap[r \div 2] = q.heap[r \div 2]
    BY <1>2, <2>1
  <2> QED BY <2>2, <2>3, <2>4, <2>5
<1> QED BY <1>5, <1>6 DEF Rising, r, p

-----------------------------------------------------------------------------
(* The loops *)

\* g is what b becomes in N rounds of F.
IsRounds(N, b, F, g) == \A k \in 0..N : g[k] = IF k = 0 THEN b ELSE F[g[k - 1]]

\* A step that stays in W can be repeated.
LEMMA RoundsExist ==
    ASSUME NEW W, NEW b \in W, NEW F \in [W -> W], NEW N \in Nat
    PROVE  \E g \in [0..N -> W] : IsRounds(N, b, F, g)
<1> DEFINE good(g, m) == \A k \in 0..m : g[k] = IF k = 0 THEN b ELSE F[g[k - 1]]
           T == {m \in Nat : \E g \in [0..m -> W] : good(g, m)}
<1>1. 0 \in T
  <2>1. [k \in 0..0 |-> b] \in [0..0 -> W] /\ good([k \in 0..0 |-> b], 0)
    OBVIOUS
  <2> QED BY <2>1
<1>2. \A m \in Nat : m \in T => m + 1 \in T
  <2> SUFFICES ASSUME NEW m \in Nat, m \in T PROVE m + 1 \in T
    OBVIOUS
  <2>1. PICK g \in [0..m -> W] : good(g, m)
    OBVIOUS
  <2> DEFINE h == [k \in 0..(m + 1) |-> IF k = m + 1 THEN F[g[m]] ELSE g[k]]
  <2>2. h \in [0..(m + 1) -> W]
    OBVIOUS
  <2>3. ASSUME NEW k \in 0..(m + 1) PROVE h[k] = IF k = 0 THEN b ELSE F[h[k - 1]]
    <3>1. CASE k = m + 1
      BY <3>1
    <3>2. CASE k \in 0..m
      BY <2>1, <3>2
    <3> QED BY <3>1, <3>2
  <2> HIDE DEF h
  <2>4. good(h, m + 1)
    BY <2>3
  <2> HIDE DEF good
  <2> QED BY <2>2, <2>4
<1>3. N \in T
  <2> HIDE DEF T
  <2> QED BY <1>1, <1>2, SetInduction
<1> QED BY <1>3 DEF IsRounds

\* What a node that sinks from x in q goes through.
Sinks(q, x, n) ==
    {s \in [queue : Queues, place : x..n] :
        /\ Rearranged(q, s.queue, n) /\ Sinking(s.queue, s.place, x, n)
        /\ s.place = x => s.queue = q}
SinkEnds(s, n) == ~(2 * s.place <= n /\ Less(s.queue, Child(s.queue, s.place, n), s.place))

LEMMA SinkKeeps ==
    ASSUME NEW q, Good(q), NEW n \in Nat, n <= Len(q.heap), NEW x \in 1..n, NEW s \in Sinks(q, x, n)
    PROVE  /\ Sink(s, n) \in Sinks(q, x, n)
           /\ SinkEnds(s, n) => Sink(s, n) = s
           /\ ~SinkEnds(s, n) => Sink(s, n).place > s.place
<1> DEFINE p == s.queue
           i == s.place
           j == Child(p, i, n)
<1>1. /\ p \in Queues /\ i \in x..n /\ i \in 1..n /\ Rearranged(q, p, n) /\ Sinking(p, i, x, n)
  BY DEF Sinks
<1>2. Good(p) /\ n <= Len(p.heap)
  BY <1>1 DEF Rearranged
<1>3. CASE SinkEnds(s, n)
  <2>1. Sink(s, n) = s
    BY <1>3 DEF SinkEnds, Sink
  <2> QED BY <1>3, <2>1
<1>4. CASE ~SinkEnds(s, n)
  <2>1. 2 * i <= n /\ Less(p, j, i)
    BY <1>4 DEF SinkEnds
  <2>2. Sink(s, n) = [queue |-> Swap(p, i, j), place |-> j]
    BY <2>1 DEF Sink
  <2>3. j \in 1..n /\ j > i
    BY <1>1, <1>2, <2>1, ChildIs
  <2>4. Sinking(Swap(p, i, j), j, x, n)
    BY <1>1, <1>2, <2>1, SinkingStep
  <2>5. Rearranged(q, Swap(p, i, j), n)
    <3> HIDE DEF p, i, j
    <3> QED BY <1>1, <2>3, RearrangedSwap
  <2>6. Swap(p, i, j) \in Queues
    BY <2>5 DEF Rearranged, Good
  <2>7. j \in x..n /\ j # x
    BY <1>1, <2>3
  <2> HIDE DEF j, p, i
  <2>8. [queue |-> Swap(p, i, j), place |-> j] \in Sinks(q, x, n)
    BY <2>4, <2>5, <2>6, <2>7 DEF Sinks
  <2>9. Sink(s, n).place > i
    BY <2>2, <2>3
  <2> QED BY <1>4, <2>2, <2>8, <2>9 DEF i
<1> QED BY <1>3, <1>4

SinkRounds(q, x, n, g) ==
    g = [k \in 0..n |-> IF k = 0 THEN [queue |-> q, place |-> x] ELSE Sink(g[k - 1], n)]

LEMMA SiftDownChosen ==
    ASSUME NEW q, NEW x, NEW n
    PROVE  SiftDown(q, x, n) = (CHOOSE g : SinkRounds(q, x, n, g))[n]
BY DEF SiftDown, SinkRounds

\* siftdown ends where no child is due before the node.
LEMMA SiftDownIs ==
    ASSUME NEW q, Good(q), NEW n \in Nat, n <= Len(q.heap), NEW x \in 1..n, Sinking(q, x, x, n)
    PROVE  SiftDown(q, x, n) \in Sinks(q, x, n) /\ SinkEnds(SiftDown(q, x, n), n)
<1> DEFINE W == Sinks(q, x, n)
           b == [queue |-> q, place |-> x]
           F == [s \in W |-> Sink(s, n)]
<1>1. b \in W
  BY DEF Sinks, Rearranged, Good
<1>2. \A s \in W : /\ Sink(s, n) \in W /\ s.place \in x..n
                   /\ SinkEnds(s, n) => Sink(s, n) = s
                   /\ ~SinkEnds(s, n) => Sink(s, n).place > s.place
  BY SinkKeeps DEF Sinks
<1>3. b.place = x
  OBVIOUS
<1> HIDE DEF W, b
<1>4. F \in [W -> W] /\ \A s \in W : F[s] = Sink(s, n)
  BY <1>2
<1> HIDE DEF F
<1>5. PICK g0 \in [0..n -> W] : IsRounds(n, b, F, g0)
  BY <1>1, <1>4, RoundsExist
<1>6. SinkRounds(q, x, n, g0)
  <2>1. ASSUME NEW k \in 0..n PROVE g0[k] = IF k = 0 THEN b ELSE Sink(g0[k - 1], n)
    <3>1. CASE k = 0
      BY <1>5, <3>1 DEF IsRounds
    <3>2. CASE k # 0
      <4>1. k - 1 \in 0..n /\ g0[k - 1] \in W
        BY <3>2
      <4> QED BY <1>4, <1>5, <3>2, <4>1 DEF IsRounds
    <3> QED BY <3>1, <3>2
  <2>2. g0 = [k \in 0..n |-> IF k = 0 THEN b ELSE Sink(g0[k - 1], n)]
    BY <2>1
  <2> QED BY <2>2 DEF SinkRounds, b
<1> DEFINE g == CHOOSE h : SinkRounds(q, x, n, h)
<1>7. SinkRounds(q, x, n, g)
  BY <1>6
<1> HIDE DEF g
<1>8. \A k \in 0..n : g[k] = IF k = 0 THEN b ELSE Sink(g[k - 1], n)
  BY <1>7 DEF SinkRounds, b
<1> DEFINE T == {k \in Nat : k <= n => g[k] \in W /\ (SinkEnds(g[k], n) \/ g[k].place >= x + k)}
<1>9. 0 \in T
  BY <1>1, <1>3, <1>8
<1>10. \A k \in Nat : k \in T => k + 1 \in T
  <2> SUFFICES ASSUME NEW k \in Nat, k \in T, k + 1 <= n PROVE k + 1 \in T
    OBVIOUS
  <2>1. g[k] \in W /\ (SinkEnds(g[k], n) \/ g[k].place >= x + k) /\ g[k].place \in x..n
    BY <1>2
  <2>2. g[k + 1] = Sink(g[k], n)
    <3>1. k + 1 \in 0..n /\ k + 1 # 0 /\ (k + 1) - 1 = k
      OBVIOUS
    <3> QED BY <1>8, <3>1
  <2>3. g[k + 1] \in W /\ g[k + 1].place \in x..n
    BY <1>2, <2>1, <2>2
  <2>4. CASE SinkEnds(g[k], n)
    BY <1>2, <2>1, <2>2, <2>4
  <2>5. CASE ~SinkEnds(g[k], n)
    <3>1. g[k + 1].place > g[k].place /\ g[k].place >= x + k
      BY <1>2, <2>1, <2>2, <2>5
    <3>2. g[k + 1].place >= x + (k + 1)
      BY <2>1, <2>3, <3>1
    <3> QED BY <2>3, <3>2
  <2> QED BY <2>4, <2>5
<1>11. n \in T
  <2> HIDE DEF T
  <2> QED BY <1>9, <1>10, SetInduction
<1>12. g[n] \in W /\ (SinkEnds(g[n], n) \/ g[n].place >= x + n) /\ g[n].place \in x..n
  BY <1>2, <1>11
<1>13. g[n] \in W /\ SinkEnds(g[n], n)
  BY <1>12
<1>14. SiftDown(q, x, n) = g[n]
  BY SiftDownChosen DEF g
<1> QED BY <1>13, <1>14 DEF W

\* Where a node stops sinking none of its children is due before it.
LEMMA SinkEndsInOrder ==
    ASSUME NEW s, Good(s.queue), NEW n \in Nat, n <= Len(s.queue.heap), s.place \in 1..n, SinkEnds(s, n)
    PROVE  \A k \in 2..n : k \div 2 = s.place => InOrder(s.queue, k)
<1> DEFINE p == s.queue
           i == s.place
           j == Child(p, i, n)
<1> SUFFICES ASSUME NEW k \in 2..n, k \div 2 = i PROVE p.heap[i].expires <= p.heap[k].expires
  BY DEF InOrder
<1>1. 2 * i <= n
  BY Half
<1>2. j \in 1..n /\ p.heap[j].expires <= p.heap[k].expires
  BY <1>1, ChildIs
<1>3. ~Less(p, j, i)
  BY <1>1 DEF SinkEnds
<1>4. \A m \in 1..n : p.heap[m].expires \in Nat
  BY GoodIs
<1>5. i \in 1..n
  OBVIOUS
<1> HIDE DEF j, p, i
<1>6. p.heap[i].expires <= p.heap[j].expires
  BY <1>2, <1>3, <1>4, <1>5 DEF Less
<1>7. p.heap[i].expires \in Nat /\ p.heap[j].expires \in Nat /\ p.heap[k].expires \in Nat
  BY <1>2, <1>4, <1>5
<1> QED BY <1>2, <1>6, <1>7

\* What a node that rises from x in q goes through.
Rises(q, x, n) ==
    {s \in [queue : Queues, place : 1..x] :
        Rearranged(q, s.queue, n) /\ Rising(s.queue, s.place, n)}
RiseEnds(s) == ~(s.place > 1 /\ Less(s.queue, s.place, s.place \div 2))

LEMMA RiseKeeps ==
    ASSUME NEW q, Good(q), NEW n \in Nat, n <= Len(q.heap), NEW x \in 1..n, NEW s \in Rises(q, x, n)
    PROVE  /\ Rise(s) \in Rises(q, x, n)
           /\ RiseEnds(s) => Rise(s) = s
           /\ ~RiseEnds(s) => Rise(s).place < s.place
<1> DEFINE p == s.queue
           i == s.place
           r == i \div 2
<1>1. /\ p \in Queues /\ i \in 1..x /\ i \in 1..n /\ Rearranged(q, p, n) /\ Rising(p, i, n)
  BY DEF Rises
<1>2. Good(p) /\ n <= Len(p.heap)
  BY <1>1 DEF Rearranged
<1>3. CASE RiseEnds(s)
  <2>1. Rise(s) = s
    BY <1>3 DEF RiseEnds, Rise
  <2> QED BY <1>3, <2>1
<1>4. CASE ~RiseEnds(s)
  <2>1. i \in 2..n /\ Less(p, i, r)
    BY <1>1, <1>4 DEF RiseEnds
  <2>2. Rise(s) = [queue |-> Swap(p, r, i), place |-> r]
    BY <1>4 DEF Rise, RiseEnds
  <2>3. r \in 1..n /\ r < i
    BY <2>1, Half
  <2>4. Rising(Swap(p, r, i), r, n)
    BY <1>1, <1>2, <2>1, RisingStep
  <2>5. Rearranged(q, Swap(p, r, i), n)
    <3> HIDE DEF p, i, r
    <3> QED BY <1>1, <2>3, RearrangedSwap
  <2>6. Swap(p, r, i) \in Queues
    BY <2>5 DEF Rearranged, Good
  <2>7. r \in 1..x
    BY <1>1, <2>3
  <2> HIDE DEF r, p, i
  <2>8. [queue |-> Swap(p, r, i), place |-> r] \in Rises(q, x, n)
    BY <2>4, <2>5, <2>6, <2>7 DEF Rises
  <2>9. Rise(s).place < i
    BY <2>2, <2>3
  <2> QED BY <1>4, <2>2, <2>8, <2>9 DEF i
<1> QED BY <1>3, <1>4

RiseRounds(q, x, g) ==
    g = [k \in 0..x |-> IF k = 0 THEN [queue |-> q, place |-> x] ELSE Rise(g[k - 1])]

LEMMA SiftUpChosen ==
    ASSUME NEW q, NEW x
    PROVE  SiftUp(q, x) = (CHOOSE g : RiseRounds(q, x, g))[x].queue
BY DEF SiftUp, RiseRounds

\* siftup makes the places a heap.
LEMMA SiftUpIs ==
    ASSUME NEW q, Good(q), NEW n \in Nat, n <= Len(q.heap), NEW x \in 1..n, Rising(q, x, n)
    PROVE  /\ Rearranged(q, SiftUp(q, x), n)
           /\ \A k \in 2..n : InOrder(SiftUp(q, x), k)
<1> DEFINE W == Rises(q, x, n)
           b == [queue |-> q, place |-> x]
           F == [s \in W |-> Rise(s)]
<1>1. b \in W
  BY DEF Rises, Rearranged, Good
<1>2. \A s \in W : /\ Rise(s) \in W /\ s.place \in 1..x
                   /\ RiseEnds(s) => Rise(s) = s
                   /\ ~RiseEnds(s) => Rise(s).place < s.place
  BY RiseKeeps DEF Rises
<1>3. b.place = x
  OBVIOUS
<1>3a. \A s \in W : RiseEnds(s) =>
           /\ Rearranged(q, s.queue, n)
           /\ \A k \in 2..n : InOrder(s.queue, k)
  <2> SUFFICES ASSUME NEW s \in W, RiseEnds(s)
               PROVE  Rearranged(q, s.queue, n) /\ \A k \in 2..n : InOrder(s.queue, k)
    OBVIOUS
  <2>1. /\ Rearranged(q, s.queue, n) /\ s.place \in 1..n
        /\ \A k \in 2..n : k # s.place => InOrder(s.queue, k)
    BY DEF Rises, Rising
  <2>2. s.place > 1 => InOrder(s.queue, s.place)
    <3> SUFFICES ASSUME s.place > 1 PROVE InOrder(s.queue, s.place)
      OBVIOUS
    <3>1. s.place \div 2 \in 1..n
      BY <2>1, Half
    <3>2. s.queue.heap[s.place].expires \in Nat /\ s.queue.heap[s.place \div 2].expires \in Nat
      <4>1. Good(s.queue) /\ 1..n \subseteq 1..Len(s.queue.heap)
        BY <2>1, GoodIs DEF Rearranged
      <4> QED BY <2>1, <3>1, <4>1, GoodIs
    <3> QED BY <3>2 DEF RiseEnds, Less, InOrder
  <2> QED BY <2>1, <2>2
<1> HIDE DEF W, b
<1>4. F \in [W -> W] /\ \A s \in W : F[s] = Rise(s)
  BY <1>2
<1> HIDE DEF F
<1>5. PICK g0 \in [0..x -> W] : IsRounds(x, b, F, g0)
  BY <1>1, <1>4, RoundsExist
<1>6. RiseRounds(q, x, g0)
  <2>1. ASSUME NEW k \in 0..x PROVE g0[k] = IF k = 0 THEN b ELSE Rise(g0[k - 1])
    <3>1. CASE k = 0
      BY <1>5, <3>1 DEF IsRounds
    <3>2. CASE k # 0
      <4>1. k - 1 \in 0..x /\ g0[k - 1] \in W
        BY <3>2
      <4> QED BY <1>4, <1>5, <3>2, <4>1 DEF IsRounds
    <3> QED BY <3>1, <3>2
  <2>2. g0 = [k \in 0..x |-> IF k = 0 THEN b ELSE Rise(g0[k - 1])]
    BY <2>1
  <2> QED BY <2>2 DEF RiseRounds, b
<1> DEFINE g == CHOOSE h : RiseRounds(q, x, h)
<1>7. RiseRounds(q, x, g)
  BY <1>6
<1> HIDE DEF g
<1>8. \A k \in 0..x : g[k] = IF k = 0 THEN b ELSE Rise(g[k - 1])
  BY <1>7 DEF RiseRounds, b
<1> DEFINE T == {k \in Nat : k <= x => g[k] \in W /\ (RiseEnds(g[k]) \/ g[k].place + k <= x)}
<1>9. 0 \in T
  BY <1>1, <1>3, <1>8
<1>10. \A k \in Nat : k \in T => k + 1 \in T
  <2> SUFFICES ASSUME NEW k \in Nat, k \in T, k + 1 <= x PROVE k + 1 \in T
    OBVIOUS
  <2>1. g[k] \in W /\ (RiseEnds(g[k]) \/ g[k].place + k <= x) /\ g[k].place \in 1..x
    BY <1>2
  <2>2. g[k + 1] = Rise(g[k])
    <3>1. k + 1 \in 0..x /\ k + 1 # 0 /\ (k + 1) - 1 = k
      OBVIOUS
    <3> QED BY <1>8, <3>1
  <2>3. g[k + 1] \in W /\ g[k + 1].place \in 1..x
    BY <1>2, <2>1, <2>2
  <2>4. CASE RiseEnds(g[k])
    BY <1>2, <2>1, <2>2, <2>4
  <2>5. CASE ~RiseEnds(g[k])
    <3>1. g[k + 1].place < g[k].place /\ g[k].place + k <= x
      BY <1>2, <2>1, <2>2, <2>5
    <3>2. g[k + 1].place + (k + 1) <= x
      BY <2>1, <2>3, <3>1
    <3> QED BY <2>3, <3>2
  <2> QED BY <2>4, <2>5
<1>11. x \in T
  <2> HIDE DEF T
  <2> QED BY <1>9, <1>10, SetInduction
<1>12. g[x] \in W /\ (RiseEnds(g[x]) \/ g[x].place + x <= x) /\ g[x].place \in 1..x
  BY <1>2, <1>11
<1>13. g[x] \in W /\ RiseEnds(g[x])
  BY <1>12
<1>14. SiftUp(q, x) = g[x].queue
  BY SiftUpChosen DEF g
<1> QED BY <1>3a, <1>13, <1>14

\* After Cancel has moved the last node to place x, one of the loops restores the heap.
LEMMA RestoreIs ==
    ASSUME NEW q, Good(q), NEW n \in Nat, n <= Len(q.heap), NEW x \in 1..n, Sinking(q, x, x, n)
    PROVE  /\ Rearranged(q, Restore(q, x, n), n)
           /\ \A k \in 2..n : InOrder(Restore(q, x, n), k)
<1> DEFINE s == SiftDown(q, x, n)
<1>1. s \in Sinks(q, x, n) /\ SinkEnds(s, n)
  BY SiftDownIs
<1>2. /\ s.place \in x..n /\ Rearranged(q, s.queue, n) /\ Sinking(s.queue, s.place, x, n)
      /\ s.place = x => s.queue = q
  BY <1>1 DEF Sinks
<1>3. Good(s.queue) /\ n <= Len(s.queue.heap) /\ s.place \in 1..n
  BY <1>2 DEF Rearranged
<1>4. \A k \in 2..n : k \div 2 = s.place => InOrder(s.queue, k)
  BY <1>1, <1>3, SinkEndsInOrder
<1>4a. Restore(q, x, n) = IF s.place > x THEN s.queue ELSE SiftUp(q, x)
  BY DEF Restore
<1> HIDE DEF s
<1>5. CASE s.place > x
  <2>1. \A k \in 2..n : InOrder(s.queue, k)
    BY <1>2, <1>4, <1>5 DEF Sinking
  <2> QED BY <1>2, <1>4a, <1>5, <2>1
<1>6. CASE s.place = x
  <2>1. Rising(q, x, n)
    BY <1>2, <1>4, <1>6 DEF Sinking, Rising
  <2> QED BY <1>4a, <1>6, <2>1, SiftUpIs
<1> QED BY <1>2, <1>5, <1>6

-----------------------------------------------------------------------------
(* The operations *)

\* push_back of a new node.
LEMMA PushIs ==
    ASSUME NEW q, Good(q), Len(q.heap) < MaxTimers, NEW node \in Nodes,
           \A i \in 1..Len(q.heap) : q.heap[i].id # node.id
    PROVE  LET p == [heap |-> Append(q.heap, node),
                     index |-> [q.index EXCEPT ![node.id] = Len(q.heap) + 1]]
           IN  /\ Good(p) /\ Len(p.heap) = Len(q.heap) + 1
               /\ \A k \in 1..Len(q.heap) : p.heap[k] = q.heap[k]
               /\ p.heap[Len(q.heap) + 1] = node
               /\ Range(p.heap) = Range(q.heap) \cup {node}
<1> DEFINE size == Len(q.heap) + 1
           heap == Append(q.heap, node)
           index == [q.index EXCEPT ![node.id] = size]
<1>1. /\ q.heap \in Seq(Nodes) /\ Len(q.heap) \in Nat /\ node.id \in Ids
      /\ \A k \in 1..Len(q.heap) : q.heap[k].id \in Ids /\ q.index[q.heap[k].id] = k
      /\ DOMAIN q.heap = 1..Len(q.heap)
  BY GoodIs, LenProperties DEF Nodes
<1>2. /\ heap \in Seq(Nodes) /\ Len(heap) = size /\ heap[size] = node
      /\ \A k \in 1..Len(q.heap) : heap[k] = q.heap[k]
      /\ DOMAIN heap = 1..size
  BY <1>1, AppendProperties, LenProperties
<1>3. size \in 0..MaxTimers /\ q.index \in [Ids -> 0..MaxTimers]
  BY <1>1, BoundsAssumption DEF Good, Queues
<1>4. /\ index \in [Ids -> 0..MaxTimers]
      /\ \A k \in Ids : index[k] = IF k = node.id THEN size ELSE q.index[k]
  BY <1>1, <1>3
<1> HIDE DEF heap, index
<1>5. ASSUME NEW k \in 1..size PROVE index[heap[k].id] = k
  <2>1. CASE k = size
    BY <1>1, <1>2, <1>4, <2>1
  <2>2. CASE k \in 1..Len(q.heap)
    BY <1>1, <1>2, <1>4, <2>2
  <2> QED BY <1>1, <2>1, <2>2
<1>6. Good([heap |-> heap, index |-> index])
  BY <1>2, <1>3, <1>4, <1>5 DEF Good, Queues
<1>7. Range(heap) = Range(q.heap) \cup {node}
  <2>1. 1..size = (1..Len(q.heap)) \cup {size}
    BY <1>1
  <2> QED BY <1>1, <1>2, <2>1 DEF Range
<1> QED BY <1>2, <1>6, <1>7 DEF heap, index

\* pop_back of the last node.
LEMMA PopIs ==
    ASSUME NEW q, Good(q), q.heap # <<>>
    PROVE  LET n == Len(q.heap)
               p == [heap |-> Front(q.heap), index |-> [q.index EXCEPT ![q.heap[n].id] = 0]]
           IN  /\ n \in 1..MaxTimers
               /\ Good(p) /\ Len(p.heap) = n - 1
               /\ \A k \in 1..(n - 1) : p.heap[k] = q.heap[k]
               /\ Range(p.heap) = Range(q.heap) \ {q.heap[n]}
<1> DEFINE n == Len(q.heap)
           heap == Front(q.heap)
           index == [q.index EXCEPT ![q.heap[n].id] = 0]
<1>1. /\ q.heap \in Seq(Nodes) /\ Len(q.heap) \in Nat /\ Len(q.heap) <= MaxTimers
      /\ \A k \in 1..Len(q.heap) : q.heap[k].id \in Ids /\ q.index[q.heap[k].id] = k
      /\ \A i, j \in 1..Len(q.heap) : q.heap[i].id = q.heap[j].id => i = j
      /\ DOMAIN q.heap = 1..Len(q.heap)
  BY GoodIs, LenProperties
<1>2. n \in 1..MaxTimers
  BY <1>1, EmptySeq
<1>3. heap = SubSeq(q.heap, 1, n - 1)
  BY DEF Front
<1>4. /\ heap \in Seq(Nodes) /\ Len(heap) = n - 1 /\ \A k \in 1..(n - 1) : heap[k] = q.heap[k]
  BY <1>1, <1>2, <1>3, SubSeqProperties
<1>5. DOMAIN heap = 1..(n - 1)
  BY <1>4, LenProperties
<1>6. /\ index \in [Ids -> 0..MaxTimers]
      /\ \A k \in Ids : index[k] = IF k = q.heap[n].id THEN 0 ELSE q.index[k]
  BY <1>1, <1>2, BoundsAssumption DEF Good, Queues
<1> HIDE DEF heap, index
<1>7. ASSUME NEW k \in 1..(n - 1) PROVE index[heap[k].id] = k
  BY <1>1, <1>2, <1>4, <1>6
<1>8. Good([heap |-> heap, index |-> index])
  BY <1>1, <1>2, <1>4, <1>6, <1>7 DEF Good, Queues
<1>9. Range(heap) = Range(q.heap) \ {q.heap[n]}
  <2>1. 1..n = (1..(n - 1)) \cup {n}
    BY <1>2
  <2>2. \A k \in 1..(n - 1) : q.heap[k] # q.heap[n]
    BY <1>1, <1>2
  <2>3. Range(heap) = {q.heap[k] : k \in 1..(n - 1)}
    BY <1>4, <1>5 DEF Range
  <2>4. Range(q.heap) = {q.heap[k] : k \in 1..n}
    BY <1>1 DEF Range
  <2>5. {q.heap[k] : k \in 1..n} = {q.heap[k] : k \in 1..(n - 1)} \cup {q.heap[n]}
    BY <2>1
  <2>6. q.heap[n] \notin {q.heap[k] : k \in 1..(n - 1)}
    BY <2>2
  <2> QED BY <2>3, <2>4, <2>5, <2>6
<1> QED BY <1>2, <1>4, <1>8, <1>9 DEF heap, index

\* Cancel of the node at place x.
LEMMA WithoutIs ==
    ASSUME Good(queue), \A k \in 2..Len(queue.heap) : InOrder(queue, k),
           NEW x \in 1..Len(queue.heap), NEW p, p = Without(queue.heap[x].id)
    PROVE  /\ Good(p) /\ Len(p.heap) = Len(queue.heap) - 1
           /\ \A k \in 2..Len(p.heap) : InOrder(p, k)
           /\ Range(p.heap) = Range(queue.heap) \ {queue.heap[x]}
<1> DEFINE n == Len(queue.heap)
           node == queue.heap[x]
           moved == Swap(queue, x, n)
           q == IF x = n THEN queue ELSE Restore(moved, x, n - 1)
<1>1. /\ n \in Nat /\ queue.index[node.id] = x /\ queue.heap \in Seq(Nodes)
      /\ \A k \in 1..n : queue.heap[k].expires \in Nat
  BY GoodIs
<1>2. p = [heap |-> Front(q.heap), index |-> [q.index EXCEPT ![node.id] = 0]]
  BY <1>1 DEF Without
<1>3. /\ Good(q) /\ Len(q.heap) = n /\ Range(q.heap) = Range(queue.heap) /\ q.heap[n] = node
      /\ \A k \in 2..(n - 1) : InOrder(q, k)
  <2>1. CASE x = n
    BY <1>1, <2>1
  <2>2. CASE x # n
    <3>1. /\ Good(moved) /\ Len(moved.heap) = n /\ Range(moved.heap) = Range(queue.heap)
          /\ moved.heap[n] = node
          /\ \A k \in 1..n : k # x /\ k # n => moved.heap[k] = queue.heap[k]
      BY <1>1, <2>2, SwapIs
    <3>2. x \in 1..(n - 1) /\ n - 1 \in Nat /\ n - 1 <= n
      BY <1>1, <2>2
    <3>3. \A k \in 2..n : k \div 2 \in 1..n /\ k \div 2 < k
      BY Half
    <3> HIDE DEF moved, node
    <3>4. Bridged(moved, x, n - 1)
      <4> SUFFICES ASSUME x > 1, NEW k \in 2..(n - 1), k \div 2 = x
                   PROVE  moved.heap[x \div 2].expires <= moved.heap[k].expires
        BY DEF Bridged
      <4>1. x \div 2 \in 1..n /\ x \div 2 # x /\ x \div 2 # n /\ k # x /\ k # n /\ k \in 1..n
        BY <1>1, <3>2, <3>3
      <4>2. queue.heap[x \div 2].expires <= queue.heap[x].expires
        BY <1>1, <3>2 DEF InOrder
      <4>3. queue.heap[x].expires <= queue.heap[k].expires
        <5>1. InOrder(queue, k)
          BY <1>1
        <5> QED BY <5>1 DEF InOrder
      <4>4. /\ queue.heap[x \div 2].expires \in Nat /\ queue.heap[x].expires \in Nat
            /\ queue.heap[k].expires \in Nat
        BY <1>1, <4>1
      <4>5. moved.heap[x \div 2] = queue.heap[x \div 2] /\ moved.heap[k] = queue.heap[k]
        BY <3>1, <4>1
      <4> QED BY <4>2, <4>3, <4>4, <4>5
    <3>5. ASSUME NEW k \in 2..(n - 1), k \div 2 # x, k # x PROVE InOrder(moved, k)
      <4>1. k \div 2 \in 1..n /\ k \div 2 # n /\ k # n /\ k \in 2..n
        BY <3>2, <3>3
      <4>2. moved.heap[k] = queue.heap[k] /\ moved.heap[k \div 2] = queue.heap[k \div 2]
        BY <3>1, <3>5, <4>1
      <4> QED BY <4>1, <4>2 DEF InOrder
    <3>6. Sinking(moved, x, x, n - 1)
      BY <3>4, <3>5 DEF Sinking
    <3>7. /\ Rearranged(moved, q, n - 1)
          /\ \A k \in 2..(n - 1) : InOrder(q, k)
      BY <2>2, <3>1, <3>2, <3>6, RestoreIs
    <3>8. n \in ((n - 1) + 1)..Len(moved.heap)
      BY <3>1, <3>2
    <3> QED BY <3>1, <3>7, <3>8 DEF Rearranged
  <2> QED BY <2>1, <2>2
<1> HIDE DEF q
<1>4. q.heap # <<>>
  BY <1>1, <1>3, EmptySeq
<1>5. /\ Good(p) /\ Len(p.heap) = n - 1 /\ Range(p.heap) = Range(q.heap) \ {node}
      /\ \A k \in 1..(n - 1) : p.heap[k] = q.heap[k]
  <2> HIDE DEF node
  <2>1. p = [heap |-> Front(q.heap), index |-> [q.index EXCEPT ![q.heap[Len(q.heap)].id] = 0]]
    BY <1>2, <1>3
  <2>2. /\ Good(p) /\ Len(p.heap) = Len(q.heap) - 1
        /\ Range(p.heap) = Range(q.heap) \ {q.heap[Len(q.heap)]}
        /\ \A k \in 1..(Len(q.heap) - 1) : p.heap[k] = q.heap[k]
    BY <1>3, <1>4, <2>1, PopIs
  <2> QED BY <1>3, <2>2
<1>6. ASSUME NEW k \in 2..(n - 1) PROVE InOrder(p, k)
  <2>1. k \in 1..(n - 1) /\ k \div 2 \in 1..(n - 1)
    BY Half
  <2>2. p.heap[k] = q.heap[k] /\ p.heap[k \div 2] = q.heap[k \div 2]
    BY <1>5, <2>1
  <2> QED BY <1>3, <2>2 DEF InOrder
<1> QED BY <1>1, <1>3, <1>5, <1>6

-----------------------------------------------------------------------------
(* The steps *)

LEMMA RangeIs ==
    ASSUME NEW q, Good(q)
    PROVE  /\ Range(q.heap) = {q.heap[i] : i \in 1..Len(q.heap)}
           /\ DOMAIN q.heap = 1..Len(q.heap)
<1>1. DOMAIN q.heap = 1..Len(q.heap)
  BY GoodIs, LenProperties
<1> QED BY <1>1 DEF Range

\* What Schedule adds is one node with the next id.
LEMMA ScheduleIs ==
    ASSUME IInv, NEW units \in 0..MaxUnits, Schedule(units)
    PROVE  /\ Good(queue') /\ Len(queue'.heap) = Len(queue.heap) + 1
           /\ \A k \in 2..Len(queue'.heap) : InOrder(queue', k)
           /\ Range(queue'.heap) = Range(queue.heap) \cup {[id |-> counter + 1, expires |-> clock + units]}
<1> DEFINE node == [id |-> counter + 1, expires |-> clock + units]
           size == Len(queue.heap) + 1
           p == [heap |-> Append(queue.heap, node), index |-> [queue.index EXCEPT ![node.id] = size]]
<1>1. queue' = SiftUp(p, size)
  BY DEF Schedule
<1>2. /\ Len(queue.heap) \in Nat /\ Len(queue.heap) < MaxTimers /\ node \in Nodes
      /\ Good(queue) /\ node.id = counter + 1
  <2>1. /\ counter \in Nat /\ counter < MaxTimers /\ clock \in 1..MaxClock
        /\ Len(queue.heap) <= counter /\ Good(queue)
    BY BoundsAssumption DEF IInv, Schedule
  <2>2. Len(queue.heap) \in Nat
    BY <2>1, GoodIs
  <2>3. counter + 1 \in Ids /\ clock + units \in 1..(MaxClock + MaxUnits)
    BY <2>1, BoundsAssumption DEF Ids
  <2> QED BY <2>1, <2>2, <2>3, BoundsAssumption DEF Nodes
<1>3. \A i \in 1..Len(queue.heap) : queue.heap[i].id # node.id
  <2>1. ASSUME NEW i \in 1..Len(queue.heap) PROVE queue.heap[i].id <= counter /\ queue.heap[i].id \in Ids
    <3>1. queue.heap[i] \in Range(queue.heap)
      BY <1>2, RangeIs
    <3>2. queue.heap[i].id \in Ids
      BY <1>2, GoodIs
    <3> QED BY <3>1, <3>2 DEF IInv
  <2>2. counter \in Nat
    BY DEF IInv
  <2> QED BY <1>2, <2>1, <2>2, BoundsAssumption DEF Ids
<1> HIDE DEF node
<1>4. /\ Good(p) /\ Len(p.heap) = size
      /\ \A k \in 1..Len(queue.heap) : p.heap[k] = queue.heap[k]
      /\ Range(p.heap) = Range(queue.heap) \cup {node}
  BY <1>2, <1>3, PushIs
<1> HIDE DEF p
<1>5. Rising(p, size, size)
  <2>1. \A k \in 2..size : k \div 2 \in 1..size /\ k \div 2 < k
    BY Half
  <2>2. Bridged(p, size, size)
    BY <1>2, <2>1 DEF Bridged
  <2>3. ASSUME NEW k \in 2..size, k # size PROVE InOrder(p, k)
    <3>1. k \in 2..Len(queue.heap) /\ k \div 2 \in 1..Len(queue.heap) /\ k \in 1..Len(queue.heap)
      BY <1>2, <2>1, <2>3
    <3>2. InOrder(queue, k)
      BY <3>1 DEF IInv
    <3> QED BY <1>4, <3>1, <3>2 DEF InOrder
  <2> QED BY <2>2, <2>3 DEF Rising
<1>6. /\ Rearranged(p, queue', size)
      /\ \A k \in 2..size : InOrder(queue', k)
  BY <1>1, <1>2, <1>4, <1>5, SiftUpIs
<1> QED BY <1>4, <1>6 DEF Rearranged, node

\* What Cancel and Fire take away is the node of the id.
LEMMA RemoveIs ==
    ASSUME IInv, NEW id \in ref, queue' = Without(id), ref' = ref \ {id}
    PROVE  /\ Good(queue') /\ Len(queue'.heap) = Len(queue.heap) - 1
           /\ \A k \in 2..Len(queue'.heap) : InOrder(queue', k)
           /\ ref' = {m.id : m \in Range(queue'.heap)}
           /\ \A m \in Range(queue.heap) : m.id = id => Range(queue'.heap) = Range(queue.heap) \ {m}
<1>1. PICK x \in 1..Len(queue.heap) : queue.heap[x].id = id
  BY RangeIs DEF IInv
<1>2. /\ Good(queue') /\ Len(queue'.heap) = Len(queue.heap) - 1
      /\ \A k \in 2..Len(queue'.heap) : InOrder(queue', k)
      /\ Range(queue'.heap) = Range(queue.heap) \ {queue.heap[x]}
  BY <1>1, WithoutIs DEF IInv
<1>3. \A m \in Range(queue.heap) : m.id = id => m = queue.heap[x]
  <2>1. Good(queue)
    BY DEF IInv
  <2>2. \A m \in Range(queue.heap) : \E y \in 1..Len(queue.heap) : m = queue.heap[y]
    BY <2>1, RangeIs
  <2>3. \A y \in 1..Len(queue.heap) : queue.heap[y].id = id => y = x
    BY <1>1, <2>1, GoodIs
  <2> QED BY <2>2, <2>3
<1>4. ref' = {m.id : m \in Range(queue'.heap)}
  <2>1. queue.heap[x] \in Range(queue.heap)
    BY RangeIs DEF IInv
  <2>2. ref = {m.id : m \in Range(queue.heap)}
    BY DEF IInv
  <2> QED BY <1>1, <1>2, <1>3, <2>1, <2>2
<1> QED BY <1>2, <1>3, <1>4

LEMMA FireIs ==
    ASSUME IInv, Fire
    PROVE  /\ 1 \in 1..Len(queue.heap) /\ queue.heap[1] \in Range(queue.heap)
           /\ queue.heap[1].id \in ref
<1>1. 1 \in 1..Len(queue.heap)
  BY GoodIs, EmptySeq DEF IInv, Fire
<1> QED BY <1>1, RangeIs DEF IInv

LEMMA InitIInv == Init => IInv
<1> SUFFICES ASSUME Init PROVE IInv
  OBVIOUS
<1>1. /\ queue.heap = <<>> /\ queue.index = [i \in Ids |-> 0]
      /\ queue = [heap |-> <<>>, index |-> [i \in Ids |-> 0]]
  BY DEF Init
<1>2. <<>> \in Seq(Nodes) /\ Len(<<>>) = 0 /\ DOMAIN <<>> = 1..0
  BY EmptySeq, LenProperties
<1>3. Good(queue)
  BY <1>1, <1>2, BoundsAssumption DEF Good, Queues
<1>4. Range(queue.heap) = {}
  BY <1>1, <1>2 DEF Range
<1> QED BY <1>1, <1>2, <1>3, <1>4, BoundsAssumption DEF Init, IInv

LEMMA IInvStep == IInv /\ [Next]_vars => IInv'
<1> SUFFICES ASSUME IInv, [Next]_vars PROVE IInv'
  OBVIOUS
<1>0. /\ clock \in 1..MaxClock /\ now \in 0..clock /\ counter \in 0..MaxTimers
      /\ pc \in {"idle", "loop", "callback"} /\ Len(queue.heap) \in Nat /\ Len(queue.heap) <= counter
  BY GoodIs DEF IInv
<1>1. ASSUME NEW units \in 0..MaxUnits, Schedule(units) PROVE IInv'
  <2>1. /\ counter' = counter + 1 /\ counter < MaxTimers
        /\ ref' = ref \cup {counter'} /\ UNCHANGED <<clock, now, pc>>
    BY <1>1 DEF Schedule
  <2> DEFINE node == [id |-> counter + 1, expires |-> clock + units]
  <2>2. /\ Good(queue') /\ Len(queue'.heap) = Len(queue.heap) + 1
        /\ \A k \in 2..Len(queue'.heap) : InOrder(queue', k)
        /\ Range(queue'.heap) = Range(queue.heap) \cup {node}
    BY <1>1, ScheduleIs
  <2>3. node.id = counter'
    BY <2>1
  <2> HIDE DEF node
  <2>4. ref' = {m.id : m \in Range(queue'.heap)}
    <3>1. ref = {m.id : m \in Range(queue.heap)}
      BY DEF IInv
    <3> QED BY <2>1, <2>2, <2>3, <3>1
  <2>5. \A m \in Range(queue'.heap) : m.id <= counter'
    <3>1. ASSUME NEW m \in Range(queue.heap) PROVE m.id <= counter /\ m.id \in Nat
      <4>1. Good(queue) /\ m.id <= counter
        BY DEF IInv
      <4>2. PICK y \in 1..Len(queue.heap) : m = queue.heap[y]
        BY <4>1, RangeIs
      <4>3. queue.heap[y].id \in Ids
        BY <4>1, GoodIs
      <4> QED BY <4>1, <4>2, <4>3, BoundsAssumption DEF Ids
    <3> QED BY <1>0, <2>1, <2>2, <2>3, <3>1, BoundsAssumption
  <2>6. counter' \in 0..MaxTimers /\ Len(queue'.heap) <= counter'
    BY <1>0, <2>1, <2>2, BoundsAssumption
  <2> QED BY <1>0, <2>1, <2>2, <2>4, <2>5, <2>6 DEF IInv
<1>2. ASSUME NEW id \in ref, queue' = Without(id), ref' = ref \ {id},
             pc' \in {"idle", "loop", "callback"}, UNCHANGED <<clock, counter, now>>
      PROVE  IInv'
  <2>1. /\ Good(queue') /\ Len(queue'.heap) = Len(queue.heap) - 1
        /\ \A k \in 2..Len(queue'.heap) : InOrder(queue', k)
        /\ ref' = {m.id : m \in Range(queue'.heap)}
        /\ \A m \in Range(queue.heap) : m.id = id => Range(queue'.heap) = Range(queue.heap) \ {m}
    BY <1>2, RemoveIs
  <2>2. \E m \in Range(queue.heap) : m.id = id
    BY <1>2 DEF IInv
  <2>3. Range(queue'.heap) \subseteq Range(queue.heap)
    BY <2>1, <2>2
  <2>4. \A m \in Range(queue'.heap) : m.id <= counter
    BY <2>3 DEF IInv
  <2> QED BY <1>0, <1>2, <2>1, <2>4 DEF IInv
<1>3. ASSUME NEW id \in Ids, Cancel(id) PROVE IInv'
  BY <1>0, <1>2, <1>3 DEF Cancel
<1>4. CASE Fire
  BY <1>2, <1>4, FireIs DEF Fire
<1>5. ASSUME UNCHANGED <<queue, ref, counter>>, clock' \in 1..MaxClock, now' \in 0..clock',
             pc' \in {"idle", "loop", "callback"}
      PROVE  IInv'
  BY <1>5 DEF IInv, Good, InOrder
<1>6. CASE Update \/ Return \/ UpdateEnds \/ UNCHANGED vars
  BY <1>0, <1>5, <1>6 DEF Update, Return, UpdateEnds, vars
<1>7. CASE Tick
  BY <1>0, <1>5, <1>7, BoundsAssumption DEF Tick
<1> QED BY <1>1, <1>3, <1>4, <1>6, <1>7 DEF Next

THEOREM Invariance == Spec => []IInv
BY InitIInv, IInvStep, PTL DEF Spec

-----------------------------------------------------------------------------
(* The theorems *)

\* Every node knows its place after all the moves of the others, ref_ has the nodes of
\* the heap and no freed one, and no node is due before its parent.
THEOREM HeapStaysOK == Spec => []HeapOK
<1>1. IInv => HeapOK
  <2> SUFFICES ASSUME IInv PROVE HeapOK
    OBVIOUS
  <2> USE DEF IInv
  <2>1. /\ DOMAIN queue.heap = 1..Len(queue.heap)
        /\ Range(queue.heap) = {queue.heap[i] : i \in 1..Len(queue.heap)}
    BY RangeIs
  <2>2. /\ queue.heap \in Seq([id : Ids, expires : 1..(MaxClock + MaxUnits)])
        /\ queue.index \in [Ids -> 0..MaxTimers]
        /\ \A i \in 1..Len(queue.heap) : queue.index[queue.heap[i].id] = i
    BY DEF Good, Queues, Nodes
  <2>3. ref = {queue.heap[i].id : i \in 1..Len(queue.heap)}
    BY <2>1
  <2>4. ASSUME NEW i \in 2..Len(queue.heap) PROVE ~Less(queue, i, i \div 2)
    <3>1. i \in 1..Len(queue.heap) /\ i \div 2 \in 1..Len(queue.heap)
      BY GoodIs, Half
    <3>2. queue.heap[i].expires \in Nat /\ queue.heap[i \div 2].expires \in Nat
      BY <3>1, GoodIs
    <3>3. InOrder(queue, i)
      OBVIOUS
    <3> QED BY <3>2, <3>3 DEF InOrder, Less
  <2> QED BY <2>1, <2>2, <2>3, <2>4 DEF HeapOK
<1> QED BY <1>1, Invariance, PTL

\* The top of the heap is due first.
LEMMA RootIsFirst ==
    ASSUME NEW q, Good(q), \A k \in 2..Len(q.heap) : InOrder(q, k)
    PROVE  \A k \in 1..Len(q.heap) : q.heap[1].expires <= q.heap[k].expires
<1> DEFINE T == {k \in 1..Len(q.heap) : ~(q.heap[1].expires <= q.heap[k].expires)}
<1>1. Len(q.heap) \in Nat /\ \A k \in 1..Len(q.heap) : q.heap[k].expires \in Nat
  BY GoodIs
<1> SUFFICES ASSUME T # {} PROVE FALSE
  OBVIOUS
<1>2. PICK k \in T : \A m \in T : k <= m
  <2>1. T \in SUBSET Nat
    BY <1>1
  <2> HIDE DEF T
  <2> QED BY <2>1, LeastNumber
<1>3. k \in 2..Len(q.heap)
  BY <1>1, <1>2
<1>4. k \div 2 \in 1..Len(q.heap) /\ k \div 2 \notin T
  BY <1>2, <1>3, Half
<1>5. q.heap[1].expires <= q.heap[k \div 2].expires /\ q.heap[k \div 2].expires <= q.heap[k].expires
  BY <1>3, <1>4 DEF InOrder
<1> QED BY <1>1, <1>2, <1>3, <1>4, <1>5

\* The heap implements TimerSet: Schedule adds one timer, Cancel removes one, and what
\* Update fires is due and is the first of all.
THEOREM ImplementsTimerSet == Spec => TimerSetSpec
<1>1. Init => Timers!Init
  <2> SUFFICES ASSUME Init PROVE Timers!Init
    OBVIOUS
  <2>1. Range(queue.heap) = {}
    BY DEF Init, Range
  <2> QED BY <2>1 DEF Init, Timers!Init
<1>2. IInv /\ [Next]_vars => [Timers!Next]_(Timers!vars)
  <2> SUFFICES ASSUME IInv, [Next]_vars PROVE [Timers!Next]_(Timers!vars)
    OBVIOUS
  <2> DEFINE pending == Range(queue.heap)
  <2>0. /\ Good(queue) /\ Len(queue.heap) \in Nat /\ clock \in Nat /\ now \in Nat
        /\ pending = {queue.heap[i] : i \in 1..Len(queue.heap)}
        /\ \A i \in 1..Len(queue.heap) : queue.heap[i].expires \in Nat
        /\ pc \in {"idle", "loop", "callback"}
    <3>1. Good(queue) /\ clock \in 1..MaxClock /\ now \in 0..clock /\ pc \in {"idle", "loop", "callback"}
      BY DEF IInv
    <3>2. clock \in Nat /\ now \in Nat
      BY <3>1, BoundsAssumption
    <3>3. pending = {queue.heap[i] : i \in 1..Len(queue.heap)}
      BY <3>1, RangeIs
    <3>4. Len(queue.heap) \in Nat /\ \A i \in 1..Len(queue.heap) : queue.heap[i].expires \in Nat
      BY <3>1, GoodIs
    <3> QED BY <3>1, <3>2, <3>3, <3>4
  <2>1. ASSUME NEW units \in 0..MaxUnits, Schedule(units) PROVE Timers!Add
    <3> DEFINE node == [id |-> counter + 1, expires |-> clock + units]
    <3>1. pending' = pending \cup {node}
      BY <2>1, ScheduleIs
    <3>2. node.id = counter + 1 /\ node.expires >= clock
      BY <2>0
    <3>3. counter' = counter + 1 /\ pc # "loop" /\ UNCHANGED <<clock, now, pc>>
      BY <2>1 DEF Schedule
    <3> HIDE DEF node
    <3> QED BY <2>0, <3>1, <3>2, <3>3 DEF Timers!Add
  <2>2. ASSUME NEW id \in Ids, Cancel(id) PROVE Timers!Remove
    <3>1. PICK m \in pending : m.id = id
      BY <2>2 DEF Cancel, IInv
    <3>2. pending' = pending \ {m}
      BY <2>2, <3>1, RemoveIs DEF Cancel
    <3>3. pc # "loop" /\ UNCHANGED <<clock, counter, now, pc>>
      BY <2>2 DEF Cancel
    <3>4. \E n \in Range(queue.heap) : Range(queue.heap)' = Range(queue.heap) \ {n}
      BY <3>1, <3>2
    <3>5. /\ [idle |-> "idle", loop |-> "looping", callback |-> "calling"][pc] # "looping"
          /\ UNCHANGED [idle |-> "idle", loop |-> "looping", callback |-> "calling"][pc]
      BY <2>0, <3>3
    <3> QED BY <3>3, <3>4, <3>5 DEF Timers!Remove
  <2>3. ASSUME Update PROVE Timers!Begin
    BY <2>0, <2>3 DEF Update, Timers!Begin
  <2>4. ASSUME Fire PROVE Timers!Fire
    <3>1. queue.heap[1] \in pending /\ queue.heap[1].id \in ref /\ 1 \in 1..Len(queue.heap)
      BY <2>4, FireIs
    <3>2. pending' = pending \ {queue.heap[1]}
      BY <2>4, <3>1, RemoveIs DEF Fire
    <3>3. \A m \in pending : queue.heap[1].expires <= m.expires
      BY <2>0, RootIsFirst DEF IInv
    <3>4. queue.heap[1].expires <= now
      BY <2>0, <2>4, <3>1 DEF Fire
    <3> QED BY <2>0, <2>4, <3>1, <3>2, <3>3, <3>4 DEF Fire, Timers!Fire
  <2>5. ASSUME Return PROVE Timers!Return
    BY <2>0, <2>5 DEF Return, Timers!Return
  <2>6. ASSUME UpdateEnds PROVE Timers!End
    <3>1. \A m \in pending : m.expires > now
      <4> SUFFICES ASSUME NEW i \in 1..Len(queue.heap) PROVE queue.heap[i].expires > now
        BY <2>0
      <4>1. queue.heap # <<>> /\ 1 \in 1..Len(queue.heap)
        BY <2>0, EmptySeq
      <4>2. now < queue.heap[1].expires /\ queue.heap[1].expires <= queue.heap[i].expires
        BY <2>0, <2>6, <4>1, RootIsFirst DEF IInv, UpdateEnds
      <4> QED BY <2>0, <4>1, <4>2
    <3> QED BY <2>0, <2>6, <3>1 DEF UpdateEnds, Timers!End
  <2>7. ASSUME Tick PROVE Timers!Pass
    BY <2>0, <2>7 DEF Tick, Timers!Pass
  <2>8. ASSUME UNCHANGED vars PROVE UNCHANGED Timers!vars
    BY <2>8 DEF vars, Timers!vars
  <2> QED BY <2>1, <2>2, <2>3, <2>4, <2>5, <2>6, <2>7, <2>8 DEF Next, Timers!Next
<1> QED BY <1>1, <1>2, Invariance, PTL DEF Spec, TimerSetSpec, Timers!Spec
=============================================================================
