-------------------------- MODULE CacheQueryProofs --------------------------
(***************************************************************************)
(* Proofs about CacheQuery for every number of queries, every bars of the  *)
(* cache server and of the day and everything a query may ask for: the     *)
(* table of waiting queries is exact, and an answer, from memory or joined *)
(* from the cache server's bars and those of the day, is one uninterrupted *)
(* run of bars.                                                            *)
(***************************************************************************)
EXTENDS CacheQuery, Integers, WellFoundedInduction, FiniteSetTheorems, SequenceTheorems, TLAPS

\* A run of bars, oldest first.
Increasing(a) == \A i, j \in 1..Len(a) : i < j => a[i] < a[j]

\* The bars of S later than t.
Above(S, t) == {u \in S : u > t}

-----------------------------------------------------------------------------
(* Induction over the natural numbers *)

\* A nonempty set of natural numbers has a least element.
LEMMA LeastNumber ==
    ASSUME NEW T \in SUBSET Nat, T # {}
    PROVE  \E x \in T : \A y \in T : x <= y
<1>1. PICK x \in T : \A y \in T : ~(<<y, x>> \in OpToRel(<, Nat))
  BY NatLessThanWellFounded, WFMin
<1>2. \A y \in T : ~(y < x)
  BY <1>1 DEF OpToRel
<1> QED BY <1>2

-----------------------------------------------------------------------------
(* The invariant *)

Queries == [kind : {"count", "time"}, total : Nat, start : Nat, end : Nat]
Handlers == [pc : Pcs, ask : Queries \cup {NoAsk}, id : Nat, cacheCount : Nat, cacheEnd : Nat,
             native : BOOLEAN, older : Seq(Nat), known : SUBSET Today, spoiled : BOOLEAN]

Types ==
    /\ counts \in SUBSET Today /\ bars \in SUBSET Today
    /\ IsFiniteSet(counts) /\ IsFiniteSet(bars)
    /\ clearing \in {"no", "counts", "bars", "done"} /\ link \in BOOLEAN /\ nextId \in Nat
    /\ req \in [Requests -> Handlers]
    /\ sent \subseteq [id : Nat, req : Handlers]
    /\ responses \subseteq [id : Nat, older : Seq(Nat)]
    /\ answer \in [Requests -> Seq(Nat)]

\* Before it is decided how a query is answered nothing is known of it but the query.
AskInv ==
    \A r \in Requests :
        /\ req[r].ask \in Asks[r] \cup {NoAsk}
        /\ req[r].pc # "idle" => req[r].ask \in Asks[r]
        /\ req[r].pc \in {"idle", "asked"} =>
              answer[r] = <<>> /\ req[r].known = {} /\ req[r].native = FALSE

\* No two queries wait under one id, no id is used before it is given, and the table
\* holds the queries that wait.
Waits(r) == req[r].pc \in {"sent", "waiting"}
IdInv ==
    /\ \A m \in sent \cup responses : m.id < nextId
    /\ \A r \in Requests : Waits(r) => req[r].id < nextId
    /\ \A r, s \in Requests : Waits(r) /\ Waits(s) /\ req[r].id = req[s].id => r = s
    /\ \A id \in DOMAIN pending :
          /\ pending[id] \in Requests
          /\ req[pending[id]].pc = "waiting" /\ req[pending[id]].id = id
    /\ clearing # "done" =>
          \A r \in Requests : req[r].pc = "waiting" => req[r].id \in DOMAIN pending

\* A query that ClearCache has not spoiled sees the counts and the bars agree.
ClearInv ==
    /\ clearing = "no" => counts = bars
    /\ clearing # "no" => counts = {}
    /\ clearing \in {"bars", "done"} => bars = {}
    /\ \A r \in Requests : req[r].pc # "idle" /\ ~req[r].spoiled => clearing \in {"no", "done"}

\* The bars known when a query was looked at are still there, before any newer one.
GrownTo(known, B) == known \subseteq B /\ \A t \in B \ known : \A u \in known : u < t

\* What was decided from them.
Planned(q) ==
    LET n == Cardinality(UpTo(q.known, q.ask.end))
    IN  /\ IsFiniteSet(q.known)
        /\ q.pc = "local" =>
              /\ n > 0
              /\ q.ask.kind = "count" => q.ask.total > 0 /\ n >= q.ask.total
              /\ q.ask.kind = "time" =>
                    \E first \in q.known : first <= q.ask.start /\ \A t \in q.known : first <= t
        /\ q.pc # "local" /\ ~q.native =>
              /\ q.cacheCount = q.ask.total /\ q.cacheEnd = q.ask.end
              /\ n = 0 \/ (q.ask.kind = "count" /\ q.ask.total = 0)
        /\ q.pc # "local" /\ q.native =>
              /\ n > 0
              /\ q.ask.kind = "count" => n < q.ask.total /\ q.cacheCount = q.ask.total - n
              /\ \E first \in q.known :
                    /\ \A t \in q.known : first <= t
                    /\ q.cacheEnd = first - 1
                    /\ q.ask.kind = "time" => q.ask.start < first

Active(r) == req[r].pc \in {"local", "remote", "sent", "waiting", "joining"}
Fits(q, B, where) ==
    Planned(q) /\ (GrownTo(q.known, B) \/ (q.spoiled /\ where \in {"bars", "done"}))
PlanInv == \A r \in Requests : Active(r) => Fits(req[r], bars, clearing)

\* What a response holds is what the query has asked the cache server for.
SameQuery(q, p) == q.ask = p.ask /\ q.cacheCount = p.cacheCount /\ q.cacheEnd = p.cacheEnd
Newer(known, X) == X \in SUBSET Today /\ IsFiniteSet(X) /\ GrownTo(known, known \cup X)
ResponseTo(q, older) == \E X : Newer(q.known, X) /\ older = Older(q, History \cup X)
ResponseInv ==
    \A r \in Requests :
        /\ Active(r) /\ Waits(r) =>
              /\ \A m \in sent : m.id = req[r].id => SameQuery(m.req, req[r])
              /\ \A m \in responses : m.id = req[r].id => ResponseTo(req[r], m.older)
        /\ Active(r) /\ req[r].pc = "joining" => ResponseTo(req[r], req[r].older)

\* The answer to a query, given what was known when it was looked at.
Complete(q, a) ==
    LET old == History \cup q.known
        promised == Promised(q, old)
    IN  /\ \A i, j \in DOMAIN a : i < j => a[i] < a[j]
        /\ ToSet(a) \subseteq UpTo(History \cup Today, q.ask.end)
        /\ ToSet(a) \cap old \subseteq Wanted(q, old)
        /\ \/ promised \subseteq ToSet(a)
           \/ /\ q.ask.kind = "count" /\ Len(a) >= q.ask.total
              /\ {t \in promised : a[1] <= t} \subseteq ToSet(a)

DoneInv == \A r \in Requests : req[r].pc = "answered" => Complete(req[r], answer[r])

IInv ==
    Types /\ AskInv /\ IdInv /\ ClearInv /\ PlanInv /\ ResponseInv /\ DoneInv

-----------------------------------------------------------------------------
(* Sorting a finite set of times *)

LEMMA UpToIs ==
    ASSUME NEW S \in SUBSET Nat, IsFiniteSet(S), NEW t \in Nat
    PROVE  /\ UpTo(S, t) \subseteq S /\ IsFiniteSet(UpTo(S, t))
           /\ Cardinality(UpTo(S, t)) \in Nat /\ Cardinality(S) \in Nat
           /\ Cardinality(UpTo(S, t)) <= Cardinality(S)
           /\ IsFiniteSet(Above(S, t)) /\ Cardinality(Above(S, t)) \in Nat
           /\ Cardinality(Above(S, t)) = Cardinality(S) - Cardinality(UpTo(S, t))
<1>1. UpTo(S, t) \in SUBSET S
  BY DEF UpTo
<1>2. IsFiniteSet(UpTo(S, t)) /\ Cardinality(UpTo(S, t)) <= Cardinality(S)
  BY <1>1, FS_Subset
<1>3. Above(S, t) = S \ UpTo(S, t) /\ S \cap UpTo(S, t) = UpTo(S, t)
  <2>1. \A u \in S : u \in Nat /\ (u > t <=> ~(u <= t))
    OBVIOUS
  <2> QED BY <2>1 DEF Above, UpTo
<1>4. /\ IsFiniteSet(Above(S, t))
      /\ Cardinality(Above(S, t)) = Cardinality(S) - Cardinality(UpTo(S, t))
  BY <1>3, FS_Difference
<1> QED BY <1>1, <1>2, <1>4, FS_CardinalityType

\* The position of a time in the sorted list.
LEMMA RankIs ==
    ASSUME NEW S \in SUBSET Nat, IsFiniteSet(S), NEW t \in S
    PROVE  Cardinality(UpTo(S, t)) \in 1..Cardinality(S)
<1>1. /\ IsFiniteSet(UpTo(S, t)) /\ Cardinality(UpTo(S, t)) \in Nat
      /\ Cardinality(UpTo(S, t)) <= Cardinality(S) /\ Cardinality(S) \in Nat
  BY UpToIs
<1>2. t \in UpTo(S, t)
  BY DEF UpTo
<1>3. Cardinality(UpTo(S, t)) # 0
  BY <1>1, <1>2, FS_EmptySet
<1> QED BY <1>1, <1>3

LEMMA RankGrows ==
    ASSUME NEW S \in SUBSET Nat, IsFiniteSet(S), NEW t \in S, NEW u \in S, t < u
    PROVE  Cardinality(UpTo(S, t)) < Cardinality(UpTo(S, u))
<1>0. t \in Nat /\ u \in Nat
  OBVIOUS
<1>1. UpTo(S, t) \in SUBSET UpTo(S, u) /\ u \in UpTo(S, u) /\ u \notin UpTo(S, t)
  <2>1. \A x \in S : x \in Nat /\ (x <= t => x <= u)
    BY <1>0
  <2>2. u <= u /\ ~(u <= t)
    BY <1>0
  <2> QED BY <2>1, <2>2 DEF UpTo
<1>2. IsFiniteSet(UpTo(S, u)) /\ Cardinality(UpTo(S, t)) \in Nat /\ Cardinality(UpTo(S, u)) \in Nat
  BY <1>0, UpToIs
<1>3. /\ Cardinality(UpTo(S, t)) <= Cardinality(UpTo(S, u))
      /\ Cardinality(UpTo(S, t)) # Cardinality(UpTo(S, u))
  BY <1>1, <1>2, FS_Subset
<1> QED BY <1>2, <1>3

LEMMA RankIsOnto ==
    ASSUME NEW S \in SUBSET Nat, IsFiniteSet(S), NEW i \in 1..Cardinality(S)
    PROVE  \E t \in S : Cardinality(UpTo(S, t)) = i
<1> DEFINE n == Cardinality(S)
           rank == [t \in S |-> Cardinality(UpTo(S, t))]
<1>1. n \in Nat
  BY FS_CardinalityType
<1>2. rank \in [S -> 1..n]
  BY RankIs
<1>3. ASSUME NEW t \in S, NEW u \in S, rank[t] = rank[u] PROVE t = u
  <2>1. ~(t < u) /\ ~(u < t)
    BY <1>3, RankGrows, RankIs
  <2> QED BY <2>1
<1>4. rank \in Injection(S, 1..n)
  BY <1>2, <1>3 DEF Injection, IsInjective
<1>5. IsFiniteSet(1..n) /\ Cardinality(1..n) = n
  <2>1. IsFiniteSet(1..n) /\ Cardinality(1..n) = IF 1 > n THEN 0 ELSE n - 1 + 1
    BY <1>1, FS_Interval
  <2> QED BY <1>1, <2>1
<1>6. rank \in Surjection(S, 1..n)
  <2> HIDE DEF rank
  <2> QED BY <1>4, <1>5, FS_Injection
<1> QED BY <1>6 DEF Surjection

\* Ascending sorts.
LEMMA AscendingIs ==
    ASSUME NEW S \in SUBSET Nat, IsFiniteSet(S)
    PROVE  /\ Ascending(S) \in Seq(S) /\ Len(Ascending(S)) = Cardinality(S)
           /\ Cardinality(S) \in Nat /\ Increasing(Ascending(S))
           /\ \A i \in 1..Cardinality(S) : Cardinality(UpTo(S, Ascending(S)[i])) = i
           /\ \A t \in S : Ascending(S)[Cardinality(UpTo(S, t))] = t
<1> DEFINE n == Cardinality(S)
           a == Ascending(S)
<1>1. n \in Nat
  BY FS_CardinalityType
<1>2. \A i \in 1..n : a[i] = CHOOSE t \in S : Cardinality(UpTo(S, t)) = i
  BY DEF Ascending
<1>3. \A i \in 1..n : a[i] \in S /\ Cardinality(UpTo(S, a[i])) = i
  BY <1>2, RankIsOnto
<1>4. a = [i \in 1..n |-> a[i]]
  BY DEF Ascending
<1> HIDE DEF a, n
<1>5. a \in [1..n -> S]
  BY <1>3, <1>4
<1>6. a \in Seq(S)
  BY <1>1, <1>5, SeqDef
<1>7. Len(a) = n
  BY <1>1, <1>5, <1>6, LenProperties
<1>8. \A t \in S : a[Cardinality(UpTo(S, t))] = t
  <2> TAKE t \in S
  <2> DEFINE i == Cardinality(UpTo(S, t))
  <2>1. i \in 1..n
    BY RankIs DEF n
  <2>2. a[i] \in S /\ Cardinality(UpTo(S, a[i])) = i
    BY <1>3, <2>1
  <2>3. ~(i < i) /\ a[i] \in Nat /\ t \in Nat
    <3> HIDE DEF i
    <3>1. i \in Int
      BY <1>1, <2>1
    <3>2. a[i] \in Nat
      BY <2>2, Zenon
    <3>3. t \in Nat
      OBVIOUS
    <3> QED BY <3>1, <3>2, <3>3
  <2>4. ~(a[i] < t)
    BY <2>2, <2>3, RankGrows
  <2>5. ~(t < a[i])
    BY <2>2, <2>3, RankGrows
  <2> HIDE DEF i
  <2>6. a[i] = t
    BY <2>3, <2>4, <2>5
  <2> QED BY <2>6 DEF i
<1>9. ASSUME NEW i \in 1..n, NEW j \in 1..n, i < j PROVE a[i] < a[j]
  <2>1. a[i] \in S /\ a[j] \in S /\ Cardinality(UpTo(S, a[i])) = i /\ Cardinality(UpTo(S, a[j])) = j
    BY <1>3
  <2>2. a[i] # a[j] /\ ~(j < i) /\ a[i] \in Nat /\ a[j] \in Nat
    <3>1. i \in Int /\ j \in Int /\ i < j
      BY <1>1, <1>9
    <3>2. a[i] \in Nat /\ a[j] \in Nat
      BY <2>1, Zenon
    <3>3. i # j
      BY <3>1
    <3>4. a[i] # a[j]
      BY <2>1, <3>3, Zenon
    <3> QED BY <3>1, <3>2, <3>4
  <2>3. ~(a[j] < a[i])
    BY <2>1, <2>2, RankGrows
  <2> QED BY <2>2, <2>3
<1> QED BY <1>1, <1>3, <1>6, <1>7, <1>8, <1>9 DEF Increasing, a, n

LEMMA AscendingSet ==
    ASSUME NEW S \in SUBSET Nat, IsFiniteSet(S)
    PROVE  /\ Ascending(S) \in Seq(Nat) /\ Len(Ascending(S)) = Cardinality(S)
           /\ Increasing(Ascending(S)) /\ ToSet(Ascending(S)) = S
<1>1. DOMAIN Ascending(S) = 1..Cardinality(S)
  BY DEF Ascending
<1>2. \A i \in 1..Cardinality(S) : Ascending(S)[i] \in S
  BY AscendingIs, ElementOfSeq
<1>3. ToSet(Ascending(S)) = S
  <2>1. \A t \in S : Cardinality(UpTo(S, t)) \in DOMAIN Ascending(S)
    BY <1>1, RankIs
  <2>2. \A t \in S : Ascending(S)[Cardinality(UpTo(S, t))] = t
    BY AscendingIs
  <2> QED BY <1>1, <1>2, <2>1, <2>2 DEF ToSet
<1> QED BY <1>3, AscendingIs, SeqMonotonic

\* LastBars takes the bars with fewer than total bars after them.
LEMMA LastBarsIs ==
    ASSUME NEW S \in SUBSET Nat, IsFiniteSet(S), NEW total \in Nat
    PROVE  LET a == LastBars(S, total)
           IN  /\ a \in Seq(Nat) /\ Increasing(a)
               /\ ToSet(a) = {t \in S : Cardinality(Above(S, t)) < total}
               /\ Len(a) = IF Cardinality(S) > total THEN total ELSE Cardinality(S)
<1> DEFINE n == Cardinality(S)
           all == Ascending(S)
           m == IF n > total THEN n - total + 1 ELSE 1
           a == LastBars(S, total)
<1>1. /\ all \in Seq(Nat) /\ Len(all) = n /\ n \in Nat /\ Increasing(all)
      /\ \A i \in 1..n : all[i] \in S /\ all[i] \in Nat /\ Cardinality(UpTo(S, all[i])) = i
      /\ \A t \in S : all[Cardinality(UpTo(S, t))] = t
  BY AscendingIs, AscendingSet, ElementOfSeq
<1>2. m \in 1..(n + 1)
  BY <1>1
<1>3. a = SubSeq(all, m, n)
  BY <1>1 DEF LastBars
<1>4. n - m + 1 = IF n > total THEN total ELSE n
  BY <1>1
<1> HIDE DEF all, m, a, n
<1>5. /\ a \in Seq(Nat) /\ Len(a) = IF m <= n THEN n - m + 1 ELSE 0
      /\ \A i \in 1..(n - m + 1) : a[i] = all[m + i - 1]
  BY <1>1, <1>2, <1>3, SubSeqProperties
<1>6. Len(a) = n - m + 1 /\ Len(a) \in Nat /\ \A i \in 1..Len(a) : m + i - 1 \in m..n
  BY <1>1, <1>2, <1>5
<1>7. Increasing(a)
  BY <1>1, <1>2, <1>5, <1>6 DEF Increasing
<1>8. \A t \in S : /\ Cardinality(UpTo(S, t)) \in 1..n
                   /\ Cardinality(Above(S, t)) = n - Cardinality(UpTo(S, t))
  BY RankIs, UpToIs DEF n
<1>9. \A t \in S : Cardinality(Above(S, t)) < total <=> Cardinality(UpTo(S, t)) \in m..n
  BY <1>1, <1>8 DEF m
<1>10. ToSet(a) = {t \in S : Cardinality(Above(S, t)) < total}
  <2>1. DOMAIN a = 1..Len(a)
    BY <1>5, LenProperties
  <2>2. ASSUME NEW i \in 1..Len(a)
        PROVE  a[i] \in S /\ Cardinality(Above(S, a[i])) < total
    <3>1. m + i - 1 \in m..n /\ m + i - 1 \in 1..n
      BY <1>1, <1>2, <1>6
    <3>2. a[i] = all[m + i - 1]
      BY <1>5, <1>6
    <3> QED BY <1>1, <1>9, <3>1, <3>2
  <2>3. ASSUME NEW t \in S, Cardinality(Above(S, t)) < total
        PROVE  \E i \in 1..Len(a) : a[i] = t
    <3> DEFINE i == Cardinality(UpTo(S, t)) - m + 1
    <3>1. Cardinality(UpTo(S, t)) \in m..n
      BY <1>9, <2>3
    <3>2. i \in 1..Len(a) /\ m + i - 1 = Cardinality(UpTo(S, t))
      BY <1>1, <1>2, <1>6, <3>1
    <3>3. a[i] = t
      BY <1>1, <1>5, <1>6, <3>2
    <3> QED BY <3>2, <3>3
  <2> QED BY <2>1, <2>2, <2>3 DEF ToSet
<1> QED BY <1>4, <1>5, <1>6, <1>7, <1>10 DEF a, n

LEMMA ConcatRuns ==
    ASSUME NEW s \in Seq(Nat), NEW t \in Seq(Nat), Increasing(s), Increasing(t),
           \A x \in ToSet(s), y \in ToSet(t) : x < y
    PROVE  /\ s \o t \in Seq(Nat) /\ Increasing(s \o t)
           /\ ToSet(s \o t) = ToSet(s) \cup ToSet(t)
<1> DEFINE a == s \o t
<1>1. /\ a \in Seq(Nat) /\ Len(a) = Len(s) + Len(t) /\ Len(s) \in Nat /\ Len(t) \in Nat
      /\ DOMAIN a = 1..Len(a) /\ DOMAIN s = 1..Len(s) /\ DOMAIN t = 1..Len(t)
      /\ \A i \in 1..(Len(s) + Len(t)) : a[i] = IF i <= Len(s) THEN s[i] ELSE t[i - Len(s)]
  BY ConcatProperties, LenProperties
<1> HIDE DEF a
<1>2. ASSUME NEW i \in 1..Len(a)
      PROVE  \/ i \in 1..Len(s) /\ a[i] = s[i] /\ s[i] \in ToSet(s)
             \/ i > Len(s) /\ i - Len(s) \in 1..Len(t) /\ a[i] = t[i - Len(s)]
                /\ t[i - Len(s)] \in ToSet(t)
  <2>1. CASE i <= Len(s)
    <3>1. i \in 1..Len(s) /\ i \in 1..(Len(s) + Len(t))
      BY <1>1, <2>1
    <3>2. a[i] = s[i]
      BY <1>1, <2>1, <3>1
    <3>3. s[i] \in ToSet(s)
      BY <1>1, <3>1 DEF ToSet
    <3> QED BY <3>1, <3>2, <3>3
  <2>2. CASE i > Len(s)
    <3>1. i - Len(s) \in 1..Len(t) /\ a[i] = t[i - Len(s)]
      BY <1>1, <2>2
    <3> QED BY <1>1, <2>2, <3>1 DEF ToSet
  <2> QED BY <1>1, <2>1, <2>2
<1>3. ASSUME NEW i \in 1..Len(a), NEW j \in 1..Len(a), i < j PROVE a[i] < a[j]
  <2>1. CASE i \in 1..Len(s) /\ j \in 1..Len(s)
    BY <1>1, <1>3, <2>1 DEF Increasing
  <2>2. CASE i \in 1..Len(s) /\ j > Len(s)
    <3>1. a[i] \in ToSet(s) /\ a[j] \in ToSet(t)
      BY <1>1, <1>2, <2>2
    <3> QED BY <3>1
  <2>3. CASE i > Len(s)
    <3>1. /\ i - Len(s) \in 1..Len(t) /\ j - Len(s) \in 1..Len(t) /\ i - Len(s) < j - Len(s)
          /\ a[i] = t[i - Len(s)] /\ a[j] = t[j - Len(s)]
      <4>1. i \in Int /\ j \in Int /\ Len(s) \in Int /\ i < j /\ i > Len(s) /\ j > Len(s)
        BY <1>1, <1>3, <2>3
      <4>2. ~(i \in 1..Len(s)) /\ ~(j \in 1..Len(s)) /\ i - Len(s) < j - Len(s)
        BY <4>1
      <4> QED BY <1>2, <4>2
    <3> QED BY <3>1 DEF Increasing
  <2> QED BY <1>1, <2>1, <2>2, <2>3
<1>4. ToSet(a) \subseteq ToSet(s) \cup ToSet(t)
  <2>1. \A i \in DOMAIN a : a[i] \in ToSet(s) \cup ToSet(t)
    BY <1>1, <1>2
  <2> QED BY <2>1 DEF ToSet
<1>5. \A i \in DOMAIN s : i \in DOMAIN a /\ a[i] = s[i]
  BY <1>1
<1>6. \A i \in DOMAIN t : i + Len(s) \in DOMAIN a /\ a[i + Len(s)] = t[i]
  <2> TAKE i \in DOMAIN t
  <2>1. i \in 1..Len(t) /\ i + Len(s) \in 1..(Len(s) + Len(t)) /\ ~(i + Len(s) <= Len(s))
        /\ (i + Len(s)) - Len(s) = i
    BY <1>1
  <2> QED BY <1>1, <2>1
<1>7. ToSet(s) \cup ToSet(t) \subseteq ToSet(a)
  BY <1>5, <1>6 DEF ToSet
<1> QED BY <1>1, <1>3, <1>4, <1>7 DEF Increasing, a

LEMMA AboveGrows ==
    ASSUME NEW S, NEW U, IsFiniteSet(U), S \subseteq U
    PROVE  IsFiniteSet(S) /\ Cardinality(S) <= Cardinality(U)
           /\ Cardinality(S) \in Nat /\ Cardinality(U) \in Nat
BY FS_Subset, FS_CardinalityType

-----------------------------------------------------------------------------
(* Answers *)

LEMMA TimesAre ==
    /\ History \in SUBSET Nat /\ Today \in SUBSET Nat /\ History \cap Today = {}
    /\ IsFiniteSet(History) /\ \A h \in History, t \in Today : h < t /\ ~(t <= h)
<1>1. /\ \A h \in History : h \in Nat
      /\ \A t \in Today : t \in Nat
      /\ \A h \in History, t \in Today : h < t
      /\ IsFiniteSet(History)
  BY TimesAssumption
<1>2. \A h \in History, t \in Today : h < t /\ ~(t <= h) /\ h # t
  BY <1>1
<1> QED BY <1>1, <1>2

LEMMA UpToSubset ==
    ASSUME NEW S \in SUBSET Nat, IsFiniteSet(S), NEW t
    PROVE  /\ UpTo(S, t) \in SUBSET Nat /\ UpTo(S, t) \subseteq S /\ IsFiniteSet(UpTo(S, t))
           /\ Cardinality(UpTo(S, t)) \in Nat
<1>1. UpTo(S, t) \subseteq S
  BY DEF UpTo
<1> QED BY <1>1, AboveGrows

\* What the first bar of a list says of the rest.
LEMMA FirstIs ==
    ASSUME NEW a \in Seq(Nat), Increasing(a), Len(a) > 0
    PROVE  a[1] \in ToSet(a) /\ a[1] \in Nat
<1>1. DOMAIN a = 1..Len(a) /\ Len(a) \in Nat /\ 1 \in 1..Len(a)
  BY LenProperties
<1> QED BY <1>1, ElementOfSeq DEF ToSet

LEMMA CompleteIf ==
    ASSUME NEW q \in Handlers, NEW a \in Seq(Nat), Increasing(a),
           ToSet(a) \subseteq UpTo(History \cup Today, q.ask.end),
           ToSet(a) \cap (History \cup q.known) \subseteq Wanted(q, History \cup q.known),
           \/ Wanted(q, History \cup q.known) \subseteq ToSet(a)
           \/ /\ q.ask.kind = "count" /\ Len(a) >= q.ask.total
              /\ {t \in Wanted(q, History \cup q.known) : a[1] <= t} \subseteq ToSet(a)
    PROVE  Complete(q, a)
<1>1. DOMAIN a = 1..Len(a)
  BY LenProperties
<1>2. \A i, j \in DOMAIN a : i < j => a[i] < a[j]
  BY <1>1 DEF Increasing
<1>3. Promised(q, History \cup q.known) \subseteq Wanted(q, History \cup q.known)
  BY DEF Promised
<1> QED BY <1>2, <1>3 DEF Complete

LEMMA CompleteIfPromised ==
    ASSUME NEW q \in Handlers, NEW a \in Seq(Nat), Increasing(a),
           ToSet(a) \subseteq UpTo(History \cup Today, q.ask.end),
           ToSet(a) \cap (History \cup q.known) \subseteq Wanted(q, History \cup q.known),
           Promised(q, History \cup q.known) \subseteq ToSet(a)
    PROVE  Complete(q, a)
<1>1. DOMAIN a = 1..Len(a)
  BY LenProperties
<1>2. \A i, j \in DOMAIN a : i < j => a[i] < a[j]
  BY <1>1 DEF Increasing
<1> QED BY <1>2 DEF Complete

LEMMA WantedIs ==
    ASSUME NEW q \in Handlers, q.ask \in Queries, IsFiniteSet(q.known)
    PROVE  LET O == UpTo(History \cup q.known, q.ask.end)
           IN  /\ O \in SUBSET Nat /\ IsFiniteSet(O)
               /\ Wanted(q, History \cup q.known) =
                    IF q.ask.kind = "count"
                    THEN {t \in O : Cardinality(Above(O, t)) < q.ask.total}
                    ELSE {t \in O : q.ask.start <= t}
<1> DEFINE O == UpTo(History \cup q.known, q.ask.end)
<1>1. q.known \in SUBSET Nat
  BY TimesAre DEF Handlers
<1>2. History \cup q.known \in SUBSET Nat /\ IsFiniteSet(History \cup q.known)
  BY <1>1, TimesAre, FS_Union
<1>3. O \in SUBSET Nat /\ IsFiniteSet(O)
  BY <1>2, UpToSubset
<1>4. q.ask.total \in Nat
  BY DEF Queries
<1> HIDE DEF O
<1>5. ToSet(LastBars(O, q.ask.total)) = {t \in O : Cardinality(Above(O, t)) < q.ask.total}
  BY <1>3, <1>4, LastBarsIs
<1> QED BY <1>3, <1>5 DEF Wanted, O

\* Enough bars of the day: the last of them, from memory.
LEMMA CompleteLocalCount ==
    ASSUME NEW q \in Handlers, q.ask \in Queries, q.ask.kind = "count",
           NEW B \in SUBSET Today, IsFiniteSet(B), GrownTo(q.known, B), q.ask.total > 0,
           Cardinality(UpTo(q.known, q.ask.end)) >= q.ask.total
    PROVE  LastBars(UpTo(B, q.ask.end), q.ask.total) \in Seq(Nat)
           /\ Complete(q, LastBars(UpTo(B, q.ask.end), q.ask.total))
<1> DEFINE old == History \cup q.known
           total == q.ask.total
           U == UpTo(B, q.ask.end)
           O == UpTo(old, q.ask.end)
           a == LastBars(U, total)
<1>1. /\ total \in Nat /\ total > 0 /\ q.known \subseteq B /\ B \in SUBSET Nat
      /\ IsFiniteSet(q.known) /\ q.known \in SUBSET Nat
  BY TimesAre, AboveGrows DEF Queries, GrownTo
<1>2. U \in SUBSET Nat /\ IsFiniteSet(U) /\ U \subseteq Today
  BY <1>1, UpToSubset
<1>3. Cardinality(U) >= total /\ Cardinality(U) \in Nat
  <2>1. UpTo(q.known, q.ask.end) \subseteq U
    BY <1>1 DEF UpTo
  <2>2. Cardinality(UpTo(q.known, q.ask.end)) <= Cardinality(U)
        /\ Cardinality(UpTo(q.known, q.ask.end)) \in Nat /\ Cardinality(U) \in Nat
    BY <1>2, <2>1, AboveGrows
  <2> QED BY <1>1, <2>2
<1>4. /\ O \in SUBSET Nat /\ IsFiniteSet(O)
      /\ Wanted(q, old) = {t \in O : Cardinality(Above(O, t)) < total}
  BY <1>1, WantedIs
<1>5. /\ a \in Seq(Nat) /\ Increasing(a) /\ Len(a) = total
      /\ ToSet(a) = {t \in U : Cardinality(Above(U, t)) < total}
  <2>1. /\ a \in Seq(Nat) /\ Increasing(a)
        /\ ToSet(a) = {t \in U : Cardinality(Above(U, t)) < total}
        /\ Len(a) = IF Cardinality(U) > total THEN total ELSE Cardinality(U)
    BY <1>1, <1>2, LastBarsIs
  <2> QED BY <1>1, <1>3, <2>1
<1>6. /\ \A t \in U : t \in B /\ t <= q.ask.end
      /\ \A t \in O : t \in old /\ t <= q.ask.end
      /\ \A t \in B : t <= q.ask.end => t \in U
      /\ \A t \in old : t <= q.ask.end => t \in O
  BY DEF UpTo
<1> HIDE DEF U, O, a
<1>7. ToSet(a) \subseteq UpTo(History \cup Today, q.ask.end)
  BY <1>2, <1>5, <1>6 DEF UpTo
<1>8. ASSUME NEW t \in ToSet(a), t \in old PROVE t \in Wanted(q, old)
  <2>1. t \in U /\ t \in Today /\ t \in q.known /\ t \in O /\ Cardinality(Above(U, t)) < total
    BY <1>2, <1>5, <1>6, <1>8, TimesAre
  <2>2. Above(O, t) \subseteq Above(U, t)
    <3>1. ASSUME NEW u \in O, u > t PROVE u \in U
      <4>1. u \notin History
        BY <1>4, <2>1, <3>1, TimesAre
      <4> QED BY <1>1, <1>6, <4>1
    <3> QED BY <3>1 DEF Above
  <2>3. IsFiniteSet(Above(U, t))
    BY <1>2, <2>1, UpToIs
  <2>4. /\ Cardinality(Above(O, t)) <= Cardinality(Above(U, t))
        /\ Cardinality(Above(O, t)) \in Nat /\ Cardinality(Above(U, t)) \in Nat
    BY <2>2, <2>3, AboveGrows
  <2>5. Cardinality(Above(O, t)) < total
    BY <1>1, <2>1, <2>4
  <2> QED BY <1>4, <2>1, <2>5
<1>9. ASSUME NEW t \in Wanted(q, old), a[1] <= t PROVE t \in ToSet(a)
  <2>1. a[1] \in ToSet(a) /\ a[1] \in Nat
    BY <1>1, <1>5, FirstIs
  <2>2. /\ a[1] \in U /\ a[1] \in Today /\ Cardinality(Above(U, a[1])) < total
        /\ t \in O /\ t \in Nat
    BY <1>2, <1>4, <1>5, <1>9, <2>1
  <2>3. t \in q.known /\ t \in U
    BY <1>1, <1>6, <1>9, <2>2, TimesAre
  <2>4. Above(U, t) \subseteq Above(U, a[1])
    <3>1. \A u \in U : u \in Nat /\ (u > t => u > a[1])
      BY <1>2, <1>9, <2>1, <2>2
    <3> QED BY <3>1 DEF Above
  <2>5. IsFiniteSet(Above(U, a[1]))
    BY <1>2, <2>1, UpToIs
  <2>6. /\ Cardinality(Above(U, t)) <= Cardinality(Above(U, a[1]))
        /\ Cardinality(Above(U, t)) \in Nat /\ Cardinality(Above(U, a[1])) \in Nat
    BY <2>4, <2>5, AboveGrows
  <2>7. Cardinality(Above(U, t)) < total
    BY <1>1, <2>2, <2>6
  <2> QED BY <1>5, <2>3, <2>7
<1>10. Complete(q, a)
  <2>1. {t \in Wanted(q, old) : a[1] <= t} \subseteq ToSet(a)
    BY <1>9
  <2>2. Len(a) >= total
    BY <1>1, <1>5
  <2> QED BY <1>5, <1>7, <1>8, <2>1, <2>2, CompleteIf
<1> QED BY <1>5, <1>10 DEF a, U

\* Bars of the day from the start of the interval on: those of the interval.
LEMMA CompleteLocalTime ==
    ASSUME NEW q \in Handlers, q.ask \in Queries, q.ask.kind = "time",
           NEW B \in SUBSET Today, IsFiniteSet(B), GrownTo(q.known, B),
           NEW first \in q.known, first <= q.ask.start
    PROVE  BarsBetween(B, q.ask.start, q.ask.end) \in Seq(Nat)
           /\ Complete(q, BarsBetween(B, q.ask.start, q.ask.end))
<1> DEFINE old == History \cup q.known
           U == {t \in B : q.ask.start <= t /\ t <= q.ask.end}
           O == UpTo(old, q.ask.end)
           a == BarsBetween(B, q.ask.start, q.ask.end)
<1>1. /\ q.known \subseteq B /\ B \in SUBSET Nat /\ IsFiniteSet(q.known)
      /\ q.known \in SUBSET Nat /\ q.ask.start \in Nat
  BY TimesAre, AboveGrows DEF Queries, GrownTo
<1>2. U \in SUBSET Nat /\ IsFiniteSet(U)
  BY <1>1, AboveGrows
<1>3. a \in Seq(Nat) /\ Increasing(a) /\ ToSet(a) = U
  BY <1>2, AscendingSet DEF BarsBetween
<1>4. Wanted(q, old) = {t \in O : q.ask.start <= t}
  BY <1>1, WantedIs
<1> HIDE DEF a
<1>5. Wanted(q, old) = ToSet(a) \cap old
  <2>1. ASSUME NEW h \in History PROVE ~(q.ask.start <= h)
    <3>1. h < first /\ h \in Nat /\ first \in Nat
      BY <1>1, <2>1, TimesAre
    <3> QED BY <1>1, <3>1
  <2> QED BY <1>1, <1>3, <1>4, <2>1 DEF UpTo
<1>6. ToSet(a) \subseteq UpTo(History \cup Today, q.ask.end)
  BY <1>3 DEF UpTo
<1>7. Complete(q, a)
  BY <1>3, <1>5, <1>6, CompleteIf
<1> QED BY <1>3, <1>7 DEF a

\* No bar of the day is old enough: the last bars the cache server has.
LEMMA CompleteRemoteCount ==
    ASSUME NEW q \in Handlers, q.ask \in Queries, q.ask.kind = "count", IsFiniteSet(q.known),
           NEW X \in SUBSET Today, IsFiniteSet(X),
           Cardinality(UpTo(q.known, q.ask.end)) = 0 \/ q.ask.total = 0
    PROVE  Complete(q, LastBars(UpTo(History \cup X, q.ask.end), q.ask.total))
<1> DEFINE old == History \cup q.known
           total == q.ask.total
           U == UpTo(History \cup X, q.ask.end)
           O == UpTo(old, q.ask.end)
           a == LastBars(U, total)
<1>1. total \in Nat /\ X \in SUBSET Nat /\ q.known \in SUBSET Nat
  BY TimesAre DEF Queries, Handlers
<1>2. U \in SUBSET Nat /\ IsFiniteSet(U)
  <2>1. History \cup X \in SUBSET Nat /\ IsFiniteSet(History \cup X)
    BY <1>1, TimesAre, FS_Union
  <2> QED BY <2>1, UpToSubset
<1>3. /\ O \in SUBSET Nat /\ IsFiniteSet(O)
      /\ Wanted(q, old) = {t \in O : Cardinality(Above(O, t)) < total}
  BY WantedIs
<1>4. /\ a \in Seq(Nat) /\ Increasing(a)
      /\ ToSet(a) = {t \in U : Cardinality(Above(U, t)) < total}
      /\ Len(a) = IF Cardinality(U) > total THEN total ELSE Cardinality(U)
      /\ Cardinality(U) \in Nat
  BY <1>1, <1>2, LastBarsIs, FS_CardinalityType
<1>5. ToSet(a) \subseteq UpTo(History \cup Today, q.ask.end)
  BY <1>4 DEF UpTo
<1>6. /\ \A t \in U : t <= q.ask.end
      /\ \A t \in old : t <= q.ask.end => t \in O
      /\ \A t \in History : t <= q.ask.end => t \in U
  BY DEF UpTo
<1>7. total # 0 => O \subseteq U
  <2>1. ASSUME total # 0 PROVE UpTo(q.known, q.ask.end) = {}
    BY <1>1, <2>1, UpToSubset, FS_EmptySet
  <2> QED BY <2>1 DEF UpTo
<1> SUFFICES Complete(q, a)
  OBVIOUS
<1> HIDE DEF U, O, a
<1>8. CASE total = 0
  <2>1. ToSet(a) = {}
    <3>1. \A t \in U : Cardinality(Above(U, t)) \in Nat
      BY <1>2, UpToIs
    <3> QED BY <1>4, <1>8, <3>1
  <2>2. Wanted(q, old) = {}
    <3>1. \A t \in O : Cardinality(Above(O, t)) \in Nat
      BY <1>3, UpToIs
    <3> QED BY <1>3, <1>8, <3>1
  <2> QED BY <1>4, <1>5, <2>1, <2>2, CompleteIf
<1>9. CASE total # 0
  <2>1. O \subseteq U /\ total > 0
    BY <1>1, <1>7, <1>9
  <2>2. ASSUME NEW t \in ToSet(a), t \in old PROVE t \in Wanted(q, old)
    <3>1. t \in U /\ t \in O /\ t \in Nat /\ Cardinality(Above(U, t)) < total
      BY <1>2, <1>4, <1>6, <2>2
    <3>2. Above(O, t) \subseteq Above(U, t) /\ IsFiniteSet(Above(U, t))
      BY <1>2, <2>1, <3>1, UpToIs DEF Above
    <3>3. /\ Cardinality(Above(O, t)) <= Cardinality(Above(U, t))
          /\ Cardinality(Above(O, t)) \in Nat /\ Cardinality(Above(U, t)) \in Nat
      BY <3>2, AboveGrows
    <3>4. Cardinality(Above(O, t)) < total
      BY <1>1, <3>1, <3>3
    <3> QED BY <1>3, <3>1, <3>4
  <2>3. CASE Cardinality(U) <= total
    <3>1. U \subseteq ToSet(a)
      <4> SUFFICES ASSUME NEW t \in U PROVE Cardinality(Above(U, t)) < total
        BY <1>4
      <4>1. /\ Cardinality(UpTo(U, t)) \in 1..Cardinality(U)
            /\ Cardinality(Above(U, t)) = Cardinality(U) - Cardinality(UpTo(U, t))
        BY <1>2, RankIs, UpToIs
      <4> QED BY <1>1, <1>4, <2>3, <4>1
    <3>2. Wanted(q, old) \subseteq ToSet(a)
      BY <1>3, <2>1, <3>1
    <3> QED BY <1>4, <1>5, <2>2, <3>2, CompleteIf
  <2>4. CASE Cardinality(U) > total
    <3>1. Len(a) = total
      BY <1>4, <2>4
    <3>2. a[1] \in ToSet(a) /\ a[1] \in Nat
      BY <1>4, <2>1, <3>1, FirstIs
    <3>3. ASSUME NEW t \in Wanted(q, old), a[1] <= t PROVE t \in ToSet(a)
      <4>1. t \in U /\ t \in Nat /\ a[1] \in U /\ Cardinality(Above(U, a[1])) < total
        BY <1>2, <1>3, <1>4, <2>1, <3>2
      <4>2. Above(U, t) \subseteq Above(U, a[1])
        <5>1. \A u \in U : u \in Nat /\ (u > t => u > a[1])
          BY <1>2, <3>2, <3>3, <4>1
        <5> QED BY <5>1 DEF Above
      <4>3. IsFiniteSet(Above(U, a[1]))
        BY <1>2, <3>2, UpToIs
      <4>4. /\ Cardinality(Above(U, t)) <= Cardinality(Above(U, a[1]))
            /\ Cardinality(Above(U, t)) \in Nat /\ Cardinality(Above(U, a[1])) \in Nat
        BY <4>2, <4>3, AboveGrows
      <4>5. Cardinality(Above(U, t)) < total
        BY <1>1, <4>1, <4>4
      <4> QED BY <1>4, <4>1, <4>5
    <3>4. {t \in Wanted(q, old) : a[1] <= t} \subseteq ToSet(a)
      BY <3>3
    <3>5. Len(a) >= total
      BY <1>1, <3>1
    <3> QED BY <1>4, <1>5, <2>2, <3>4, <3>5, CompleteIf
  <2> QED BY <1>1, <1>4, <2>3, <2>4
<1> QED BY <1>8, <1>9

LEMMA CompleteRemoteTime ==
    ASSUME NEW q \in Handlers, q.ask \in Queries, q.ask.kind = "time", IsFiniteSet(q.known),
           NEW X \in SUBSET Today, IsFiniteSet(X),
           Cardinality(UpTo(q.known, q.ask.end)) = 0
    PROVE  Complete(q, BarsBetween(History \cup X, q.ask.start, q.ask.end))
<1> DEFINE old == History \cup q.known
           U == {t \in History \cup X : q.ask.start <= t /\ t <= q.ask.end}
           O == UpTo(old, q.ask.end)
           a == BarsBetween(History \cup X, q.ask.start, q.ask.end)
<1>1. X \in SUBSET Nat /\ q.known \in SUBSET Nat
  BY TimesAre DEF Handlers
<1>2. U \in SUBSET Nat /\ IsFiniteSet(U)
  <2>1. History \cup X \in SUBSET Nat /\ IsFiniteSet(History \cup X) /\ U \subseteq History \cup X
    BY <1>1, TimesAre, FS_Union
  <2> QED BY <2>1, AboveGrows
<1>3. a \in Seq(Nat) /\ Increasing(a) /\ ToSet(a) = U
  BY <1>2, AscendingSet DEF BarsBetween
<1>4. Wanted(q, old) = {t \in O : q.ask.start <= t}
  BY WantedIs
<1>5. UpTo(q.known, q.ask.end) = {}
  BY <1>1, UpToSubset, FS_EmptySet
<1> HIDE DEF a
<1>6. Wanted(q, old) \subseteq ToSet(a)
  BY <1>3, <1>4, <1>5 DEF UpTo
<1>7. ToSet(a) \cap old \subseteq Wanted(q, old)
  BY <1>3, <1>4 DEF UpTo
<1>8. ToSet(a) \subseteq UpTo(History \cup Today, q.ask.end)
  BY <1>3 DEF UpTo
<1>9. Complete(q, a)
  BY <1>3, <1>6, <1>7, <1>8, CompleteIf
<1> QED BY <1>9 DEF a

\* Too few bars of the day: those of the cache server before the first of the day, and
\* then the bars of the day at the moment of the join.
LEMMA JoinedBars ==
    ASSUME NEW q \in Handlers, q.ask \in Queries,
           NEW B \in SUBSET Today, IsFiniteSet(B), GrownTo(q.known, B) \/ (q.spoiled /\ B = {}),
           IsFiniteSet(q.known), NEW X, Newer(q.known, X), NEW first \in q.known, \A t \in q.known : first <= t, q.cacheEnd = first - 1,
           Cardinality(UpTo(q.known, q.ask.end)) > 0
    PROVE  /\ UpTo(History \cup X, q.cacheEnd) = History
           /\ \A h \in History : h <= first - 1 /\ h <= q.ask.end
           /\ IsFiniteSet(q.known) /\ q.known \in SUBSET Nat /\ first \in Today
           /\ UpTo(B, q.ask.end) \in SUBSET Nat /\ IsFiniteSet(UpTo(B, q.ask.end))
<1>1. /\ B \in SUBSET Nat /\ q.known \in SUBSET Nat /\ X \in SUBSET Nat
      /\ first \in Today /\ first \in Nat /\ q.ask.end \in Nat
  BY TimesAre DEF Queries, Handlers, Newer
<1>2. ASSUME NEW h \in History PROVE h <= first - 1 /\ h <= q.ask.end
  <2>1. UpTo(q.known, q.ask.end) # {}
    BY FS_EmptySet
  <2>2. PICK t \in q.known : t <= q.ask.end
    BY <2>1 DEF UpTo
  <2>3. h \in Nat /\ t \in Nat /\ h < t /\ h < first
    BY <1>1, <2>2, TimesAre
  <2> QED BY <1>1, <2>2, <2>3
<1>3. ASSUME NEW x \in X PROVE ~(x <= first - 1)
  <2>1. x \in Nat /\ first <= x
    <3>1. CASE x \in q.known
      BY <1>1, <3>1
    <3>2. CASE x \notin q.known
      <4>1. x \in Nat /\ first < x
        BY <1>1, <3>2 DEF Newer, GrownTo
      <4> QED BY <1>1, <4>1
    <3> QED BY <3>1, <3>2
  <2> QED BY <1>1, <2>1
<1>4. UpTo(History \cup X, q.cacheEnd) = History
  BY <1>2, <1>3 DEF UpTo
<1>5. UpTo(B, q.ask.end) \in SUBSET Nat /\ IsFiniteSet(UpTo(B, q.ask.end))
  BY <1>1, UpToSubset
<1> QED BY <1>1, <1>2, <1>4, <1>5

LEMMA CompleteJoinCount ==
    ASSUME NEW q \in Handlers, q.ask \in Queries, q.ask.kind = "count",
           NEW B \in SUBSET Today, IsFiniteSet(B), GrownTo(q.known, B) \/ (q.spoiled /\ B = {}),
           IsFiniteSet(q.known), NEW X, Newer(q.known, X), NEW first \in q.known, \A t \in q.known : first <= t, q.cacheEnd = first - 1,
           Cardinality(UpTo(q.known, q.ask.end)) > 0,
           Cardinality(UpTo(q.known, q.ask.end)) < q.ask.total,
           q.cacheCount = q.ask.total - Cardinality(UpTo(q.known, q.ask.end))
    PROVE  LET a == LastBars(UpTo(History \cup X, q.cacheEnd), q.cacheCount)
                      \o Ascending(UpTo(B, q.ask.end))
           IN  a \in Seq(Nat) /\ Complete(q, a)
<1> DEFINE old == History \cup q.known
           total == q.ask.total
           K == UpTo(q.known, q.ask.end)
           n == Cardinality(K)
           O == UpTo(old, q.ask.end)
           N == UpTo(B, q.ask.end)
           s == LastBars(UpTo(History \cup X, q.cacheEnd), q.cacheCount)
           t0 == Ascending(N)
           a == s \o t0
<1>1. /\ UpTo(History \cup X, q.cacheEnd) = History
      /\ \A h \in History : h <= first - 1 /\ h <= q.ask.end
      /\ IsFiniteSet(q.known) /\ q.known \in SUBSET Nat /\ first \in Today
      /\ N \in SUBSET Nat /\ IsFiniteSet(N)
  BY JoinedBars
<1>2. /\ K \in SUBSET Nat /\ IsFiniteSet(K) /\ n \in Nat /\ K \subseteq q.known
      /\ total \in Nat /\ q.cacheCount = total - n /\ n > 0 /\ n < total
      /\ q.known \subseteq Today
  BY <1>1, UpToSubset DEF Queries, Handlers
<1>3. q.cacheCount \in Nat
  BY <1>2
<1>4. /\ s \in Seq(Nat) /\ Increasing(s)
      /\ ToSet(s) = {h \in History : Cardinality(Above(History, h)) < q.cacheCount}
  BY <1>1, <1>3, TimesAre, LastBarsIs
<1>5. t0 \in Seq(Nat) /\ Increasing(t0) /\ ToSet(t0) = N
  BY <1>1, AscendingSet
<1>6. /\ \A t \in N : t \in B /\ t \in Today /\ t <= q.ask.end
      /\ ~q.spoiled \/ B # {} => \A t \in q.known : t <= q.ask.end => t \in N
      /\ \A t \in q.known : t <= q.ask.end => t \in K
      /\ \A t \in K : t \in q.known /\ t <= q.ask.end
      /\ \A t \in O : t \in old /\ t <= q.ask.end
      /\ \A t \in old : t <= q.ask.end => t \in O
  BY DEF UpTo, GrownTo
<1>7. /\ O \in SUBSET Nat /\ IsFiniteSet(O)
      /\ Wanted(q, old) = {t \in O : Cardinality(Above(O, t)) < total}
  BY <1>1, WantedIs
<1> SUFFICES a \in Seq(Nat) /\ Complete(q, a)
  OBVIOUS
<1> HIDE DEF s, t0, K, O, N, n
<1>8. /\ a \in Seq(Nat) /\ Increasing(a) /\ ToSet(a) = ToSet(s) \cup N
  <2>1. \A x \in ToSet(s), y \in ToSet(t0) : x < y
    BY <1>4, <1>5, <1>6, TimesAre
  <2> QED BY <1>4, <1>5, <2>1, ConcatRuns
<1> HIDE DEF a
<1>9. ToSet(a) \subseteq UpTo(History \cup Today, q.ask.end)
  BY <1>1, <1>4, <1>6, <1>8 DEF UpTo
<1>10. K \in SUBSET O
  BY <1>6
<1>11. ASSUME NEW h \in History
       PROVE  /\ h \in O /\ Above(O, h) = Above(History, h) \cup K
              /\ Cardinality(Above(O, h)) = Cardinality(Above(History, h)) + n
              /\ Cardinality(Above(History, h)) \in Nat
  <2>1. h \in Nat /\ h \in O
    BY <1>1, <1>6, TimesAre
  <2>2. \A t \in K : t > h
    BY <1>2, <2>1, TimesAre
  <2>3. \A u \in O : u \in History \/ u \in K
    BY <1>6
  <2>4. \A u \in History : u \in O
    BY <1>1, <1>6
  <2>5. Above(O, h) = Above(History, h) \cup K
    BY <1>10, <2>2, <2>3, <2>4 DEF Above
  <2>6. IsFiniteSet(Above(History, h)) /\ Cardinality(Above(History, h)) \in Nat
    BY <2>1, TimesAre, UpToIs
  <2>7. Above(History, h) \cap K = {}
    BY <1>2, TimesAre DEF Above
  <2>8. Cardinality(Above(History, h) \cap K) = 0
    BY <2>7, FS_EmptySet
  <2>9. Cardinality(Above(O, h)) = Cardinality(Above(History, h)) + Cardinality(K) - 0
    BY <1>2, <2>5, <2>6, <2>8, FS_Union
  <2> QED BY <1>2, <2>1, <2>5, <2>6, <2>9 DEF n
<1>12. ASSUME NEW t \in K
       PROVE  Cardinality(Above(O, t)) < total
  <2>1. Above(O, t) \subseteq K
    <3>1. ASSUME NEW u \in O, u > t PROVE u \in K
      <4>1. t \in Today /\ t \in Nat /\ u \in Nat
        BY <1>2, <1>7
      <4>2. u \notin History
        BY <3>1, <4>1, TimesAre
      <4> QED BY <1>6, <4>2
    <3> QED BY <3>1 DEF Above
  <2>2. Cardinality(Above(O, t)) <= n /\ Cardinality(Above(O, t)) \in Nat
    BY <1>2, <2>1, AboveGrows DEF n
  <2> QED BY <1>2, <2>2
<1>13. ASSUME NEW t \in ToSet(a), t \in old PROVE t \in Wanted(q, old)
  <2>1. CASE t \in ToSet(s)
    <3>1. t \in History /\ Cardinality(Above(History, t)) < q.cacheCount
      BY <1>4, <2>1
    <3>2. t \in O /\ Cardinality(Above(O, t)) < total
      BY <1>2, <1>11, <3>1
    <3> QED BY <1>7, <3>2
  <2>2. CASE t \in N
    <3>1. t \in q.known /\ t \in K
      BY <1>6, <1>13, <2>2, TimesAre
    <3> QED BY <1>7, <1>10, <1>12, <3>1
  <2> QED BY <1>8, <1>13, <2>1, <2>2
<1>14. ASSUME NEW t \in Promised(q, old) PROVE t \in ToSet(a)
  <2>0. t \in Wanted(q, old) /\ (q.spoiled => t \notin Today)
    BY <1>14 DEF Promised
  <2>1. t \in O /\ Cardinality(Above(O, t)) < total
    BY <1>7, <2>0
  <2>2. CASE t \in History
    <3>1. Cardinality(Above(History, t)) < q.cacheCount
      BY <1>2, <1>11, <2>1, <2>2
    <3> QED BY <1>4, <1>8, <2>2, <3>1
  <2>3. CASE t \notin History
    <3>1. t \in q.known /\ t \in Today /\ t <= q.ask.end
      BY <1>2, <1>6, <2>1, <2>3
    <3> QED BY <1>6, <1>8, <2>0, <3>1
  <2> QED BY <2>2, <2>3
<1>15. Promised(q, old) \subseteq ToSet(a)
  BY <1>14
<1> QED BY <1>8, <1>9, <1>13, <1>15, CompleteIfPromised

LEMMA CompleteJoinTime ==
    ASSUME NEW q \in Handlers, q.ask \in Queries, q.ask.kind = "time",
           NEW B \in SUBSET Today, IsFiniteSet(B), GrownTo(q.known, B) \/ (q.spoiled /\ B = {}),
           IsFiniteSet(q.known), NEW X, Newer(q.known, X), NEW first \in q.known, \A t \in q.known : first <= t, q.cacheEnd = first - 1,
           Cardinality(UpTo(q.known, q.ask.end)) > 0, q.ask.start < first
    PROVE  LET a == BarsBetween(History \cup X, q.ask.start, q.cacheEnd)
                      \o Ascending(UpTo(B, q.ask.end))
           IN  a \in Seq(Nat) /\ Complete(q, a)
<1> DEFINE old == History \cup q.known
           O == UpTo(old, q.ask.end)
           N == UpTo(B, q.ask.end)
           P == {t \in History \cup X : q.ask.start <= t /\ t <= q.cacheEnd}
           s == BarsBetween(History \cup X, q.ask.start, q.cacheEnd)
           t0 == Ascending(N)
           a == s \o t0
<1>1. /\ UpTo(History \cup X, q.cacheEnd) = History
      /\ \A h \in History : h <= first - 1 /\ h <= q.ask.end
      /\ IsFiniteSet(q.known) /\ q.known \in SUBSET Nat /\ first \in Today
      /\ N \in SUBSET Nat /\ IsFiniteSet(N)
  BY JoinedBars
<1>2. P = {h \in History : q.ask.start <= h}
  BY <1>1 DEF UpTo
<1>3. P \in SUBSET Nat /\ IsFiniteSet(P)
  BY <1>2, TimesAre, AboveGrows
<1>4. s \in Seq(Nat) /\ Increasing(s) /\ ToSet(s) = P
  BY <1>3, AscendingSet DEF BarsBetween
<1>5. t0 \in Seq(Nat) /\ Increasing(t0) /\ ToSet(t0) = N
  BY <1>1, AscendingSet
<1>6. /\ \A t \in N : t \in B /\ t \in Today /\ t <= q.ask.end
      /\ ~q.spoiled \/ B # {} => \A t \in q.known : t <= q.ask.end => t \in N
  BY DEF UpTo, GrownTo
<1>7. Wanted(q, old) = {t \in O : q.ask.start <= t}
  BY <1>1, WantedIs
<1>8. \A t \in q.known : q.ask.start <= t
  <2>1. q.ask.start \in Nat /\ first \in Nat /\ \A t \in q.known : t \in Nat /\ first <= t
    BY <1>1 DEF Queries
  <2> QED BY <2>1
<1> SUFFICES a \in Seq(Nat) /\ Complete(q, a)
  OBVIOUS
<1> HIDE DEF s, t0, N, P
<1>9. /\ a \in Seq(Nat) /\ Increasing(a) /\ ToSet(a) = P \cup N
  <2>1. \A x \in ToSet(s), y \in ToSet(t0) : x < y
    BY <1>2, <1>4, <1>5, <1>6, TimesAre
  <2> QED BY <1>4, <1>5, <2>1, ConcatRuns
<1> HIDE DEF a
<1>10. ToSet(a) \subseteq UpTo(History \cup Today, q.ask.end)
  BY <1>1, <1>2, <1>6, <1>9 DEF UpTo
<1>11. ASSUME NEW t \in ToSet(a), t \in old PROVE t \in Wanted(q, old)
  <2>1. CASE t \in P
    BY <1>1, <1>2, <1>7, <2>1 DEF UpTo
  <2>2. CASE t \in N
    <3>1. t \in q.known /\ t <= q.ask.end
      BY <1>6, <1>11, <2>2, TimesAre
    <3> QED BY <1>7, <1>8, <3>1 DEF UpTo
  <2> QED BY <1>9, <1>11, <2>1, <2>2
<1>12. ASSUME NEW t \in Promised(q, old) PROVE t \in ToSet(a)
  <2>1. /\ t \in old /\ t <= q.ask.end /\ q.ask.start <= t
        /\ q.spoiled => t \notin Today
    BY <1>7, <1>12 DEF Promised, UpTo
  <2>2. CASE t \in History
    BY <1>2, <1>9, <2>1, <2>2
  <2>3. CASE t \in q.known
    <3>1. t \in Today
      BY <2>3 DEF Handlers
    <3> QED BY <1>6, <1>9, <2>1, <2>3, <3>1
  <2> QED BY <2>1, <2>2, <2>3
<1>13. Promised(q, old) \subseteq ToSet(a)
  BY <1>12
<1> QED BY <1>9, <1>10, <1>11, <1>13, CompleteIfPromised

\* ClearCache has taken the bars of the day that would have sufficed: no older bar was
\* wanted, and none is sent.
LEMMA CompleteCleared ==
    ASSUME NEW q \in Handlers, q.ask \in Queries, q.spoiled, Planned(q), q.pc = "local",
           NEW a \in Seq(Nat), ToSet(a) = {}, Increasing(a)
    PROVE  Complete(q, a)
<1> DEFINE old == History \cup q.known
           O == UpTo(old, q.ask.end)
           K == UpTo(q.known, q.ask.end)
<1>1. /\ IsFiniteSet(q.known) /\ q.known \in SUBSET Today /\ q.known \in SUBSET Nat
      /\ q.ask.kind \in {"count", "time"} /\ q.ask.total \in Nat /\ q.ask.start \in Nat
  BY TimesAre DEF Planned, Handlers, Queries
<1>2. /\ O \in SUBSET Nat /\ IsFiniteSet(O)
      /\ Wanted(q, old) = IF q.ask.kind = "count"
                          THEN {t \in O : Cardinality(Above(O, t)) < q.ask.total}
                          ELSE {t \in O : q.ask.start <= t}
  BY <1>1, WantedIs
<1>3. /\ \A t \in K : t \in O /\ t \in Today
      /\ \A t \in O : t \in History \/ t \in Today
  BY <1>1 DEF UpTo
<1> HIDE DEF O, K
<1>4. ASSUME NEW h \in History PROVE h \notin Wanted(q, old)
  <2>1. CASE q.ask.kind = "count"
    <3>1. Cardinality(K) >= q.ask.total
      BY <2>1 DEF Planned, K
    <3>2. \A t \in K : t > h
      BY <1>1, <1>3, TimesAre
    <3>3. h \in Nat /\ K \subseteq Above(O, h)
      BY <1>3, <3>2, TimesAre DEF Above
    <3>4. ASSUME h \in O PROVE ~(Cardinality(Above(O, h)) < q.ask.total)
      <4>1. IsFiniteSet(Above(O, h))
        BY <1>2, <3>3, UpToIs
      <4>2. /\ Cardinality(K) <= Cardinality(Above(O, h))
            /\ Cardinality(K) \in Nat /\ Cardinality(Above(O, h)) \in Nat
        BY <3>3, <4>1, AboveGrows
      <4> QED BY <1>1, <3>1, <4>2
    <3> QED BY <1>2, <2>1, <3>4
  <2>2. CASE q.ask.kind = "time"
    <3>1. PICK first \in q.known : first <= q.ask.start
      BY <2>2 DEF Planned
    <3>2. h \in Nat /\ first \in Nat /\ h < first
      BY <1>1, TimesAre
    <3>3. ~(q.ask.start <= h)
      BY <1>1, <3>1, <3>2
    <3> QED BY <1>2, <2>2, <3>3
  <2> QED BY <1>1, <2>1, <2>2
<1>5. Wanted(q, old) \subseteq Today
  BY <1>2, <1>3, <1>4
<1>6. Promised(q, old) = {}
  BY <1>5 DEF Promised
<1> QED BY <1>6, CompleteIfPromised

-----------------------------------------------------------------------------
(* Types *)

LEMMA EmptyIsSeq == <<>> \in Seq(Nat) /\ Len(<<>>) = 0
BY EmptySeq

LEMMA IdleIs == Idle \in Handlers
BY EmptyIsSeq DEF Idle, Handlers, Pcs, NoAsk

LEMMA BarsAre ==
    ASSUME Types, NEW X \in SUBSET bars
    PROVE  /\ X \in SUBSET Nat /\ IsFiniteSet(X) /\ X \in SUBSET Today
           /\ History \cup X \in SUBSET Nat /\ IsFiniteSet(History \cup X)
<1>1. X \in SUBSET Nat /\ IsFiniteSet(X) /\ X \in SUBSET Today
  BY TimesAre, AboveGrows DEF Types
<1> QED BY <1>1, TimesAre, FS_Union

LEMMA BarsBetweenType ==
    ASSUME NEW S \in SUBSET Nat, IsFiniteSet(S), NEW start, NEW end
    PROVE  BarsBetween(S, start, end) \in Seq(Nat)
<1>1. {t \in S : start <= t /\ t <= end} \in SUBSET Nat
      /\ IsFiniteSet({t \in S : start <= t /\ t <= end})
  BY AboveGrows
<1> QED BY <1>1, AscendingSet DEF BarsBetween

LEMMA OlderType ==
    ASSUME Types, NEW q \in Handlers, NEW X \in SUBSET bars
    PROVE  Older(q, History \cup X) \in Seq(Nat)
<1>1. History \cup X \in SUBSET Nat /\ IsFiniteSet(History \cup X)
  BY BarsAre
<1>2. /\ UpTo(History \cup X, q.cacheEnd) \in SUBSET Nat
      /\ IsFiniteSet(UpTo(History \cup X, q.cacheEnd)) /\ q.cacheCount \in Nat
  BY <1>1, UpToSubset DEF Handlers
<1>3. LastBars(UpTo(History \cup X, q.cacheEnd), q.cacheCount) \in Seq(Nat)
  BY <1>2, LastBarsIs
<1> QED BY <1>1, <1>3, BarsBetweenType DEF Older

LEMMA LocalType ==
    ASSUME Types, NEW ask \in Queries
    PROVE  LocalBars(ask) \in Seq(Nat)
<1>1. bars \in SUBSET Nat /\ IsFiniteSet(bars) /\ ask.total \in Nat
  BY BarsAre DEF Queries
<1>2. LastBars(UpTo(bars, ask.end), ask.total) \in Seq(Nat)
  BY <1>1, UpToSubset, LastBarsIs
<1> QED BY <1>1, <1>2, BarsBetweenType DEF LocalBars

LEMMA NativeType ==
    ASSUME Types, NEW q \in Handlers
    PROVE  NativeBars(q) \in Seq(Nat)
<1>1. UpTo(bars, q.ask.end) \in SUBSET Nat /\ IsFiniteSet(UpTo(bars, q.ask.end))
  <2>1. bars \in SUBSET Nat /\ IsFiniteSet(bars)
    BY BarsAre
  <2> QED BY <2>1, UpToSubset
<1> QED BY <1>1, AscendingSet, EmptyIsSeq DEF NativeBars

\* The query of an active handler.
LEMMA AskIs ==
    ASSUME Types, AskInv, NEW r \in Requests
    PROVE  /\ req[r] \in Handlers /\ req[r].known \in SUBSET Today
           /\ req[r].pc # "idle" => req[r].ask \in Queries
BY AsksAssumption DEF Types, AskInv, Handlers, Queries

\* What Decide decides.
Decided(q, p) ==
    /\ q \in Handlers /\ q.ask = p.ask /\ q.id = p.id /\ q.spoiled = p.spoiled
    /\ q.older = p.older
    /\ \/ q.pc = "answered" /\ q.known = p.known /\ p.ask.kind = "time" /\ p.ask.start > p.ask.end
       \/ q.pc \in {"local", "remote"} /\ q.known = counts /\ Planned(q)

LEMMA DecideIs ==
    ASSUME Types, AskInv, NEW r \in Requests, Decide(r)
    PROVE  \E q : Decided(q, req[r]) /\ req' = [req EXCEPT ![r] = q]
<1> DEFINE p == req[r]
           ask == p.ask
           n == Cardinality(UpTo(counts, ask.end))
<1>1. /\ p \in Handlers /\ ask \in Queries /\ p.pc = "asked" /\ req \in [Requests -> Handlers]
      /\ p.native = FALSE
  BY AskIs DEF Decide, Types, AskInv
<1>2. /\ ask.total \in Nat /\ ask.start \in Nat /\ ask.end \in Nat
      /\ ask.kind \in {"count", "time"}
  BY <1>1 DEF Queries
<1>3. /\ counts \in SUBSET Today /\ counts \in SUBSET Nat /\ IsFiniteSet(counts)
      /\ IsFiniteSet(UpTo(counts, ask.end)) /\ n \in Nat
  BY TimesAre, UpToSubset DEF Types
<1>4. n # 0 => /\ First(counts) \in counts /\ First(counts) \in Nat /\ First(counts) - 1 \in Nat
               /\ \A t \in counts : First(counts) <= t
  <2> SUFFICES ASSUME n # 0
               PROVE  /\ First(counts) \in counts /\ First(counts) \in Nat
                      /\ First(counts) - 1 \in Nat /\ \A t \in counts : First(counts) <= t
    OBVIOUS
  <2>1. UpTo(counts, ask.end) # {}
    BY <1>3, FS_EmptySet
  <2>2. counts # {}
    BY <2>1 DEF UpTo
  <2>3. \E x \in counts : \A y \in counts : x <= y
    BY <1>3, <2>2, LeastNumber
  <2>4. First(counts) \in counts /\ \A t \in counts : First(counts) <= t
    BY <2>3 DEF First
  <2>5. First(counts) \in Nat \ {0}
    BY <1>3, <2>4, TimesAssumption
  <2> QED BY <2>4, <2>5
<1> HIDE DEF n
<1>5. CASE ask.kind = "time" /\ ask.start > ask.end
  <2> DEFINE q == [p EXCEPT !.pc = "answered"]
  <2>1. req' = [req EXCEPT ![r] = q]
    BY <1>5 DEF Decide
  <2>2. Decided(q, p)
    BY <1>1, <1>5 DEF Decided, Handlers, Pcs
  <2> QED BY <2>1, <2>2
<1>6. CASE ~(ask.kind = "time" /\ ask.start > ask.end) /\ (n = 0 \/ (ask.kind = "count" /\ ask.total = 0))
  <2> DEFINE q == [p EXCEPT !.pc = "remote", !.cacheCount = ask.total, !.cacheEnd = ask.end,
                            !.known = counts]
  <2>1. req' = [req EXCEPT ![r] = q]
    BY <1>6 DEF Decide, n
  <2>2. /\ q \in Handlers /\ q.ask = ask /\ q.id = p.id /\ q.spoiled = p.spoiled
        /\ q.older = p.older /\ q.pc = "remote" /\ q.known = counts /\ q.native = p.native
        /\ q.cacheCount = ask.total /\ q.cacheEnd = ask.end
    BY <1>1, <1>2, <1>3 DEF Handlers, Pcs
  <2> HIDE DEF q
  <2>3. q.native = FALSE
    BY <1>1, <2>2
  <2>4. Planned(q)
    BY <1>3, <1>6, <2>2, <2>3 DEF Planned, n
  <2> QED BY <2>1, <2>2, <2>4 DEF Decided
<1>7. CASE /\ ~(ask.kind = "time" /\ ask.start > ask.end)
           /\ ~(n = 0 \/ (ask.kind = "count" /\ ask.total = 0))
           /\ CountSuffices(ask, n) \/ TimeSuffices(ask)
  <2> DEFINE q == [p EXCEPT !.pc = "local", !.known = counts]
  <2>1. req' = [req EXCEPT ![r] = q]
    BY <1>7 DEF Decide, n
  <2>2. /\ q \in Handlers /\ q.ask = ask /\ q.id = p.id /\ q.spoiled = p.spoiled
        /\ q.older = p.older /\ q.pc = "local" /\ q.known = counts
    BY <1>1, <1>3 DEF Handlers, Pcs
  <2> HIDE DEF q
  <2>3. /\ n > 0
        /\ ask.kind = "count" => ask.total > 0 /\ n >= ask.total
        /\ ask.kind = "time" => First(counts) <= ask.start
    BY <1>2, <1>3, <1>7 DEF CountSuffices, TimeSuffices, n
  <2>4. Cardinality(UpTo(q.known, q.ask.end)) = n
    BY <2>2 DEF n
  <2>5. ask.kind = "time" =>
          First(counts) \in counts /\ First(counts) <= ask.start
          /\ \A t \in counts : First(counts) <= t
    BY <1>3, <1>4, <2>3
  <2>6. Planned(q)
    BY <1>3, <2>2, <2>3, <2>4, <2>5 DEF Planned
  <2> QED BY <2>1, <2>2, <2>6 DEF Decided
<1>8. CASE /\ ~(ask.kind = "time" /\ ask.start > ask.end)
           /\ ~(n = 0 \/ (ask.kind = "count" /\ ask.total = 0))
           /\ ~(CountSuffices(ask, n) \/ TimeSuffices(ask))
  <2> DEFINE q == [p EXCEPT !.pc = "remote", !.cacheCount = Missing(ask, n),
                            !.cacheEnd = OlderEnd(ask), !.native = TRUE, !.known = counts]
  <2>1. req' = [req EXCEPT ![r] = q]
    BY <1>8 DEF Decide, n
  <2>2. /\ n \in Nat /\ n > 0
        /\ ask.kind = "count" => n < ask.total
        /\ ask.kind = "time" => ask.start < First(counts)
    BY <1>2, <1>3, <1>4, <1>8 DEF CountSuffices, TimeSuffices, n
  <2>3. Missing(ask, n) \in Nat /\ (ask.kind = "count" => Missing(ask, n) = ask.total - n)
    BY <1>2, <2>2 DEF Missing
  <2>4. OlderEnd(ask) \in Nat /\ OlderEnd(ask) = First(counts) - 1
    BY <1>4, <2>2 DEF OlderEnd
  <2>5. /\ q \in Handlers /\ q.ask = ask /\ q.id = p.id /\ q.spoiled = p.spoiled
        /\ q.older = p.older /\ q.pc = "remote" /\ q.known = counts /\ q.native = TRUE
        /\ q.cacheCount = Missing(ask, n) /\ q.cacheEnd = OlderEnd(ask)
    BY <1>1, <1>3, <2>3, <2>4 DEF Handlers, Pcs
  <2> HIDE DEF q
  <2>6. Cardinality(UpTo(q.known, q.ask.end)) = n /\ IsFiniteSet(q.known)
    BY <1>3, <2>5 DEF n
  <2>7. First(counts) \in q.known /\ \A t \in q.known : First(counts) <= t
    BY <1>4, <2>2, <2>5
  <2>8. Planned(q)
    BY <2>2, <2>3, <2>4, <2>5, <2>6, <2>7 DEF Planned
  <2> QED BY <2>1, <2>5, <2>8 DEF Decided
<1> QED BY <1>5, <1>6, <1>7, <1>8

-----------------------------------------------------------------------------
(* The invariant is inductive *)

LEMMA StepCases ==
    ASSUME [Next]_vars
    PROVE  \/ \E r \in Requests : \E ask \in Asks[r] : Ask(r, ask)
           \/ \E r \in Requests : Decide(r)
           \/ \E r \in Requests : AnswerLocally(r)
           \/ \E r \in Requests : SendRequest(r)
           \/ \E r \in Requests : Register(r)
           \/ \E r \in Requests : Join(r)
           \/ \E m \in sent : ServerResponds(m)
           \/ \E m \in responses : TakeResponse(m)
           \/ \E m \in responses : DropResponse(m)
           \/ Disconnect \/ Reconnect
           \/ \E t \in Today : NewBar(t)
           \/ ClearCounts \/ ClearBars \/ ClearPending
           \/ UNCHANGED vars
BY DEF Next, Worker, OnResponse

LEMMA InitIInv == Init => IInv
<1> SUFFICES ASSUME Init PROVE IInv
  OBVIOUS
<1>1. IsFiniteSet({})
  BY FS_EmptySet
<1>2. Types
  BY <1>1, IdleIs, EmptyIsSeq DEF Init, Types
<1>3. \A r \in Requests : req[r] = Idle /\ answer[r] = <<>>
  BY DEF Init
<1> QED BY <1>2, <1>3
        DEF Init, IInv, AskInv, IdInv, ClearInv, PlanInv, ResponseInv, DoneInv, Idle, Waits, Active

\* The handler a reply leaves.
Replied(q) == [Idle EXCEPT !.pc = "answered", !.ask = q.ask, !.known = q.known,
                           !.spoiled = q.spoiled]

LEMMA RepliedIs ==
    ASSUME NEW q \in Handlers
    PROVE  /\ Replied(q) \in Handlers /\ Replied(q).pc = "answered" /\ Replied(q).ask = q.ask
           /\ Replied(q).known = q.known /\ Replied(q).spoiled = q.spoiled
BY IdleIs DEF Replied, Handlers, Pcs

LEMMA TypesStep ==
    ASSUME IInv, [Next]_vars
    PROVE  Types'
<1> USE DEF IInv
<1>0. \A r \in Requests : req[r] \in Handlers
  BY DEF Types
<1>1. ASSUME NEW r \in Requests, NEW ask \in Asks[r], Ask(r, ask) PROVE Types'
  <2> DEFINE q == [Idle EXCEPT !.pc = "asked", !.ask = ask,
                               !.spoiled = clearing \in {"counts", "bars"}]
  <2>1. ask \in Queries
    BY AsksAssumption DEF Queries
  <2>2. q \in Handlers
    <3> DEFINE b == clearing \in {"counts", "bars"}
    <3>1. b \in BOOLEAN
      OBVIOUS
    <3> HIDE DEF b
    <3>2. [Idle EXCEPT !.pc = "asked", !.ask = ask, !.spoiled = b] \in Handlers
      BY <2>1, <3>1, IdleIs DEF Handlers, Pcs
    <3> QED BY <3>2 DEF b
  <2> HIDE DEF q
  <2>3. req' = [req EXCEPT ![r] = q]
    BY <1>1 DEF Ask, q
  <2> QED BY <1>1, <2>2, <2>3 DEF Ask, cache, Types
<1>2. ASSUME NEW r \in Requests, Decide(r) PROVE Types'
  <2>1. PICK q : q \in Handlers /\ req' = [req EXCEPT ![r] = q]
    BY <1>2, DecideIs DEF Decided
  <2>2. UNCHANGED <<cache, link, nextId, pending, sent, responses, answer>>
    BY <1>2 DEF Decide
  <2> QED BY <2>1, <2>2 DEF cache, Types
<1>3. ASSUME NEW r \in Requests, AnswerLocally(r) PROVE Types'
  <2>1. LocalBars(req[r].ask) \in Seq(Nat)
    BY <1>3, AskIs, LocalType DEF AnswerLocally
  <2>2. /\ req' = [req EXCEPT ![r] = Replied(req[r])]
        /\ answer' = [answer EXCEPT ![r] = LocalBars(req[r].ask)]
    BY <1>3 DEF AnswerLocally, Answer, Replied
  <2>3. Replied(req[r]) \in Handlers
    BY <1>0, RepliedIs
  <2> QED BY <1>3, <2>1, <2>2, <2>3 DEF AnswerLocally, cache, Types
<1>4. ASSUME NEW r \in Requests, SendRequest(r) PROVE Types'
  <2>1. /\ [req[r] EXCEPT !.pc = "sent", !.id = nextId] \in Handlers
        /\ [req[r] EXCEPT !.pc = "gone"] \in Handlers
    BY <1>0 DEF Types, Handlers, Pcs
  <2>2. \/ req' = [req EXCEPT ![r] = [req[r] EXCEPT !.pc = "sent", !.id = nextId]]
           /\ sent' = sent \cup {[id |-> nextId, req |-> req[r]]}
        \/ req' = [req EXCEPT ![r] = [req[r] EXCEPT !.pc = "gone"]] /\ sent' = sent
    BY <1>4 DEF SendRequest
  <2>3. req' \in [Requests -> Handlers]
    BY <2>1, <2>2 DEF Types
  <2>4. [id |-> nextId, req |-> req[r]] \in [id : Nat, req : Handlers] /\ nextId' \in Nat
    BY <1>0, <1>4 DEF Types, SendRequest, FreshId
  <2> QED BY <1>4, <2>2, <2>3, <2>4 DEF SendRequest, cache, Types
<1>5. ASSUME NEW r \in Requests, Register(r) PROVE Types'
  <2>1. [req[r] EXCEPT !.pc = "waiting"] \in Handlers
    BY <1>0 DEF Handlers, Pcs
  <2> QED BY <1>5, <2>1 DEF Register, cache, Types
<1>6. ASSUME NEW r \in Requests, Join(r) PROVE Types'
  <2> DEFINE a == req[r].older \o NativeBars(req[r])
  <2>1. a \in Seq(Nat)
    <3>1. req[r].older \in Seq(Nat) /\ NativeBars(req[r]) \in Seq(Nat)
      BY <1>0, NativeType DEF Handlers
    <3> QED BY <3>1, ConcatProperties
  <2>2. /\ req' = [req EXCEPT ![r] = Replied(req[r])]
        /\ answer' = [answer EXCEPT ![r] = a]
    BY <1>6 DEF Join, Answer, Replied
  <2>3. Replied(req[r]) \in Handlers
    BY <1>0, RepliedIs
  <2> HIDE DEF a
  <2> QED BY <1>6, <2>1, <2>2, <2>3 DEF Join, cache, Types
<1>7. ASSUME NEW m \in sent, ServerResponds(m) PROVE Types'
  <2>1. m.id \in Nat /\ m.req \in Handlers
    BY DEF Types
  <2>2. PICK t : responses' = responses \cup {[id |-> m.id, older |-> Older(m.req, History \cup UpTo(bars, t))]}
    BY <1>7 DEF ServerResponds
  <2>3. UpTo(bars, t) \in SUBSET bars
    BY DEF UpTo
  <2>4. Older(m.req, History \cup UpTo(bars, t)) \in Seq(Nat)
    BY <2>1, <2>3, OlderType
  <2>5. responses' \subseteq [id : Nat, older : Seq(Nat)]
    BY <2>1, <2>2, <2>4 DEF Types
  <2> QED BY <1>7, <2>5 DEF ServerResponds, cache, Types
<1>8. ASSUME NEW m \in responses, TakeResponse(m) PROVE Types'
  <2> DEFINE r == pending[m.id]
  <2>1. r \in Requests /\ m.older \in Seq(Nat)
    BY <1>8 DEF TakeResponse, IdInv, Types
  <2>2. [req[r] EXCEPT !.pc = "joining", !.older = m.older] \in Handlers
    BY <1>0, <2>1 DEF Handlers, Pcs
  <2>3. req' = [req EXCEPT ![r] = [req[r] EXCEPT !.pc = "joining", !.older = m.older]]
    BY <1>8 DEF TakeResponse
  <2> HIDE DEF r
  <2> QED BY <1>8, <2>1, <2>2, <2>3 DEF TakeResponse, cache, Types
<1>9. ASSUME NEW m \in responses, DropResponse(m) PROVE Types'
  BY <1>9 DEF DropResponse, cache, Types
<1>10. CASE Disconnect \/ Reconnect \/ ClearPending
  BY <1>10 DEF Disconnect, Reconnect, ClearPending, cache, Types
<1>11. ASSUME NEW t \in Today, NewBar(t) PROVE Types'
  <2>1. IsFiniteSet(bars \cup {t}) /\ IsFiniteSet(counts \cup {t})
    BY FS_AddElement DEF Types
  <2> QED BY <1>11, <2>1 DEF NewBar, Types
<1>12. CASE ClearCounts
  <2>1. \A r \in Requests : [req[r] EXCEPT !.spoiled = TRUE] \in Handlers
    BY <1>0 DEF Handlers
  <2> QED BY <1>12, <2>1, FS_EmptySet DEF ClearCounts, SpoilAll, Types
<1>13. CASE ClearBars
  BY <1>13, FS_EmptySet DEF ClearBars, Types
<1>14. CASE UNCHANGED vars
  BY <1>14 DEF vars, cache, Types
<1> QED BY <1>1, <1>2, <1>3, <1>4, <1>5, <1>6, <1>7, <1>8, <1>9, <1>10, <1>11, <1>12, <1>13,
           <1>14, StepCases

\* What each action does to the handlers.
Only(r) == \A s \in Requests : s # r => req'[s] = req[s]
SameRest(q, p) ==
    /\ q.ask = p.ask /\ q.cacheCount = p.cacheCount /\ q.cacheEnd = p.cacheEnd
    /\ q.native = p.native /\ q.known = p.known /\ q.spoiled = p.spoiled

LEMMA AskEffect ==
    ASSUME Types, NEW r \in Requests, NEW ask, Ask(r, ask)
    PROVE  /\ Only(r) /\ req'[r].pc = "asked" /\ req'[r].ask = ask /\ req'[r].known = {}
           /\ req'[r].native = FALSE
           /\ ~req'[r].spoiled => clearing \notin {"counts", "bars"}
           /\ req[r].pc = "idle"
           /\ UNCHANGED <<counts, bars, clearing, nextId, pending, sent, responses, answer>>
BY IdleIs DEF Ask, Types, Only, Idle, Handlers, cache

LEMMA DecideEffect ==
    ASSUME Types, AskInv, NEW r \in Requests, Decide(r)
    PROVE  /\ Only(r) /\ Decided(req'[r], req[r]) /\ req[r].pc = "asked"
           /\ UNCHANGED <<counts, bars, clearing, nextId, pending, sent, responses, answer>>
<1>1. PICK q : Decided(q, req[r]) /\ req' = [req EXCEPT ![r] = q]
  BY DecideIs
<1>2. Only(r) /\ req'[r] = q
  BY <1>1 DEF Types, Only
<1> QED BY <1>1, <1>2 DEF Decide, cache

LEMMA ReplyEffect ==
    ASSUME Types, NEW r \in Requests, NEW a, Answer(r, a)
    PROVE  /\ Only(r) /\ req'[r] = Replied(req[r])
           /\ answer'[r] = a /\ \A s \in Requests : s # r => answer'[s] = answer[s]
BY DEF Answer, Replied, Types, Only

LEMMA SendEffect ==
    ASSUME Types, NEW r \in Requests, SendRequest(r)
    PROVE  /\ Only(r) /\ SameRest(req'[r], req[r]) /\ req[r].pc = "remote" /\ nextId' = nextId + 1
           /\ \/ /\ req'[r].pc = "sent" /\ req'[r].id = nextId
                 /\ sent' = sent \cup {[id |-> nextId, req |-> req[r]]}
              \/ req'[r].pc = "gone" /\ sent' = sent
           /\ UNCHANGED <<counts, bars, clearing, pending, responses, answer>>
<1>1. req[r] \in Handlers /\ req \in [Requests -> Handlers]
  BY DEF Types
<1>2. \/ req' = [req EXCEPT ![r] = [req[r] EXCEPT !.pc = "sent", !.id = nextId]]
         /\ sent' = sent \cup {[id |-> nextId, req |-> req[r]]}
      \/ req' = [req EXCEPT ![r] = [req[r] EXCEPT !.pc = "gone"]] /\ sent' = sent
  BY DEF SendRequest
<1>3. Only(r) /\ \/ req'[r] = [req[r] EXCEPT !.pc = "sent", !.id = nextId]
                    /\ sent' = sent \cup {[id |-> nextId, req |-> req[r]]}
                 \/ req'[r] = [req[r] EXCEPT !.pc = "gone"] /\ sent' = sent
  BY <1>1, <1>2 DEF Only
<1> QED BY <1>1, <1>3 DEF SendRequest, FreshId, SameRest, Handlers, cache

LEMMA RegisterEffect ==
    ASSUME Types, NEW r \in Requests, Register(r)
    PROVE  /\ Only(r) /\ SameRest(req'[r], req[r]) /\ req[r].pc = "sent"
           /\ req'[r].pc = "waiting" /\ req'[r].id = req[r].id
           /\ DOMAIN pending' = DOMAIN pending \cup {req[r].id}
           /\ pending'[req[r].id] = r
           /\ \A id \in DOMAIN pending : id # req[r].id => pending'[id] = pending[id]
           /\ UNCHANGED <<counts, bars, clearing, nextId, sent, responses, answer>>
<1>1. req[r] \in Handlers /\ req \in [Requests -> Handlers]
  BY DEF Types
<1>2. req' = [req EXCEPT ![r] = [req[r] EXCEPT !.pc = "waiting"]]
  BY DEF Register
<1>3. Only(r) /\ req'[r] = [req[r] EXCEPT !.pc = "waiting"]
  BY <1>1, <1>2 DEF Only
<1> QED BY <1>1, <1>3 DEF Register, SameRest, Handlers, cache

Taken(m, r) ==
    /\ r = pending[m.id] /\ m.id \in DOMAIN pending
    /\ Only(r) /\ SameRest(req'[r], req[r]) /\ req[r].pc = "waiting"
    /\ req[r].id = m.id /\ req'[r].pc = "joining" /\ req'[r].older = m.older
    /\ DOMAIN pending' = DOMAIN pending \ {m.id}
    /\ \A id \in DOMAIN pending' : pending'[id] = pending[id]
    /\ responses' = responses \ {m}
    /\ UNCHANGED <<counts, bars, clearing, nextId, sent, answer>>

LEMMA TakeEffect ==
    ASSUME Types, IdInv, NEW m \in responses, TakeResponse(m)
    PROVE  \E r \in Requests : Taken(m, r)
<1>1. PICK r \in Requests : r = pending[m.id] /\ m.id \in DOMAIN pending
  BY DEF TakeResponse, IdInv
<1>2. req[r].pc = "waiting" /\ req[r].id = m.id
  BY <1>1 DEF IdInv
<1>3. req[r] \in Handlers /\ req \in [Requests -> Handlers]
  BY DEF Types
<1>4. req' = [req EXCEPT ![r] = [req[r] EXCEPT !.pc = "joining", !.older = m.older]]
  BY <1>1 DEF TakeResponse
<1>5. Only(r) /\ req'[r] = [req[r] EXCEPT !.pc = "joining", !.older = m.older]
  BY <1>3, <1>4 DEF Only
<1>6. SameRest(req'[r], req[r]) /\ req'[r].pc = "joining" /\ req'[r].older = m.older
  BY <1>3, <1>5 DEF SameRest, Handlers
<1>7. DOMAIN pending' = DOMAIN pending \ {m.id} /\ \A id \in DOMAIN pending' : pending'[id] = pending[id]
  BY DEF TakeResponse, Erased
<1> QED BY <1>1, <1>2, <1>5, <1>6, <1>7 DEF Taken, TakeResponse, cache

LEMMA SpoilEffect ==
    ASSUME Types, ClearCounts, NEW r \in Requests
    PROVE  /\ req'[r].spoiled = TRUE /\ req'[r].pc = req[r].pc /\ req'[r].ask = req[r].ask
           /\ req'[r].id = req[r].id /\ req'[r].known = req[r].known
           /\ req'[r].native = req[r].native /\ req'[r].older = req[r].older
           /\ req'[r].cacheCount = req[r].cacheCount /\ req'[r].cacheEnd = req[r].cacheEnd
<1>1. req[r] \in Handlers
  BY DEF Types
<1>2. req'[r] = [req[r] EXCEPT !.spoiled = TRUE]
  BY DEF ClearCounts, SpoilAll
<1> QED BY <1>1, <1>2 DEF Handlers

\* The actions that leave the handlers alone.
Quiet ==
    \/ \E m \in sent : ServerResponds(m)
    \/ \E m \in responses : DropResponse(m)
    \/ Disconnect \/ Reconnect
    \/ \E t \in Today : NewBar(t)
    \/ ClearBars \/ ClearPending
    \/ UNCHANGED vars

LEMMA QuietEffect ==
    ASSUME Quiet
    PROVE  req' = req /\ answer' = answer /\ nextId' = nextId
BY DEF Quiet, ServerResponds, DropResponse, Disconnect, Reconnect, NewBar, ClearBars,
       ClearPending, vars, cache

LEMMA HandlerCases ==
    ASSUME [Next]_vars
    PROVE  \/ \E r \in Requests : \E ask \in Asks[r] : Ask(r, ask)
           \/ \E r \in Requests : Decide(r)
           \/ \E r \in Requests : AnswerLocally(r)
           \/ \E r \in Requests : SendRequest(r)
           \/ \E r \in Requests : Register(r)
           \/ \E r \in Requests : Join(r)
           \/ \E m \in responses : TakeResponse(m)
           \/ ClearCounts
           \/ Quiet
BY StepCases DEF Quiet

LEMMA AskStep ==
    ASSUME IInv, [Next]_vars
    PROVE  AskInv'
<1> USE DEF IInv
<1>0. \A r \in Requests : req[r] \in Handlers
  BY DEF Types
<1>1. ASSUME NEW r \in Requests, NEW ask \in Asks[r], Ask(r, ask) PROVE AskInv'
  <2>1. /\ \A s \in Requests : s # r => req'[s] = req[s]
        /\ req'[r].pc = "asked" /\ req'[r].ask = ask /\ req'[r].known = {}
        /\ req'[r].native = FALSE /\ req[r].pc = "idle" /\ answer' = answer
    BY <1>1, AskEffect DEF Only
  <2> QED BY <2>1 DEF AskInv
<1>2. ASSUME NEW r \in Requests, Decide(r) PROVE AskInv'
  BY <1>2, DecideEffect DEF Only, Decided, AskInv
<1>3. ASSUME NEW r \in Requests, NEW a, Answer(r, a), req[r].pc # "idle" PROVE AskInv'
  <2>1. req'[r].pc = "answered" /\ req'[r].ask = req[r].ask
    BY <1>0, <1>3, ReplyEffect, RepliedIs
  <2> QED BY <1>3, <2>1, ReplyEffect DEF Only, AskInv
<1>4. ASSUME NEW r \in Requests, AnswerLocally(r) PROVE AskInv'
  BY <1>3, <1>4 DEF AnswerLocally
<1>5. ASSUME NEW r \in Requests, Join(r) PROVE AskInv'
  BY <1>3, <1>5 DEF Join
<1>6. ASSUME NEW r \in Requests, SendRequest(r) PROVE AskInv'
  BY <1>6, SendEffect DEF Only, SameRest, AskInv
<1>7. ASSUME NEW r \in Requests, Register(r) PROVE AskInv'
  <2>1. /\ \A s \in Requests : s # r => req'[s] = req[s]
        /\ req'[r].pc = "waiting" /\ req'[r].ask = req[r].ask /\ req[r].pc = "sent"
        /\ answer' = answer
    BY <1>7, RegisterEffect DEF Only, SameRest
  <2> QED BY <2>1 DEF AskInv
<1>8. ASSUME NEW m \in responses, TakeResponse(m) PROVE AskInv'
  <2>1. PICK r \in Requests : Taken(m, r)
    BY <1>8, TakeEffect
  <2> QED BY <2>1 DEF Taken, Only, SameRest, AskInv
<1>9. CASE ClearCounts
  <2>1. answer' = answer
    BY <1>9 DEF ClearCounts
  <2> QED BY <1>9, <2>1, SpoilEffect DEF AskInv
<1>10. CASE Quiet
  BY <1>10, QuietEffect DEF AskInv
<1> QED BY <1>1, <1>2, <1>4, <1>5, <1>6, <1>7, <1>8, <1>9, <1>10, HandlerCases

\* A step of one handler that waits neither before nor after it.
LEMMA IdKept ==
    ASSUME IdInv, NEW r \in Requests, Only(r), req[r].pc \notin {"sent", "waiting"},
           req'[r].pc \notin {"sent", "waiting"},
           UNCHANGED <<clearing, nextId, pending, sent, responses>>
    PROVE  IdInv'
<1>1. \A s \in Requests : req'[s].pc \in {"sent", "waiting"} => s # r /\ req'[s] = req[s]
  BY DEF Only
<1>2. \A s \in Requests : req[s].pc = "waiting" => s # r /\ req'[s] = req[s]
  BY DEF Only
<1> QED BY <1>1, <1>2 DEF IdInv, Waits

LEMMA IdStep ==
    ASSUME IInv, [Next]_vars
    PROVE  IdInv'
<1> USE DEF IInv
<1>0. /\ \A r \in Requests : req[r] \in Handlers /\ req[r].id \in Nat
      /\ nextId \in Nat
      /\ \A m \in sent \cup responses : m.id \in Nat
  BY DEF Types, Handlers
<1>1. ASSUME NEW r \in Requests, NEW ask \in Asks[r], Ask(r, ask) PROVE IdInv'
  <2>1. /\ Only(r) /\ req'[r].pc = "asked" /\ req[r].pc = "idle"
        /\ UNCHANGED <<clearing, nextId, pending, sent, responses>>
    BY <1>1, AskEffect
  <2> QED BY <2>1, IdKept
<1>2. ASSUME NEW r \in Requests, Decide(r) PROVE IdInv'
  <2>1. /\ Only(r) /\ req'[r].pc \in {"answered", "local", "remote"} /\ req[r].pc = "asked"
        /\ UNCHANGED <<clearing, nextId, pending, sent, responses>>
    BY <1>2, DecideEffect DEF Decided
  <2> QED BY <2>1, IdKept
<1>3. ASSUME NEW r \in Requests, NEW a, Answer(r, a), req[r].pc \in {"local", "joining"},
             UNCHANGED <<clearing, nextId, pending, sent, responses>>
      PROVE  IdInv'
  <2>1. Only(r) /\ req'[r].pc = "answered"
    BY <1>0, <1>3, ReplyEffect, RepliedIs
  <2> QED BY <1>3, <2>1, IdKept
<1>4. ASSUME NEW r \in Requests, AnswerLocally(r) PROVE IdInv'
  BY <1>3, <1>4 DEF AnswerLocally, cache
<1>5. ASSUME NEW r \in Requests, Join(r) PROVE IdInv'
  BY <1>3, <1>5 DEF Join, cache
<1>6. ASSUME NEW r \in Requests, SendRequest(r) PROVE IdInv'
  <2>1. /\ \A s \in Requests : s # r => req'[s] = req[s]
        /\ req[r].pc = "remote" /\ nextId' = nextId + 1
        /\ \/ /\ req'[r].pc = "sent" /\ req'[r].id = nextId
              /\ sent' = sent \cup {[id |-> nextId, req |-> req[r]]}
           \/ req'[r].pc = "gone" /\ sent' = sent
        /\ UNCHANGED <<clearing, pending, responses>>
    BY <1>6, SendEffect DEF Only
  <2>2. \A i \in Nat : i < nextId => i < nextId' /\ i # nextId
    BY <1>0, <2>1
  <2>3. nextId < nextId'
    BY <1>0, <2>1
  <2>4. \A m \in (sent \cup responses)' : m.id < nextId'
    BY <1>0, <2>1, <2>2, <2>3 DEF IdInv
  <2>5. \A s \in Requests :
          Waits(s)' => \/ s = r /\ req'[s].id = nextId
                       \/ s # r /\ Waits(s) /\ req'[s] = req[s] /\ req[s].id < nextId'
                          /\ req[s].id # nextId
    BY <1>0, <2>1, <2>2 DEF IdInv, Waits
  <2>6. \A s \in Requests : Waits(s)' => req'[s].id < nextId'
    BY <2>3, <2>5
  <2>7. \A s, u \in Requests : Waits(s)' /\ Waits(u)' /\ req'[s].id = req'[u].id => s = u
    BY <2>5 DEF IdInv
  <2>8. \A s \in Requests : req[s].pc = "waiting" \/ req'[s].pc = "waiting" => s # r /\ req'[s] = req[s]
    BY <2>1
  <2> QED BY <2>1, <2>4, <2>6, <2>7, <2>8 DEF IdInv
<1>7. ASSUME NEW r \in Requests, Register(r) PROVE IdInv'
  <2>1. /\ \A s \in Requests : s # r => req'[s] = req[s]
        /\ req[r].pc = "sent" /\ req'[r].pc = "waiting" /\ req'[r].id = req[r].id
        /\ DOMAIN pending' = DOMAIN pending \cup {req[r].id}
        /\ pending'[req[r].id] = r
        /\ \A id \in DOMAIN pending : id # req[r].id => pending'[id] = pending[id]
        /\ UNCHANGED <<clearing, nextId, sent, responses>>
    BY <1>7, RegisterEffect DEF Only
  <2>2. \A s \in Requests : (Waits(s)' <=> Waits(s)) /\ req'[s].id = req[s].id
    BY <2>1 DEF Waits
  <2>3. \A id \in DOMAIN pending' :
          /\ pending'[id] \in Requests
          /\ req'[pending'[id]].pc = "waiting" /\ req'[pending'[id]].id = id
    <3> TAKE id \in DOMAIN pending'
    <3>1. CASE id = req[r].id
      BY <2>1, <3>1
    <3>2. CASE id # req[r].id
      <4>1. id \in DOMAIN pending /\ pending'[id] = pending[id]
        BY <2>1, <3>2
      <4> QED BY <2>1, <4>1 DEF IdInv
    <3> QED BY <3>1, <3>2
  <2>4. clearing' # "done" =>
          \A s \in Requests : req'[s].pc = "waiting" => req'[s].id \in DOMAIN pending'
    BY <2>1 DEF IdInv
  <2> QED BY <2>1, <2>2, <2>3, <2>4 DEF IdInv
<1>8. ASSUME NEW m \in responses, TakeResponse(m) PROVE IdInv'
  <2>1. PICK r \in Requests : Taken(m, r)
    BY <1>8, TakeEffect
  <2>2. /\ \A s \in Requests : s # r => req'[s] = req[s]
        /\ r = pending[m.id] /\ m.id \in DOMAIN pending
        /\ req[r].pc = "waiting" /\ req'[r].pc = "joining" /\ req[r].id = m.id
        /\ DOMAIN pending' = DOMAIN pending \ {m.id}
        /\ \A id \in DOMAIN pending' : pending'[id] = pending[id]
        /\ responses' = responses \ {m}
        /\ UNCHANGED <<clearing, nextId, sent>>
    BY <2>1 DEF Taken, Only
  <2>3. \A s \in Requests : Waits(s)' => s # r /\ Waits(s) /\ req'[s] = req[s]
    BY <2>2 DEF Waits
  <2>4. \A s \in Requests : req'[s].pc = "waiting" => req'[s].id # m.id
    BY <2>2, <2>3 DEF IdInv, Waits
  <2>5. \A id \in DOMAIN pending' :
          /\ pending'[id] \in Requests
          /\ req'[pending'[id]].pc = "waiting" /\ req'[pending'[id]].id = id
    <3> TAKE id \in DOMAIN pending'
    <3>1. /\ id \in DOMAIN pending /\ id # m.id /\ pending'[id] = pending[id]
          /\ pending[id] \in Requests /\ req[pending[id]].pc = "waiting"
          /\ req[pending[id]].id = id
      BY <2>2 DEF IdInv
    <3>2. pending[id] # r
      BY <2>2, <3>1
    <3> QED BY <2>2, <3>1, <3>2
  <2>6. clearing' # "done" =>
          \A s \in Requests : req'[s].pc = "waiting" => req'[s].id \in DOMAIN pending'
    BY <2>2, <2>3, <2>4 DEF IdInv, Waits
  <2> QED BY <2>2, <2>3, <2>5, <2>6 DEF IdInv
<1>9. CASE ClearCounts
  <2>1. /\ \A s \in Requests : req'[s].pc = req[s].pc /\ req'[s].id = req[s].id
        /\ clearing = "no" /\ UNCHANGED <<nextId, pending, sent, responses>>
    BY <1>9, SpoilEffect DEF ClearCounts
  <2> QED BY <2>1 DEF IdInv, Waits
<1>10. ASSUME NEW m \in sent, ServerResponds(m) PROVE IdInv'
  <2>1. /\ req' = req /\ UNCHANGED <<clearing, nextId, pending>> /\ sent' \subseteq sent
        /\ \A k \in responses' : k \in responses \/ k.id = m.id
    BY <1>10 DEF ServerResponds, cache
  <2>2. \A k \in (sent \cup responses)' : k.id < nextId'
    BY <2>1 DEF IdInv
  <2> QED BY <2>1, <2>2 DEF IdInv, Waits
<1>11. ASSUME NEW m \in responses, DropResponse(m) PROVE IdInv'
  BY <1>11 DEF DropResponse, cache, IdInv, Waits
<1>12. CASE Disconnect \/ Reconnect
  BY <1>12 DEF Disconnect, Reconnect, cache, IdInv, Waits
<1>13. CASE (\E t \in Today : NewBar(t)) \/ ClearBars \/ UNCHANGED vars
  BY <1>13 DEF NewBar, ClearBars, vars, IdInv, Waits
<1>14. CASE ClearPending
  BY <1>14 DEF ClearPending, IdInv, Waits
<1> QED BY <1>1, <1>2, <1>4, <1>5, <1>6, <1>7, <1>8, <1>9, <1>10, <1>11, <1>12, <1>13, <1>14,
           StepCases

LEMMA ClearStep ==
    ASSUME IInv, [Next]_vars
    PROVE  ClearInv'
<1> USE DEF IInv
<1>0. /\ \A r \in Requests : req[r] \in Handlers
      /\ clearing \in {"no", "counts", "bars", "done"}
  BY DEF Types
<1>a. ASSUME NEW r \in Requests, Only(r), req[r].pc # "idle", req'[r].spoiled = req[r].spoiled,
             UNCHANGED <<counts, bars, clearing>>
      PROVE  ClearInv'
  BY <1>a DEF Only, ClearInv
<1>1. ASSUME NEW r \in Requests, NEW ask \in Asks[r], Ask(r, ask) PROVE ClearInv'
  <2>1. /\ Only(r)
        /\ ~req'[r].spoiled => clearing \notin {"counts", "bars"}
        /\ UNCHANGED <<counts, bars, clearing>>
    BY <1>1, AskEffect
  <2>2. \A s \in Requests : s # r => req'[s] = req[s]
    BY <2>1 DEF Only
  <2>3. ~req'[r].spoiled => clearing \in {"no", "done"}
    BY <1>0, <2>1
  <2>4. \A s \in Requests :
          req'[s].pc # "idle" /\ ~req'[s].spoiled => clearing' \in {"no", "done"}
    BY <2>1, <2>2, <2>3 DEF ClearInv
  <2> QED BY <2>1, <2>4 DEF ClearInv
<1>2. ASSUME NEW r \in Requests, Decide(r) PROVE ClearInv'
  <2>1. /\ Only(r) /\ req'[r].spoiled = req[r].spoiled /\ req[r].pc = "asked"
        /\ UNCHANGED <<counts, bars, clearing>>
    BY <1>2, DecideEffect DEF Decided
  <2> QED BY <1>a, <2>1
<1>3. ASSUME NEW r \in Requests, NEW a, Answer(r, a), req[r].pc \in {"local", "joining"},
             UNCHANGED <<counts, bars, clearing>>
      PROVE  ClearInv'
  <2>1. Only(r) /\ req'[r].spoiled = req[r].spoiled
    BY <1>0, <1>3, ReplyEffect, RepliedIs
  <2> QED BY <1>3, <1>a, <2>1
<1>4. ASSUME NEW r \in Requests, AnswerLocally(r) PROVE ClearInv'
  BY <1>3, <1>4 DEF AnswerLocally, cache
<1>5. ASSUME NEW r \in Requests, Join(r) PROVE ClearInv'
  BY <1>3, <1>5 DEF Join, cache
<1>6. ASSUME NEW r \in Requests, SendRequest(r) PROVE ClearInv'
  <2>1. /\ Only(r) /\ req'[r].spoiled = req[r].spoiled /\ req[r].pc = "remote"
        /\ UNCHANGED <<counts, bars, clearing>>
    BY <1>6, SendEffect DEF SameRest
  <2> QED BY <1>a, <2>1
<1>7. ASSUME NEW r \in Requests, Register(r) PROVE ClearInv'
  <2>1. /\ Only(r) /\ req'[r].spoiled = req[r].spoiled /\ req[r].pc = "sent"
        /\ UNCHANGED <<counts, bars, clearing>>
    BY <1>7, RegisterEffect DEF SameRest
  <2> QED BY <1>a, <2>1
<1>8. ASSUME NEW m \in responses, TakeResponse(m) PROVE ClearInv'
  <2>1. PICK r \in Requests : Taken(m, r)
    BY <1>8, TakeEffect
  <2>2. /\ Only(r) /\ req'[r].spoiled = req[r].spoiled /\ req[r].pc = "waiting"
        /\ UNCHANGED <<counts, bars, clearing>>
    BY <2>1 DEF Taken, SameRest
  <2> QED BY <1>a, <2>2
<1>9. CASE ClearCounts
  <2>1. /\ \A s \in Requests : req'[s].spoiled = TRUE
        /\ clearing' = "counts" /\ counts' = {}
    BY <1>9, SpoilEffect DEF ClearCounts
  <2> QED BY <2>1 DEF ClearInv
<1>10. ASSUME NEW t \in Today, NewBar(t) PROVE ClearInv'
  BY <1>10 DEF NewBar, ClearInv
<1>11. CASE ClearBars
  BY <1>11 DEF ClearBars, ClearInv
<1>12. CASE ClearPending
  BY <1>12 DEF ClearPending, ClearInv
<1>13. ASSUME NEW m \in sent, ServerResponds(m) PROVE ClearInv'
  BY <1>13 DEF ServerResponds, cache, ClearInv
<1>14. ASSUME NEW m \in responses, DropResponse(m) PROVE ClearInv'
  BY <1>14 DEF DropResponse, cache, ClearInv
<1>15. CASE Disconnect \/ Reconnect \/ UNCHANGED vars
  BY <1>15 DEF Disconnect, Reconnect, vars, cache, ClearInv
<1> QED BY <1>1, <1>2, <1>4, <1>5, <1>6, <1>7, <1>8, <1>9, <1>10, <1>11, <1>12, <1>13, <1>14,
           <1>15, StepCases

\* Planned says the same of a handler and of a later stage of it.
LEMMA PlannedKept ==
    ASSUME NEW q, NEW p, SameRest(q, p), p.pc # "local", q.pc # "local", Planned(p)
    PROVE  Planned(q)
BY DEF Planned, SameRest

LEMMA PlanStep ==
    ASSUME IInv, [Next]_vars
    PROVE  PlanInv'
<1> USE DEF IInv
<1>0. \A r \in Requests : req[r] \in Handlers
  BY DEF Types
<1>a. ASSUME NEW r \in Requests, Only(r), UNCHANGED <<bars, clearing>>, Active(r)' => Fits(req'[r], bars', clearing')
      PROVE  PlanInv'
  <2> SUFFICES ASSUME NEW s \in Requests, Active(s)' PROVE Fits(req'[s], bars', clearing')
    BY DEF PlanInv
  <2>1. CASE s = r
    BY <1>a, <2>1
  <2>2. CASE s # r
    <3>1. req'[s] = req[s] /\ Active(s)
      BY <1>a, <2>2 DEF Only, Active
    <3> QED BY <1>a, <3>1 DEF PlanInv
  <2> QED BY <2>1, <2>2
<1>b. ASSUME NEW r \in Requests, Only(r), UNCHANGED <<bars, clearing>>, ~(Active(r)')
      PROVE  PlanInv'
  BY <1>a, <1>b
<1>c. ASSUME NEW r \in Requests, Only(r), UNCHANGED <<bars, clearing>>,
             SameRest(req'[r], req[r]),
             req[r].pc \in {"remote", "sent", "waiting"},
             req'[r].pc \in {"sent", "waiting", "joining", "gone"}
      PROVE  PlanInv'
  <2>1. Active(r) /\ req'[r].known = req[r].known /\ req'[r].spoiled = req[r].spoiled
    BY <1>c DEF Active, SameRest
  <2>2. Fits(req[r], bars, clearing)
    BY <2>1 DEF PlanInv
  <2>3. Planned(req'[r])
    BY <1>c, <2>2, PlannedKept DEF Fits
  <2>4. Fits(req'[r], bars', clearing')
    BY <1>c, <2>1, <2>2, <2>3 DEF Fits
  <2> QED BY <1>a, <1>c, <2>4
<1>1. ASSUME NEW r \in Requests, NEW ask \in Asks[r], Ask(r, ask) PROVE PlanInv'
  <2>1. Only(r) /\ req'[r].pc = "asked" /\ UNCHANGED <<bars, clearing>>
    BY <1>1, AskEffect
  <2> QED BY <1>b, <2>1 DEF Active
<1>2. ASSUME NEW r \in Requests, Decide(r) PROVE PlanInv'
  <2>1. /\ Only(r) /\ Decided(req'[r], req[r]) /\ UNCHANGED <<bars, clearing>>
    BY <1>2, DecideEffect
  <2>2. ASSUME Active(r)' PROVE Planned(req'[r]) /\ GrownTo(req'[r].known, bars')
    <3>1. req'[r].known = counts /\ Planned(req'[r])
      BY <2>1, <2>2 DEF Active, Decided
    <3>2. counts = bars \/ counts = {}
      BY DEF ClearInv
    <3> QED BY <2>1, <3>1, <3>2 DEF GrownTo
  <2>3. Active(r)' => Fits(req'[r], bars', clearing')
    BY <2>2 DEF Fits
  <2> QED BY <1>a, <2>1, <2>3
<1>3. ASSUME NEW r \in Requests, NEW a, Answer(r, a), UNCHANGED <<bars, clearing>>
      PROVE  PlanInv'
  <2>1. Only(r) /\ req'[r].pc = "answered"
    BY <1>0, <1>3, ReplyEffect, RepliedIs
  <2> QED BY <1>3, <1>b, <2>1 DEF Active
<1>4. ASSUME NEW r \in Requests, AnswerLocally(r) PROVE PlanInv'
  BY <1>3, <1>4 DEF AnswerLocally, cache
<1>5. ASSUME NEW r \in Requests, Join(r) PROVE PlanInv'
  BY <1>3, <1>5 DEF Join, cache
<1>6. ASSUME NEW r \in Requests, SendRequest(r) PROVE PlanInv'
  <2>1. /\ Only(r) /\ SameRest(req'[r], req[r]) /\ req[r].pc = "remote"
        /\ req'[r].pc \in {"sent", "gone"} /\ UNCHANGED <<bars, clearing>>
    BY <1>6, SendEffect
  <2> QED BY <1>c, <2>1
<1>7. ASSUME NEW r \in Requests, Register(r) PROVE PlanInv'
  <2>1. /\ Only(r) /\ SameRest(req'[r], req[r]) /\ req[r].pc = "sent"
        /\ req'[r].pc = "waiting" /\ UNCHANGED <<bars, clearing>>
    BY <1>7, RegisterEffect
  <2> QED BY <1>c, <2>1
<1>8. ASSUME NEW m \in responses, TakeResponse(m) PROVE PlanInv'
  <2>1. PICK r \in Requests : Taken(m, r)
    BY <1>8, TakeEffect
  <2>2. /\ Only(r) /\ SameRest(req'[r], req[r]) /\ req[r].pc = "waiting"
        /\ req'[r].pc = "joining" /\ UNCHANGED <<bars, clearing>>
    BY <2>1 DEF Taken
  <2> QED BY <1>c, <2>2
<1>9. CASE ClearCounts
  <2>1. bars' = bars /\ clearing = "no"
    BY <1>9 DEF ClearCounts
  <2> SUFFICES ASSUME NEW s \in Requests, Active(s)' PROVE Fits(req'[s], bars', clearing')
    BY DEF PlanInv
  <2>2. /\ req'[s].pc = req[s].pc /\ req'[s].ask = req[s].ask /\ req'[s].known = req[s].known
        /\ req'[s].native = req[s].native /\ req'[s].cacheCount = req[s].cacheCount
        /\ req'[s].cacheEnd = req[s].cacheEnd
    BY <1>9, SpoilEffect
  <2>3. Active(s)
    BY <2>2 DEF Active
  <2>4. Planned(req[s]) /\ GrownTo(req[s].known, bars)
    BY <2>1, <2>3 DEF PlanInv, Fits
  <2>5. Planned(req'[s])
    BY <2>2, <2>4 DEF Planned
  <2>6. GrownTo(req'[s].known, bars')
    BY <2>1, <2>2, <2>4 DEF GrownTo
  <2> QED BY <2>5, <2>6 DEF Fits
<1>10. ASSUME NEW t \in Today, NewBar(t) PROVE PlanInv'
  <2>1. /\ req' = req /\ clearing = "no" /\ bars' = bars \cup {t} /\ \A u \in bars : u < t
    BY <1>10 DEF NewBar
  <2>2. \A k : GrownTo(k, bars) => GrownTo(k, bars')
    BY <2>1 DEF GrownTo
  <2> QED BY <2>1, <2>2 DEF PlanInv, Active, Fits
<1>11. CASE ClearBars
  <2>1. req' = req /\ clearing = "counts" /\ clearing' = "bars"
    BY <1>11 DEF ClearBars
  <2>2. \A s \in Requests : Active(s) => req[s].spoiled
    BY <2>1 DEF Active, ClearInv
  <2> QED BY <2>1, <2>2 DEF PlanInv, Active, Fits
<1>12. ASSUME UNCHANGED <<bars, req>>,
              clearing \in {"bars", "done"} => clearing' \in {"bars", "done"}
       PROVE  PlanInv'
  BY <1>12 DEF PlanInv, Active, Fits
<1>13. ASSUME \/ \E m \in sent : ServerResponds(m)
              \/ \E m \in responses : DropResponse(m)
              \/ Disconnect \/ Reconnect \/ ClearPending \/ UNCHANGED vars
       PROVE  PlanInv'
  BY <1>12, <1>13 DEF ServerResponds, DropResponse, Disconnect, Reconnect, ClearPending, vars, cache
<1> QED BY <1>1, <1>2, <1>4, <1>5, <1>6, <1>7, <1>8, <1>9, <1>10, <1>11, <1>13, StepCases

\* Two handlers that ask the same get the same.
LEMMA SameResponse ==
    ASSUME NEW q, NEW p, SameQuery(q, p), NEW S
    PROVE  Older(q, S) = Older(p, S)
BY DEF SameQuery, Older

LEMMA ResponseKept ==
    ASSUME NEW q, NEW p, SameRest(q, p)
    PROVE  /\ SameQuery(p, q) /\ SameQuery(q, p)
           /\ \A x : SameQuery(x, p) => SameQuery(x, q)
           /\ \A older : ResponseTo(p, older) => ResponseTo(q, older)
<1>1. SameQuery(p, q) /\ SameQuery(q, p) /\ \A x : SameQuery(x, p) => SameQuery(x, q)
  BY DEF SameRest, SameQuery
<1>2. \A S : Older(q, S) = Older(p, S)
  BY <1>1, SameResponse
<1>3. q.known = p.known
  BY DEF SameRest
<1> QED BY <1>1, <1>2, <1>3 DEF ResponseTo

LEMMA ResponseStep ==
    ASSUME IInv, [Next]_vars
    PROVE  ResponseInv'
<1> USE DEF IInv
<1>0. /\ \A r \in Requests : req[r] \in Handlers /\ req[r].id \in Nat
      /\ nextId \in Nat /\ \A m \in sent \cup responses : m.id \in Nat
  BY DEF Types, Handlers
<1> DEFINE Kept(s) ==
             /\ Active(s) /\ Waits(s) =>
                  /\ \A m \in sent : m.id = req[s].id => SameQuery(m.req, req[s])
                  /\ \A m \in responses : m.id = req[s].id => ResponseTo(req[s], m.older)
             /\ Active(s) /\ req[s].pc = "joining" => ResponseTo(req[s], req[s].older)
<1>a. ASSUME NEW r \in Requests, Only(r), req'[r].pc \notin {"sent", "waiting", "joining"},
             bars' = bars, \A m \in sent' : m \in sent \/ \A s \in Requests : Waits(s) => m.id # req[s].id,
             responses' = responses
      PROVE  ResponseInv'
  <2> SUFFICES ASSUME NEW s \in Requests PROVE Kept(s)'
    BY DEF ResponseInv
  <2>1. CASE s = r
    BY <1>a, <2>1 DEF Waits
  <2>2. CASE s # r
    <3>1. req'[s] = req[s] /\ (Active(s)' <=> Active(s)) /\ (Waits(s)' <=> Waits(s))
      BY <1>a, <2>2 DEF Only, Active, Waits
    <3> QED BY <1>a, <3>1 DEF ResponseInv
  <2> QED BY <2>1, <2>2
<1>1. ASSUME NEW r \in Requests, NEW ask \in Asks[r], Ask(r, ask) PROVE ResponseInv'
  <2>1. /\ Only(r) /\ req'[r].pc = "asked" /\ bars' = bars /\ sent' = sent
        /\ responses' = responses
    BY <1>1, AskEffect
  <2> QED BY <1>a, <2>1
<1>2. ASSUME NEW r \in Requests, Decide(r) PROVE ResponseInv'
  <2>1. /\ Only(r) /\ req'[r].pc \in {"answered", "local", "remote"} /\ bars' = bars
        /\ sent' = sent /\ responses' = responses
    BY <1>2, DecideEffect DEF Decided
  <2> QED BY <1>a, <2>1
<1>3. ASSUME NEW r \in Requests, NEW a, Answer(r, a), bars' = bars, sent' = sent,
             responses' = responses
      PROVE  ResponseInv'
  <2>1. Only(r) /\ req'[r].pc = "answered"
    BY <1>0, <1>3, ReplyEffect, RepliedIs
  <2> QED BY <1>3, <1>a, <2>1
<1>4. ASSUME NEW r \in Requests, AnswerLocally(r) PROVE ResponseInv'
  BY <1>3, <1>4 DEF AnswerLocally, cache
<1>5. ASSUME NEW r \in Requests, Join(r) PROVE ResponseInv'
  BY <1>3, <1>5 DEF Join, cache
<1>6. ASSUME NEW r \in Requests, SendRequest(r) PROVE ResponseInv'
  <2>1. /\ Only(r) /\ SameRest(req'[r], req[r]) /\ req[r].pc = "remote"
        /\ \/ /\ req'[r].pc = "sent" /\ req'[r].id = nextId
              /\ sent' = sent \cup {[id |-> nextId, req |-> req[r]]}
           \/ req'[r].pc = "gone" /\ sent' = sent
        /\ responses' = responses /\ bars' = bars
    BY <1>6, SendEffect
  <2>2. CASE req'[r].pc = "gone" /\ sent' = sent
    BY <1>a, <2>1, <2>2
  <2>3. CASE /\ req'[r].pc = "sent" /\ req'[r].id = nextId
             /\ sent' = sent \cup {[id |-> nextId, req |-> req[r]]}
    <3>1. \A m \in sent \cup responses : m.id # nextId
      <4>1. \A m \in sent \cup responses : m.id < nextId
        BY DEF IdInv
      <4> QED BY <1>0, <4>1
    <3>2. \A s \in Requests : Waits(s) => req[s].id # nextId
      <4>1. \A s \in Requests : Waits(s) => req[s].id < nextId
        BY DEF IdInv
      <4> QED BY <1>0, <4>1
    <3> SUFFICES ASSUME NEW s \in Requests PROVE Kept(s)'
      BY DEF ResponseInv
    <3>3. CASE s = r
      <4>1. \A m \in sent' : m.id = nextId => m.req = req[r]
        BY <2>3, <3>1
      <4>2. SameQuery(req[r], req'[r])
        BY <2>1, ResponseKept
      <4> QED BY <2>1, <2>3, <3>1, <3>3, <4>1, <4>2
    <3>4. CASE s # r
      <4>1. req'[s] = req[s] /\ (Active(s)' <=> Active(s)) /\ (Waits(s)' <=> Waits(s))
        BY <2>1, <3>4 DEF Only, Active, Waits
      <4>2. \A m \in sent' : Waits(s) /\ m.id = req[s].id => m \in sent
        BY <2>3, <3>2
      <4> QED BY <2>1, <4>1, <4>2 DEF ResponseInv
    <3> QED BY <3>3, <3>4
  <2> QED BY <2>1, <2>2, <2>3
<1>7. ASSUME NEW r \in Requests, Register(r) PROVE ResponseInv'
  <2>1. /\ Only(r) /\ SameRest(req'[r], req[r]) /\ req[r].pc = "sent"
        /\ req'[r].pc = "waiting" /\ req'[r].id = req[r].id
        /\ sent' = sent /\ responses' = responses /\ bars' = bars
    BY <1>7, RegisterEffect
  <2> SUFFICES ASSUME NEW s \in Requests PROVE Kept(s)'
    BY DEF ResponseInv
  <2>2. CASE s = r
    <3>1. (Active(r)' => Active(r)) /\ Waits(r)
      BY <2>1 DEF Active, SameRest, Waits
    <3>2. /\ \A x : SameQuery(x, req[r]) => SameQuery(x, req'[r])
          /\ \A older : ResponseTo(req[r], older) => ResponseTo(req'[r], older)
      BY <2>1, ResponseKept
    <3> QED BY <2>1, <2>2, <3>1, <3>2 DEF ResponseInv
  <2>3. CASE s # r
    <3>1. req'[s] = req[s] /\ (Active(s)' <=> Active(s)) /\ (Waits(s)' <=> Waits(s))
      BY <2>1, <2>3 DEF Only, Active, Waits
    <3> QED BY <2>1, <3>1 DEF ResponseInv
  <2> QED BY <2>2, <2>3
<1>8. ASSUME NEW m \in responses, TakeResponse(m) PROVE ResponseInv'
  <2>1. PICK r \in Requests : Taken(m, r)
    BY <1>8, TakeEffect
  <2>2. /\ Only(r) /\ SameRest(req'[r], req[r]) /\ req[r].pc = "waiting" /\ req[r].id = m.id
        /\ req'[r].pc = "joining" /\ req'[r].older = m.older
        /\ sent' = sent /\ responses' = responses \ {m} /\ bars' = bars
    BY <2>1 DEF Taken
  <2> SUFFICES ASSUME NEW s \in Requests PROVE Kept(s)'
    BY DEF ResponseInv
  <2>3. CASE s = r
    <3>1. (Active(r)' => Active(r)) /\ Waits(r) /\ ~(Waits(r)')
      BY <2>2 DEF Active, SameRest, Waits
    <3>2. \A older : ResponseTo(req[r], older) => ResponseTo(req'[r], older)
      BY <2>2, ResponseKept
    <3> QED BY <2>2, <2>3, <3>1, <3>2 DEF ResponseInv
  <2>4. CASE s # r
    <3>1. req'[s] = req[s] /\ (Active(s)' <=> Active(s)) /\ (Waits(s)' <=> Waits(s))
      BY <2>2, <2>4 DEF Only, Active, Waits
    <3> QED BY <2>2, <3>1 DEF ResponseInv
  <2> QED BY <2>3, <2>4
<1>9. CASE ClearCounts
  <2> SUFFICES ASSUME NEW s \in Requests PROVE Kept(s)'
    BY DEF ResponseInv
  <2>1. /\ req'[s].pc = req[s].pc /\ req'[s].id = req[s].id /\ req'[s].older = req[s].older
        /\ req'[s].ask = req[s].ask /\ req'[s].known = req[s].known
        /\ req'[s].cacheCount = req[s].cacheCount /\ req'[s].cacheEnd = req[s].cacheEnd
        /\ sent' = sent /\ responses' = responses
    BY <1>9, SpoilEffect DEF ClearCounts
  <2>2. (Active(s)' <=> Active(s)) /\ (Waits(s)' <=> Waits(s))
    BY <2>1 DEF Active, Waits
  <2>3. \A x : SameQuery(x, req[s]) => SameQuery(x, req'[s])
    BY <2>1 DEF SameQuery
  <2>4. \A S : Older(req'[s], S) = Older(req[s], S)
    BY <2>1 DEF Older
  <2>5. \A older : ResponseTo(req[s], older) => ResponseTo(req'[s], older)
    BY <2>1, <2>4 DEF ResponseTo
  <2> QED BY <2>1, <2>2, <2>3, <2>5 DEF ResponseInv
<1>10. ASSUME NEW m \in sent, ServerResponds(m) PROVE ResponseInv'
  <2>1. PICK t : responses' = responses \cup {[id |-> m.id, older |-> Older(m.req, History \cup UpTo(bars, t))]}
    BY <1>10 DEF ServerResponds
  <2>2. req' = req /\ bars' = bars /\ sent' \subseteq sent
    BY <1>10 DEF ServerResponds, cache
  <2>3. UpTo(bars, t) \in SUBSET bars
    BY DEF UpTo
  <2> SUFFICES ASSUME NEW s \in Requests PROVE Kept(s)'
    BY DEF ResponseInv
  <2>4. (Active(s)' <=> Active(s)) /\ (Waits(s)' <=> Waits(s))
    BY <2>2 DEF Active, Waits
  <2>6. Active(s) => Newer(req[s].known, UpTo(bars, t))
    <3>1. UpTo(bars, t) \in SUBSET Today /\ IsFiniteSet(UpTo(bars, t))
      BY <2>3, BarsAre
    <3>2. CASE GrownTo(req[s].known, bars)
      BY <2>3, <3>1, <3>2 DEF Newer, GrownTo
    <3>3. CASE req[s].spoiled /\ clearing \in {"bars", "done"}
      <4>1. UpTo(bars, t) = {}
        BY <2>3, <3>3 DEF ClearInv
      <4> QED BY <3>1, <4>1 DEF Newer, GrownTo
    <3> QED BY <3>2, <3>3 DEF PlanInv, Fits
  <2>5. ASSUME Active(s), Waits(s), NEW k \in responses', k.id = req[s].id
        PROVE  ResponseTo(req[s], k.older)
    <3>1. CASE k \in responses
      BY <2>5, <3>1 DEF ResponseInv
    <3>2. CASE k = [id |-> m.id, older |-> Older(m.req, History \cup UpTo(bars, t))]
      <4>1. SameQuery(m.req, req[s])
        BY <2>5, <3>2 DEF ResponseInv
      <4>2. k.older = Older(req[s], History \cup UpTo(bars, t))
        BY <3>2, <4>1, SameResponse
      <4>3. Newer(req[s].known, UpTo(bars, t))
        BY <2>5, <2>6
      <4> QED BY <4>2, <4>3 DEF ResponseTo
    <3> QED BY <2>1, <3>1, <3>2
  <2> QED BY <2>2, <2>4, <2>5 DEF ResponseInv
<1>11. ASSUME UNCHANGED req, sent' \subseteq sent, responses' \subseteq responses
       PROVE  ResponseInv'
  BY <1>11 DEF ResponseInv, Active, Waits
<1>12. CASE (\E t \in Today : NewBar(t)) \/ ClearBars
  BY <1>11, <1>12 DEF NewBar, ClearBars
<1>13. ASSUME NEW m \in responses, DropResponse(m) PROVE ResponseInv'
  BY <1>11, <1>13 DEF DropResponse, cache
<1>14. CASE Disconnect \/ Reconnect \/ ClearPending \/ UNCHANGED vars
  BY <1>11, <1>14 DEF Disconnect, Reconnect, ClearPending, vars, cache
<1> QED BY <1>1, <1>2, <1>4, <1>5, <1>6, <1>7, <1>8, <1>9, <1>10, <1>12, <1>13, <1>14,
           StepCases

\* Only the query and what was known decide what a complete answer is; ClearCache
\* asks for less.
LEMMA CompleteKept ==
    ASSUME NEW q, NEW p, NEW a, q.ask = p.ask, q.known = p.known, p.spoiled => q.spoiled,
           Complete(p, a)
    PROVE  Complete(q, a)
<1> DEFINE old == History \cup q.known
<1>1. Wanted(q, old) = Wanted(p, old)
  BY DEF Wanted
<1>2. Promised(q, old) \subseteq Promised(p, old)
  BY <1>1 DEF Promised
<1> QED BY <1>1, <1>2 DEF Complete

LEMMA EmptyComplete ==
    ASSUME NEW q \in Handlers, q.ask \in Queries, q.ask.kind = "time", q.ask.start > q.ask.end,
           q.known = {}
    PROVE  Complete(q, <<>>)
<1>1. Wanted(q, History \cup q.known) = {}
  <2>1. /\ IsFiniteSet(q.known)
        /\ q.ask.start \in Nat /\ q.ask.end \in Nat
        /\ \A h \in History : h \in Nat
    BY TimesAre, FS_EmptySet DEF Queries
  <2>2. \A h \in History : ~(h <= q.ask.end /\ q.ask.start <= h)
    BY <2>1
  <2>3. Wanted(q, History \cup q.known)
          = {t \in UpTo(History \cup q.known, q.ask.end) : q.ask.start <= t}
    BY <2>1, WantedIs
  <2> QED BY <2>2, <2>3 DEF UpTo
<1>2. ToSet(<<>>) = {} /\ <<>> \in Seq(Nat) /\ Increasing(<<>>)
  BY EmptyIsSeq DEF ToSet, Increasing
<1> QED BY <1>1, <1>2, CompleteIf

LEMMA LocalComplete ==
    ASSUME IInv, NEW r \in Requests, req[r].pc = "local"
    PROVE  Complete(req[r], LocalBars(req[r].ask))
<1> DEFINE q == req[r]
<1>1. /\ q \in Handlers /\ q.ask \in Queries
  BY AskIs DEF IInv
<1>2. Planned(q) /\ (GrownTo(q.known, bars) \/ (q.spoiled /\ bars = {}))
  BY DEF IInv, PlanInv, Active, Fits, ClearInv
<1>3. bars \in SUBSET Today /\ IsFiniteSet(bars)
  BY DEF IInv, Types
<1>4. q.ask.kind \in {"count", "time"} /\ q.pc = "local"
  BY <1>1 DEF Queries
<1> HIDE DEF q
<1>5. CASE q.ask.kind = "count" /\ GrownTo(q.known, bars)
  <2>1. q.ask.total > 0 /\ Cardinality(UpTo(q.known, q.ask.end)) >= q.ask.total
    BY <1>2, <1>4, <1>5 DEF Planned
  <2>2. Complete(q, LastBars(UpTo(bars, q.ask.end), q.ask.total))
    BY <1>1, <1>2, <1>3, <1>5, <2>1, CompleteLocalCount
  <2> QED BY <1>5, <2>2 DEF LocalBars, q
<1>6. CASE q.ask.kind = "time" /\ GrownTo(q.known, bars)
  <2>1. PICK first \in q.known : first <= q.ask.start
    BY <1>2, <1>4, <1>6 DEF Planned
  <2>2. Complete(q, BarsBetween(bars, q.ask.start, q.ask.end))
    BY <1>1, <1>2, <1>3, <1>6, <2>1, CompleteLocalTime
  <2> QED BY <1>6, <2>2 DEF LocalBars, q
<1>7. CASE q.spoiled /\ bars = {}
  <2> DEFINE a == LocalBars(q.ask)
  <2>1. UpTo(bars, q.ask.end) = {} /\ {t \in bars : q.ask.start <= t /\ t <= q.ask.end} = {}
    BY <1>7 DEF UpTo
  <2>2. q.ask.total \in Nat /\ {} \in SUBSET Nat /\ IsFiniteSet({})
    BY <1>1, FS_EmptySet DEF Queries
  <2>3. a = LastBars({}, q.ask.total) \/ a = Ascending({})
    BY <2>1 DEF LocalBars, BarsBetween
  <2>4. /\ LastBars({}, q.ask.total) \in Seq(Nat) /\ Increasing(LastBars({}, q.ask.total))
        /\ ToSet(LastBars({}, q.ask.total)) = {}
    BY <2>2, LastBarsIs
  <2>5. Ascending({}) \in Seq(Nat) /\ Increasing(Ascending({})) /\ ToSet(Ascending({})) = {}
    BY <2>2, AscendingSet
  <2> HIDE DEF a
  <2>6. a \in Seq(Nat) /\ Increasing(a) /\ ToSet(a) = {}
    BY <2>3, <2>4, <2>5
  <2>7. Complete(q, a)
    BY <1>1, <1>2, <1>4, <1>7, <2>6, CompleteCleared
  <2> QED BY <2>7 DEF a, q
<1> QED BY <1>2, <1>4, <1>5, <1>6, <1>7

LEMMA JoinComplete ==
    ASSUME IInv, NEW r \in Requests, req[r].pc = "joining"
    PROVE  Complete(req[r], req[r].older \o NativeBars(req[r]))
<1> DEFINE q == req[r]
<1>1. /\ q \in Handlers /\ q.ask \in Queries
  BY AskIs DEF IInv
<1>2. Planned(q) /\ (GrownTo(q.known, bars) \/ (q.spoiled /\ bars = {}))
  BY DEF IInv, PlanInv, Active, Fits, ClearInv
<1>3. PICK X : Newer(q.known, X) /\ q.older = Older(q, History \cup X)
  BY DEF IInv, ResponseInv, Active, ResponseTo
<1>4. /\ bars \in SUBSET Today /\ IsFiniteSet(bars)
      /\ X \in SUBSET Today /\ IsFiniteSet(X) /\ IsFiniteSet(q.known)
  BY <1>2, <1>3 DEF IInv, Types, Newer, Planned
<1>5. /\ q.ask.kind \in {"count", "time"} /\ q.pc # "local" /\ q.native \in BOOLEAN
      /\ q.older \in Seq(Nat) /\ q.ask.end \in Nat
  BY <1>1 DEF Queries, Handlers
<1> HIDE DEF q
<1>6. CASE q.native = FALSE
  <2>1. /\ q.cacheCount = q.ask.total /\ q.cacheEnd = q.ask.end
        /\ \/ Cardinality(UpTo(q.known, q.ask.end)) = 0
           \/ q.ask.kind = "count" /\ q.ask.total = 0
    BY <1>2, <1>5, <1>6 DEF Planned
  <2>2. q.older \o NativeBars(q) = q.older
    BY <1>5, <1>6, ConcatEmptySeq DEF NativeBars
  <2>3. CASE q.ask.kind = "count"
    <3>1. Complete(q, LastBars(UpTo(History \cup X, q.ask.end), q.ask.total))
      BY <1>1, <1>4, <2>1, <2>3, CompleteRemoteCount
    <3> QED BY <1>3, <2>1, <2>2, <2>3, <3>1 DEF Older, q
  <2>4. CASE q.ask.kind = "time"
    <3>1. Complete(q, BarsBetween(History \cup X, q.ask.start, q.ask.end))
      BY <1>1, <1>4, <2>1, <2>4, CompleteRemoteTime
    <3> QED BY <1>3, <2>1, <2>2, <2>4, <3>1 DEF Older, q
  <2> QED BY <1>5, <2>3, <2>4
<1>7. CASE q.native = TRUE
  <2>1. NativeBars(q) = Ascending(UpTo(bars, q.ask.end))
    BY <1>7 DEF NativeBars
  <2>2. /\ Cardinality(UpTo(q.known, q.ask.end)) > 0
        /\ q.ask.kind = "count" =>
              /\ Cardinality(UpTo(q.known, q.ask.end)) < q.ask.total
              /\ q.cacheCount = q.ask.total - Cardinality(UpTo(q.known, q.ask.end))
    BY <1>2, <1>5, <1>7 DEF Planned
  <2>3. PICK first \in q.known :
          /\ \A t \in q.known : first <= t
          /\ q.cacheEnd = first - 1
          /\ q.ask.kind = "time" => q.ask.start < first
    BY <1>2, <1>5, <1>7 DEF Planned
  <2>4. CASE q.ask.kind = "count"
    <3>1. Complete(q, LastBars(UpTo(History \cup X, q.cacheEnd), q.cacheCount)
                        \o Ascending(UpTo(bars, q.ask.end)))
      BY <1>1, <1>2, <1>3, <1>4, <2>2, <2>3, <2>4, CompleteJoinCount
    <3> QED BY <1>3, <2>1, <2>4, <3>1 DEF Older, q
  <2>5. CASE q.ask.kind = "time"
    <3>1. Complete(q, BarsBetween(History \cup X, q.ask.start, q.cacheEnd)
                        \o Ascending(UpTo(bars, q.ask.end)))
      BY <1>1, <1>2, <1>3, <1>4, <2>2, <2>3, <2>5, CompleteJoinTime
    <3> QED BY <1>3, <2>1, <2>5, <3>1 DEF Older, q
  <2> QED BY <1>5, <2>4, <2>5
<1> QED BY <1>5, <1>6, <1>7

LEMMA DoneStep ==
    ASSUME IInv, [Next]_vars
    PROVE  DoneInv'
<1>0. /\ \A r \in Requests : req[r] \in Handlers
      /\ Types /\ AskInv /\ IdInv /\ DoneInv
  BY DEF IInv, Types
<1>a. ASSUME NEW r \in Requests, Only(r),
             \A s \in Requests : s # r => answer'[s] = answer[s],
             req'[r].pc = "answered" => Complete(req'[r], answer'[r])
      PROVE  DoneInv'
  <2> SUFFICES ASSUME NEW s \in Requests, req'[s].pc = "answered"
               PROVE  Complete(req'[s], answer'[s])
    BY DEF DoneInv, Complete, Promised, Wanted
  <2>1. CASE s = r
    BY <1>a, <2>1
  <2>2. CASE s # r
    BY <1>0, <1>a, <2>2 DEF Only, DoneInv
  <2> QED BY <2>1, <2>2
<1>1. ASSUME NEW r \in Requests, NEW ask \in Asks[r], Ask(r, ask) PROVE DoneInv'
  <2>1. Only(r) /\ req'[r].pc = "asked" /\ answer' = answer
    BY <1>0, <1>1, AskEffect
  <2> QED BY <1>a, <2>1
<1>2. ASSUME NEW r \in Requests, Decide(r) PROVE DoneInv'
  <2>1. /\ Only(r) /\ Decided(req'[r], req[r]) /\ req[r].pc = "asked" /\ answer' = answer
    BY <1>0, <1>2, DecideEffect
  <2>2. ASSUME req'[r].pc = "answered" PROVE Complete(req'[r], answer'[r])
    <3>1. /\ answer[r] = <<>> /\ req[r].known = {} /\ req[r].ask \in Queries
      BY <1>0, <2>1, AskIs DEF AskInv
    <3>2. /\ req'[r] \in Handlers /\ req'[r].ask = req[r].ask /\ req'[r].known = {}
          /\ req'[r].ask.kind = "time" /\ req'[r].ask.start > req'[r].ask.end
      BY <2>1, <2>2, <3>1 DEF Decided
    <3> QED BY <2>1, <3>1, <3>2, EmptyComplete
  <2> QED BY <1>a, <2>1, <2>2
<1>3. ASSUME NEW r \in Requests, NEW a, Answer(r, a), Complete(req[r], a)
      PROVE  DoneInv'
  <2>1. /\ Only(r) /\ req'[r].ask = req[r].ask /\ req'[r].known = req[r].known
        /\ req'[r].spoiled = req[r].spoiled
        /\ answer'[r] = a /\ \A s \in Requests : s # r => answer'[s] = answer[s]
    BY <1>0, <1>3, ReplyEffect, RepliedIs
  <2>2. Complete(req'[r], a)
    BY <1>3, <2>1, CompleteKept
  <2> QED BY <1>a, <2>1, <2>2
<1>4. ASSUME NEW r \in Requests, AnswerLocally(r) PROVE DoneInv'
  <2>1. Answer(r, LocalBars(req[r].ask)) /\ req[r].pc = "local"
    BY <1>4 DEF AnswerLocally
  <2> QED BY <1>3, <2>1, LocalComplete
<1>5. ASSUME NEW r \in Requests, Join(r) PROVE DoneInv'
  <2>1. Answer(r, req[r].older \o NativeBars(req[r])) /\ req[r].pc = "joining"
    BY <1>5 DEF Join
  <2> QED BY <1>3, <2>1, JoinComplete
<1>6. ASSUME NEW r \in Requests, SendRequest(r) PROVE DoneInv'
  <2>1. Only(r) /\ req'[r].pc \in {"sent", "gone"} /\ answer' = answer
    BY <1>0, <1>6, SendEffect
  <2> QED BY <1>a, <2>1
<1>7. ASSUME NEW r \in Requests, Register(r) PROVE DoneInv'
  <2>1. Only(r) /\ req'[r].pc = "waiting" /\ answer' = answer
    BY <1>0, <1>7, RegisterEffect
  <2> QED BY <1>a, <2>1
<1>8. ASSUME NEW m \in responses, TakeResponse(m) PROVE DoneInv'
  <2>1. PICK r \in Requests : Taken(m, r)
    BY <1>0, <1>8, TakeEffect
  <2>2. Only(r) /\ req'[r].pc = "joining" /\ answer' = answer
    BY <2>1 DEF Taken
  <2> QED BY <1>a, <2>2
<1>9. CASE ClearCounts
  <2> SUFFICES ASSUME NEW s \in Requests, req'[s].pc = "answered"
               PROVE  Complete(req'[s], answer'[s])
    BY DEF DoneInv, Complete, Promised, Wanted
  <2>1. /\ req'[s].spoiled /\ req'[s].pc = req[s].pc /\ req'[s].ask = req[s].ask
        /\ req'[s].known = req[s].known /\ answer' = answer
    BY <1>0, <1>9, SpoilEffect DEF ClearCounts
  <2>2. Complete(req[s], answer[s])
    BY <1>0, <2>1 DEF DoneInv
  <2> QED BY <2>1, <2>2, CompleteKept
<1>10. CASE Quiet
  BY <1>0, <1>10, QuietEffect DEF DoneInv, Complete, Promised, Wanted
<1> QED BY <1>1, <1>2, <1>4, <1>5, <1>6, <1>7, <1>8, <1>9, <1>10, HandlerCases

LEMMA IInvStep == IInv /\ [Next]_vars => IInv'
BY TypesStep, AskStep, IdStep, ClearStep, PlanStep, ResponseStep, DoneStep DEF IInv

LEMMA IInvImplies == IInv => TypeOK /\ PendingIsWaiting /\ AnswerIsComplete
<1> SUFFICES ASSUME IInv PROVE TypeOK /\ PendingIsWaiting /\ AnswerIsComplete
  OBVIOUS
<1>1. TypeOK
  <2>1. \A r \in Requests : req[r].pc \in Pcs /\ req[r].ask \in Asks[r] \cup {NoAsk}
    BY DEF IInv, Types, AskInv, Handlers
  <2>2. \A id \in DOMAIN pending : id < nextId /\ pending[id] \in Requests
    BY DEF IInv, IdInv, Waits
  <2>3. \A m \in sent \cup responses : m.id < nextId
    BY DEF IInv, IdInv
  <2> QED BY <2>1, <2>2, <2>3 DEF IInv, Types, TypeOK
<1>2. PendingIsWaiting
  BY DEF IInv, IdInv, PendingIsWaiting
<1>3. AnswerIsComplete
  BY DEF IInv, DoneInv, Complete, AnswerIsComplete
<1> QED BY <1>1, <1>2, <1>3

-----------------------------------------------------------------------------
(* Theorems *)

\* The inductive invariant: what the handlers of the queries know of the bars, of each
\* other and of the requests and responses on their way.
THEOREM Invariance == Spec => []IInv
BY InitIInv, IInvStep, PTL DEF Spec

\* Every query the pool threads handle, and every request and response, is well-formed.
THEOREM TypeCorrect == Spec => []TypeOK
BY Invariance, IInvImplies, PTL

\* g_mapClientKLineCache holds exactly the queries that wait for a response, each under
\* the id its request was sent with, however the threads that register, take and clear
\* them interleave.
THEOREM PendingExact == Spec => []PendingIsWaiting
BY Invariance, IInvImplies, PTL

\* However a query is answered, from memory or joined at a later moment from what the
\* cache server had at another, and whatever bars start meanwhile, its answer is one
\* uninterrupted run of bars up to the end it asked for.
THEOREM AnswersComplete == Spec => []AnswerIsComplete
BY Invariance, IInvImplies, PTL
=============================================================================
