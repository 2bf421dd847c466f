---------------------------- MODULE KLineProofs ----------------------------
(***************************************************************************)
(* Proofs about KLine for every calendar, bar length and bound: moving     *)
(* late quotes back into the session and rounding to bars keep the order   *)
(* of time, so that the bars are in order and inside the sessions,         *)
(* mapTimeCount describes exactly the bars there are, a finished bar is    *)
(* never changed, the volumes add up to the traded quantity and the file   *)
(* is never ahead of memory.                                               *)
(***************************************************************************)
EXTENDS KLine, Integers, WellFoundedInduction, FiniteSetTheorems, SequenceTheorems, TLAPS

-----------------------------------------------------------------------------
(* Induction over the natural numbers *)

\* A nonempty set of natural numbers has a least element.
LEMMA LeastNumber ==
    ASSUME NEW T \in SUBSET Nat, T # {}
    PROVE  \E x \in T : \A y \in T : x <= y
<1>1. PICK x \in T : \A y \in T : ~(<<y, x>> \in OpToRel(<, Nat))
  BY NatLessThanWellFounded, WFMin
<1>2. \A y \in T : ~(y < x)
  BY <1>1 DEF OpToRel
<1> QED BY <1>2

\* A set with 0 and the successor of each of its numbers has all of them.
LEMMA SetInduction ==
    ASSUME NEW T, 0 \in T, \A n \in Nat : n \in T => n + 1 \in T
    PROVE  Nat \subseteq T
<1> SUFFICES ASSUME Nat \ T # {} PROVE FALSE
  OBVIOUS
<1>1. PICK x \in Nat \ T : \A y \in Nat \ T : x <= y
  BY LeastNumber
<1>2. x - 1 \in Nat
  BY <1>1
<1> QED BY <1>1, <1>2

-----------------------------------------------------------------------------
(* The calendar *)

\* Rounding down to a multiple of Period.
LEMMA DivBounds ==
    ASSUME NEW ts \in Nat
    PROVE  /\ BarOf(ts) \in Nat
           /\ BarOf(ts) <= ts
           /\ ts < BarOf(ts) + Period
BY PeriodAssumption, Z3 DEF BarOf

\* A later time never falls into an earlier bar.
LEMMA BarOfMonotone ==
    ASSUME NEW s \in Nat, NEW t \in Nat, s <= t
    PROVE  BarOf(s) <= BarOf(t)
<1> DEFINE m == s \div Period
           n == t \div Period
<1>1. m \in Nat /\ n \in Nat /\ m <= n
  BY PeriodAssumption, Z3
<1>2. m * Period <= n * Period
  BY <1>1, PeriodAssumption, Z3
<1> QED BY <1>2 DEF BarOf

\* A time at least one bar into the day is not in the bar stamped 0.
LEMMA BarOfPositive ==
    ASSUME NEW ts \in Nat, Period <= ts
    PROVE  BarOf(ts) > 0
BY DivBounds, PeriodAssumption

\* Every nonempty bounded set of naturals has a greatest element.
LEMMA GreatestExists ==
    ASSUME NEW N \in Nat, NEW S \in SUBSET (0..N), S # {}
    PROVE  \E x \in S : \A y \in S : y <= x
<1> DEFINE D == {n \in 0..N : N - n \in S}
<1>1. D \in SUBSET Nat /\ D # {}
  <2>1. PICK y \in S : TRUE
    OBVIOUS
  <2>2. N - y \in D
    <3>1. y \in 0..N /\ N - y \in 0..N /\ N - (N - y) = y
      BY <2>1
    <3> QED BY <2>1, <3>1
  <2> QED BY <2>2
<1>2. PICK n \in D : \A m \in D : n <= m
  BY <1>1, LeastNumber
<1>3. \A y \in S : y <= N - n
  <2> SUFFICES ASSUME NEW y \in S PROVE y <= N - n
    OBVIOUS
  <2>1. y \in 0..N /\ N - y \in 0..N /\ N - (N - y) = y /\ n \in 0..N
    BY <1>2
  <2>2. N - y \in D
    BY <2>1
  <2>3. n <= N - y
    BY <1>2, <2>2
  <2> QED BY <2>1, <2>3
<1> QED BY <1>2, <1>3

LEMMA SegmentTypes ==
    ASSUME NEW k \in DOMAIN Segments
    PROVE  /\ k \in Nat
           /\ Segments[k].From \in Nat /\ Segments[k].To \in Nat
           /\ Period <= Segments[k].From /\ Segments[k].From < Segments[k].To
<1>1. k \in 1..Len(Segments)
  BY SegmentsAssumption
<1>2. Segments[k] \in [From : Nat, To : Nat]
  BY <1>1, SegmentsAssumption, ElementOfSeq
<1>3. Segments[k].From \in Nat /\ Segments[k].To \in Nat
  BY <1>2
<1> QED BY <1>1, <1>3, SegmentsAssumption

\* The segment the loop stops at accepts the quote, and no earlier one does.
LEMMA FirstHitIsFirst ==
    ASSUME NEW ts \in Nat, IsInTradeTime(ts)
    PROVE  /\ FirstHit(ts) \in DOMAIN Segments
           /\ Accepts(FirstHit(ts), ts)
           /\ \A j \in DOMAIN Segments : Accepts(j, ts) => FirstHit(ts) <= j
<1>1. DOMAIN Segments \subseteq Nat
  BY SegmentsAssumption
<1>2. Hits(ts) \in SUBSET Nat /\ Hits(ts) # {}
  BY <1>1 DEF Hits, IsInTradeTime
<1>3. \E i \in Hits(ts) : \A j \in Hits(ts) : i <= j
  BY <1>2, LeastNumber
<1>4. FirstHit(ts) \in Hits(ts) /\ \A j \in Hits(ts) : FirstHit(ts) <= j
  BY <1>3 DEF FirstHit
<1> QED BY <1>4 DEF Hits

\* The adjusted stamp lies in the session and is no later than the original.
LEMMA TradeStampBounds ==
    ASSUME NEW ts \in Nat, IsInTradeTime(ts)
    PROVE  /\ TradeStamp(ts) \in Nat
           /\ Period <= TradeStamp(ts)
           /\ TradeStamp(ts) <= ts
<1> DEFINE i == FirstHit(ts)
<1>1. i \in DOMAIN Segments /\ Accepts(i, ts)
  BY FirstHitIsFirst
<1>2. /\ Segments[i].From \in Nat /\ Segments[i].To \in Nat
      /\ Period <= Segments[i].From /\ Segments[i].From < Segments[i].To
  BY <1>1, SegmentTypes
<1> HIDE DEF i
<1> QED BY <1>1, <1>2, PeriodAssumption DEF TradeStamp, Accepts, i

\* Whatever the calendar and the order of its segments, moving late quotes back
\* into the session never swaps two quotes.
THEOREM TradeStampMonotone ==
    ASSUME NEW s \in Nat, NEW t \in Nat, s <= t,
           IsInTradeTime(s), IsInTradeTime(t)
    PROVE  TradeStamp(s) <= TradeStamp(t)
<1> DEFINE i == FirstHit(s)
           j == FirstHit(t)
<1>1. /\ i \in DOMAIN Segments /\ Accepts(i, s)
      /\ \A k \in DOMAIN Segments : Accepts(k, s) => i <= k
  BY FirstHitIsFirst
<1>2. /\ j \in DOMAIN Segments /\ Accepts(j, t)
      /\ \A k \in DOMAIN Segments : Accepts(k, t) => j <= k
  BY FirstHitIsFirst
<1>3. \A k \in DOMAIN Segments :
        k \in Nat /\ Segments[k].From \in Nat /\ Segments[k].To \in Nat
  BY SegmentTypes
<1>4. TradeStamp(s) = IF s < Segments[i].To THEN s ELSE Segments[i].To - 1
  BY DEF TradeStamp
<1>5. TradeStamp(t) = IF t < Segments[j].To THEN t ELSE Segments[j].To - 1
  BY DEF TradeStamp
<1>6. TradeStamp(s) <= s
  BY TradeStampBounds
<1> HIDE DEF i, j
<1>7. CASE t < Segments[j].To
  BY <1>1, <1>3, <1>4, <1>5, <1>6, <1>7
<1>8. CASE ~(t < Segments[j].To) /\ s < Segments[j].To
  BY <1>1, <1>2, <1>3, <1>4, <1>5, <1>8
<1>9. CASE ~(t < Segments[j].To) /\ ~(s < Segments[j].To)
  \* Both are past the close of j, hence j accepts s too and i comes first.
  <2>1. Accepts(j, s)
    BY <1>2, <1>3, <1>9, SegmentsAssumption, GraceAssumption DEF Accepts
  <2>2. i <= j
    BY <1>1, <1>2, <2>1
  <2>3. CASE Accepts(i, t)
    <3>1. i = j
      BY <1>1, <1>2, <1>3, <2>2, <2>3
    <3> QED BY <1>3, <1>4, <1>5, <1>2, <1>9, <3>1
  <2>4. CASE ~Accepts(i, t)
    \* Then i closed before j, so the close of i bounds the stamp of s.
    <3>1. Segments[i].To + Grace <= t
      BY <1>1, <1>3, <2>4, GraceAssumption DEF Accepts
    <3>2. t < Segments[j].To + Grace
      BY <1>2 DEF Accepts
    <3>3. Segments[i].To < Segments[j].To
      BY <1>1, <1>2, <1>3, <3>1, <3>2, GraceAssumption
    <3> QED BY <1>1, <1>2, <1>3, <1>4, <1>5, <1>9, <3>3
  <2> QED BY <2>3, <2>4
<1> QED BY <1>7, <1>8, <1>9

-----------------------------------------------------------------------------
(* The bars: definitions *)

\* The oldest time a quote handled from now on may carry.
Seen == IF lastQuote = NoQuote THEN resume.ts ELSE lastQuote.ts

\* No quote still to come can fall into a bar older than t.
BehindFeed(t) ==
    \A x \in 1..MaxTime :
        x >= Seen /\ IsInTradeTime(x) => t <= BarOf(TradeStamp(x))

\* A dead process has no memory.
DownIsEmpty ==
    ~up => /\ DOMAIN cache = {} /\ last = NoBar /\ DOMAIN count = {}
           /\ lastQuote = NoQuote /\ pend = NoQuote /\ DOMAIN saving = {}

\* A quote between HandleQuote and CalKLine is the cached one.
PendIsLast == pend # NoQuote => phase = "trading" /\ pend = lastQuote

ResumeIsOld == lastQuote # NoQuote => resume.ts <= lastQuote.ts

ClearedIsEmpty ==
    /\ phase = "countCleared" => DOMAIN count = {}
    /\ phase \in {"barsCleared", "cleared"} =>
          DOMAIN cache = {} /\ last = NoBar /\ DOMAIN count = {}

FeedAhead ==
    phase = "trading" =>
        \A t \in BarTimes \cup DOMAIN file \cup DOMAIN saving : BehindFeed(t)

\* The inductive invariant.
IInv ==
    /\ TypeOK
    /\ DownIsEmpty
    /\ PendIsLast
    /\ ResumeIsOld
    /\ ClearedIsEmpty
    /\ (last.t = 0 => DOMAIN cache = {})
    /\ BarsInOrder
    /\ CountsMatchBars
    /\ FeedAhead

-----------------------------------------------------------------------------
(* Ranks *)

LEMMA RankType ==
    ASSUME NEW S \in SUBSET (1..MaxTime)
    PROVE  IsFiniteSet(S) /\ Cardinality(S) \in Nat
<1>1. IsFiniteSet(1..MaxTime)
  BY FS_Interval, BoundsAssumption
<1>2. IsFiniteSet(S)
  BY <1>1, FS_Subset
<1> QED BY <1>2, FS_CardinalityType

\* A new, newest bar does not disturb the ranks of the others and gets the next
\* rank itself.
LEMMA RankOfNewest ==
    ASSUME NEW S \in SUBSET (1..MaxTime), NEW t \in 1..MaxTime,
           \A u \in S : u < t
    PROVE  /\ \A x \in S : Rank(S \cup {t}, x) = Rank(S, x)
           /\ Rank(S \cup {t}, t) = Cardinality(S) + 1
<1>1. \A u \in S \cup {t} : u \in Nat
  BY BoundsAssumption
<1>2. ASSUME NEW x \in S
      PROVE  Rank(S \cup {t}, x) = Rank(S, x)
  <2>1. {u \in S \cup {t} : u <= x} = {u \in S : u <= x}
    BY <1>1
  <2> QED BY <2>1 DEF Rank
<1>3. Rank(S \cup {t}, t) = Cardinality(S) + 1
  <2>1. {u \in S \cup {t} : u <= t} = S \cup {t}
    <3>1. \A u \in S \cup {t} : u <= t
      BY <1>1
    <3> QED BY <3>1
  <2>2. t \notin S
    BY <1>1
  <2>3. Cardinality(S \cup {t}) = Cardinality(S) + 1
    BY <2>2, RankType, FS_AddElement
  <2> QED BY <2>1, <2>3 DEF Rank
<1> QED BY <1>2, <1>3

\* The newest bar has as rank the number of bars.
LEMMA RankIsCardinality ==
    ASSUME NEW S \in SUBSET (1..MaxTime), NEW n \in S, \A u \in S : u <= n
    PROVE  Rank(S, n) = Cardinality(S)
<1>1. {u \in S : u <= n} = S
  OBVIOUS
<1> QED BY <1>1 DEF Rank

\* CHOOSE finds the key a caller knows to be the largest.
LEMMA NewestIs ==
    ASSUME NEW S \in SUBSET (1..MaxTime), NEW n \in S, \A u \in S : u <= n
    PROVE  Newest(S) = n
<1>1. Newest(S) \in S /\ \A u \in S : u <= Newest(S)
  BY DEF Newest
<1>2. Newest(S) <= n /\ n <= Newest(S)
  BY <1>1
<1>3. \A u \in S : u \in Nat
  BY BoundsAssumption
<1>4. Newest(S) \in Nat /\ n \in Nat
  BY <1>1, <1>3
<1> HIDE DEF Newest
<1> QED BY <1>2, <1>4

LEMMA NewestExists ==
    ASSUME NEW S \in SUBSET (1..MaxTime), S # {}
    PROVE  Newest(S) \in S /\ \A u \in S : u <= Newest(S)
<1>1. \E n \in S : \A u \in S : u <= n
  <2>1. S \in SUBSET (0..MaxTime)
    BY BoundsAssumption
  <2> QED BY <2>1, GreatestExists, BoundsAssumption
<1> QED BY <1>1 DEF Newest

\* The bar a quote falls into has a legal time stamp.
LEMMA QuoteBar ==
    ASSUME NEW x \in 1..MaxTime, IsInTradeTime(x)
    PROVE  BarOf(TradeStamp(x)) \in 1..MaxTime
<1>1. TradeStamp(x) \in Nat /\ Period <= TradeStamp(x) /\ TradeStamp(x) <= x
  BY TradeStampBounds, BoundsAssumption
<1>2. BarOf(TradeStamp(x)) \in Nat /\ BarOf(TradeStamp(x)) <= TradeStamp(x)
  BY <1>1, DivBounds
<1>3. BarOf(TradeStamp(x)) > 0
  BY <1>1, BarOfPositive
<1> QED BY <1>1, <1>2, <1>3, BoundsAssumption

\* The bar of the newest quote is behind every quote still to come.
LEMMA NewBarBehindFeed ==
    ASSUME NEW x \in 1..MaxTime, NEW y \in 1..MaxTime, x <= y,
           IsInTradeTime(x), IsInTradeTime(y)
    PROVE  BarOf(TradeStamp(x)) <= BarOf(TradeStamp(y))
<1>1. TradeStamp(x) <= TradeStamp(y)
  BY TradeStampMonotone, BoundsAssumption
<1>2. TradeStamp(x) \in Nat /\ TradeStamp(y) \in Nat
  BY TradeStampBounds, BoundsAssumption
<1> QED BY <1>1, <1>2, BarOfMonotone

-----------------------------------------------------------------------------
(* The inductive invariant *)

LEMMA EmptyMapIsMap == DOMAIN EmptyMap = {} /\ IsMap(EmptyMap)
<1>1. DOMAIN EmptyMap = {}
  BY DEF EmptyMap
<1>2. EmptyMap = [t \in DOMAIN EmptyMap |-> EmptyMap[t]]
  BY DEF EmptyMap
<1> QED BY <1>1, <1>2 DEF IsMap

LEMMA InitIInv == Init => IInv
<1> SUFFICES ASSUME Init PROVE IInv
  OBVIOUS
<1>1. TypeOK
  BY BoundsAssumption DEF Init, TypeOK, Phases, IsMap, EmptyMap, NoBar
<1>2. CountsMatchBars /\ BarsInOrder
  BY DEF Init, CountsMatchBars, BarsInOrder, BarTimes, EmptyMap, NoBar
<1>3. FeedAhead
  BY DEF Init, FeedAhead, BarTimes, EmptyMap, NoBar
<1> QED
  BY <1>1, <1>2, <1>3
  DEF Init, IInv, DownIsEmpty, PendIsLast, ResumeIsOld, ClearedIsEmpty, EmptyMap, NoBar

\* Steps that touch neither bars nor counts.
LEMMA HandleQuoteIInv ==
    ASSUME IInv, NEW q \in Quote, NEW priced \in BOOLEAN, HandleQuote(q, priced)
    PROVE  IInv'
<1> USE DEF IInv, HandleQuote, IsCurrent
<1>1. TypeOK'
  BY DEF TypeOK, IsMap
<1>2. Seen' = q.ts /\ Seen <= q.ts
  <2>1. lastQuote' = q /\ q # NoQuote
    BY DEF Quote, NoQuote
  <2> QED BY <2>1 DEF Seen
<1>3. FeedAhead'
  <2> SUFFICES ASSUME NEW t \in BarTimes \cup DOMAIN file \cup DOMAIN saving,
                      NEW x \in 1..MaxTime, x >= Seen', IsInTradeTime(x)
               PROVE  t <= BarOf(TradeStamp(x))
    BY DEF FeedAhead, BehindFeed, BarTimes
  <2>1. x >= Seen
    BY <1>2, BoundsAssumption DEF Seen, TypeOK, Quote, NoQuote
  <2> QED BY <2>1 DEF FeedAhead, BehindFeed
<1>4. (DownIsEmpty /\ PendIsLast /\ ResumeIsOld /\ ClearedIsEmpty)'
  BY DEF DownIsEmpty, PendIsLast, ResumeIsOld, ClearedIsEmpty
<1>5. (BarsInOrder /\ CountsMatchBars)' /\ (last'.t = 0 => DOMAIN cache' = {})
  BY DEF BarsInOrder, CountsMatchBars, BarTimes, Rank
<1> QED BY <1>1, <1>3, <1>4, <1>5

LEMMA SkipKLineIInv ==
    ASSUME IInv, SkipKLine
    PROVE  IInv'
<1> USE DEF IInv, SkipKLine
<1>1. TypeOK'
  BY DEF TypeOK, IsMap
<1>2. FeedAhead'
  BY DEF FeedAhead, BehindFeed, BarTimes, Seen
<1>3. (DownIsEmpty /\ PendIsLast /\ ResumeIsOld /\ ClearedIsEmpty)'
  BY DEF DownIsEmpty, PendIsLast, ResumeIsOld, ClearedIsEmpty
<1>4. (BarsInOrder /\ CountsMatchBars)' /\ (last'.t = 0 => DOMAIN cache' = {})
  BY DEF BarsInOrder, CountsMatchBars, BarTimes, Rank
<1> QED BY <1>1, <1>2, <1>3, <1>4

LEMMA CloseGateIInv ==
    ASSUME IInv, CloseGate
    PROVE  IInv'
<1> USE DEF IInv, CloseGate
<1>1. TypeOK'
  BY DEF TypeOK, IsMap, Phases
<1>2. (DownIsEmpty /\ PendIsLast /\ ResumeIsOld /\ ClearedIsEmpty /\ FeedAhead)'
  BY DEF DownIsEmpty, PendIsLast, ResumeIsOld, ClearedIsEmpty, FeedAhead
<1>3. (BarsInOrder /\ CountsMatchBars)' /\ (last'.t = 0 => DOMAIN cache' = {})
  BY DEF BarsInOrder, CountsMatchBars, BarTimes, Rank
<1> QED BY <1>1, <1>2, <1>3

LEMMA SaveIInv ==
    ASSUME IInv, SaveCopy \/ SaveWrite
    PROVE  IInv'
<1> USE DEF IInv, SaveCopy, SaveWrite, DayOpen
<1>1. BarTimes \in SUBSET (1..MaxTime)
  BY DEF BarTimes, TypeOK, IsMap
<1>2. IsMap(Bars)
  BY <1>1 DEF Bars, IsMap
<1>3. TypeOK'
  BY <1>2 DEF TypeOK, IsMap, EmptyMap
<1>4. FeedAhead'
  <2>1. DOMAIN file' \cup DOMAIN saving' \subseteq BarTimes \cup DOMAIN file \cup DOMAIN saving
    BY DEF Bars, EmptyMap
  <2>2. BarTimes' = BarTimes /\ Seen' = Seen
    BY DEF BarTimes, Seen
  <2> QED BY <2>1, <2>2 DEF FeedAhead, BehindFeed
<1>5. (DownIsEmpty /\ PendIsLast /\ ResumeIsOld /\ ClearedIsEmpty)'
  BY DEF DownIsEmpty, PendIsLast, ResumeIsOld, ClearedIsEmpty
<1>6. (BarsInOrder /\ CountsMatchBars)' /\ (last'.t = 0 => DOMAIN cache' = {})
  BY DEF BarsInOrder, CountsMatchBars, BarTimes, Rank
<1> QED BY <1>3, <1>4, <1>5, <1>6

LEMMA ClearIInv ==
    ASSUME IInv, ClearCount \/ ClearBars \/ ClearLastQuote
    PROVE  IInv'
<1> USE DEF IInv, ClearCount, ClearBars, ClearLastQuote
<1>1. TypeOK'
  <2>1. IsMap(cache)' /\ IsMap(count)' /\ IsMap(saving)' /\ IsMap(file)'
    BY EmptyMapIsMap DEF IsMap, TypeOK
  <2>2. last'.t \in 0..MaxTime
    BY BoundsAssumption DEF NoBar, TypeOK
  <2> QED BY <2>1, <2>2 DEF TypeOK, Phases
<1>2. (DownIsEmpty /\ PendIsLast /\ ResumeIsOld /\ ClearedIsEmpty /\ FeedAhead)'
  BY DEF DownIsEmpty, PendIsLast, ResumeIsOld, ClearedIsEmpty, FeedAhead, EmptyMap
<1>3. BarsInOrder' /\ (last'.t = 0 => DOMAIN cache' = {})
  BY DEF BarsInOrder, EmptyMap
<1>4. CountsMatchBars'
  <2>1. CASE ClearCount
    BY <2>1 DEF CountsMatchBars
  <2>2. CASE ClearBars \/ ClearLastQuote
    <3>1. DOMAIN count' = {} /\ DOMAIN cache' = {} /\ last'.t = 0
      BY <2>2, EmptyMapIsMap DEF ClearedIsEmpty, NoBar
    <3> QED BY <3>1 DEF CountsMatchBars, BarTimes
  <2> QED BY <2>1, <2>2
<1> QED BY <1>1, <1>2, <1>3, <1>4

LEMMA DailyRestartIInv ==
    ASSUME IInv, DailyRestart
    PROVE  IInv'
<1> USE DEF IInv, DailyRestart
<1>1. TypeOK'
  BY BoundsAssumption DEF TypeOK, IsMap, Phases, EmptyMap, NoBar
<1>2. (BarsInOrder /\ CountsMatchBars /\ FeedAhead)' /\ (last'.t = 0 => DOMAIN cache' = {})
  BY DEF BarsInOrder, CountsMatchBars, FeedAhead, BarTimes, EmptyMap, NoBar
<1>3. (DownIsEmpty /\ PendIsLast /\ ResumeIsOld /\ ClearedIsEmpty)'
  BY DEF DownIsEmpty, PendIsLast, ResumeIsOld, ClearedIsEmpty, EmptyMap, NoBar
<1> QED BY <1>1, <1>2, <1>3

LEMMA CrashIInv ==
    ASSUME IInv, Crash
    PROVE  IInv'
<1> USE DEF IInv, Crash
<1>1. IsMap(file') /\ DOMAIN file' \subseteq DOMAIN file \cup DOMAIN saving
  BY DEF TypeOK, IsMap, Restrict
<1>2. TypeOK'
  <2>1. IsMap(cache)' /\ IsMap(count)' /\ IsMap(saving)'
    BY EmptyMapIsMap DEF IsMap
  <2>2. last'.t = 0
    BY DEF NoBar
  <2>3. lastQuote' \in Quote \cup {NoQuote} /\ pend' \in Quote \cup {NoQuote}
    OBVIOUS
  <2>4. resume' \in Quote \cup {NoQuote}
    BY DEF TypeOK
  <2>5. phase' \in Phases /\ up' \in BOOLEAN
    BY DEF TypeOK
  <2>6. last'.t \in 0..MaxTime
    BY <2>2, BoundsAssumption
  <2> QED BY <1>1, <2>1, <2>3, <2>4, <2>5, <2>6 DEF TypeOK, IsMap
<1>3. Seen' = Seen
  BY DEF Seen
<1>4. FeedAhead'
  <2>1. BarTimes' = {} /\ DOMAIN saving' = {}
    BY DEF BarTimes, EmptyMap, NoBar
  <2> QED BY <1>1, <1>3, <2>1 DEF FeedAhead, BehindFeed
<1>5. (DownIsEmpty /\ PendIsLast /\ ResumeIsOld /\ ClearedIsEmpty)'
  BY DEF DownIsEmpty, PendIsLast, ResumeIsOld, ClearedIsEmpty, EmptyMap, NoBar
<1>6. (BarsInOrder /\ CountsMatchBars)' /\ (last'.t = 0 => DOMAIN cache' = {})
  BY DEF BarsInOrder, CountsMatchBars, BarTimes, EmptyMap, NoBar
<1> QED BY <1>2, <1>4, <1>5, <1>6

LEMMA RecoverIInv ==
    ASSUME IInv, Recover
    PROVE  IInv'
<1> USE DEF IInv
<1> DEFINE fromFile == phase \in {"trading", "closed"} /\ DOMAIN file # {}
<1>0. /\ DOMAIN cache = {} /\ last.t = 0 /\ DOMAIN count = {}
      /\ lastQuote = NoQuote /\ pend = NoQuote /\ last = NoBar /\ DOMAIN saving = {}
  BY DEF Recover, DownIsEmpty, NoBar
<1>1. CASE ~fromFile
  <2>1. up' /\ UNCHANGED <<cache, last, count, phase, lastQuote, pend, saving, file, resume>>
    BY <1>1 DEF Recover, DayOpen
  <2>2. TypeOK'
    BY <2>1 DEF TypeOK, IsMap, Recover
  <2>3. (DownIsEmpty /\ PendIsLast /\ ResumeIsOld /\ ClearedIsEmpty)'
    BY <2>1 DEF DownIsEmpty, PendIsLast, ResumeIsOld, ClearedIsEmpty
  <2>4. (BarsInOrder /\ CountsMatchBars)' /\ (last'.t = 0 => DOMAIN cache' = {})
    BY <1>0, <2>1 DEF BarsInOrder, CountsMatchBars, BarTimes
  <2>5. FeedAhead'
    BY <2>1 DEF FeedAhead, BehindFeed, BarTimes, Seen
  <2> QED BY <2>2, <2>3, <2>4, <2>5
<1>2. CASE fromFile
  <2> DEFINE S == DOMAIN file
             n == Newest(S)
  <2>1. S \in SUBSET (1..MaxTime) /\ S # {}
    BY <1>2 DEF TypeOK, IsMap
  <2>2. n \in S /\ \A u \in S : u <= n
    BY <2>1, NewestExists
  <2>3. /\ last'.t = n
        /\ cache' = [t \in S \ {n} |-> file[t]]
        /\ count' = [t \in S |-> Rank(S, t)]
        /\ up' = TRUE
        /\ UNCHANGED <<phase, lastQuote, pend, saving, file, resume>>
    BY <1>2 DEF Recover, RecoveredTotal, DayOpen, Restrict
  <2> HIDE DEF n, S
  <2>4. n \in 1..MaxTime /\ S \subseteq 1..MaxTime /\ n # 0
    BY <2>1, <2>2
  <2>5. TypeOK'
    <3>1. IsMap(cache)' /\ IsMap(count)'
      BY <2>3, <2>4 DEF IsMap
    <3>2. last'.t \in 0..MaxTime
      BY <2>3, <2>4
    <3>3. IsMap(saving)' /\ IsMap(file)'
      BY <2>3 DEF IsMap, TypeOK
    <3> QED BY <2>3, <3>1, <3>2, <3>3 DEF TypeOK
  <2>6. BarTimes' = S
    BY <2>2, <2>3, <2>4 DEF BarTimes
  <2>7. BarsInOrder' /\ (last'.t = 0 => DOMAIN cache' = {})
    BY <2>2, <2>3, <2>4 DEF BarsInOrder
  <2>8. CountsMatchBars'
    <3>1. \A t \in S : count'[t] = Rank(S, t)
      BY <2>3
    <3>2. DOMAIN count' = S
      BY <2>3
    <3> QED BY <3>1, <3>2, <2>6 DEF CountsMatchBars, Rank
  <2>9. (DownIsEmpty /\ PendIsLast /\ ResumeIsOld /\ ClearedIsEmpty)'
    BY <1>0, <1>2, <2>3 DEF DownIsEmpty, PendIsLast, ResumeIsOld, ClearedIsEmpty
  <2>10. FeedAhead'
    <3>1. Seen' = Seen /\ DOMAIN saving' = {} /\ DOMAIN file' = S
      BY <1>0, <2>3 DEF Seen, S
    <3> QED BY <2>3, <2>6, <3>1 DEF FeedAhead, BehindFeed, S
  <2> QED BY <2>5, <2>7, <2>8, <2>9, <2>10
<1> QED BY <1>1, <1>2

\* What CalKLine knows of the bar it is about to touch.
LEMMA CalKLineFacts ==
    ASSUME IInv, NEW t \in 0..MaxTime, CalKLine(t)
    PROVE  /\ t \in 1..MaxTime
           /\ last.t <= t
           /\ phase = "trading" /\ pend = lastQuote /\ lastQuote # NoQuote
           /\ \A x \in 1..MaxTime : x >= Seen /\ IsInTradeTime(x) =>
                   t <= BarOf(TradeStamp(x))
<1> USE DEF IInv
<1>1. phase = "trading" /\ pend = lastQuote /\ lastQuote # NoQuote
  BY DEF CalKLine, PendIsLast
<1>2. pend.ts \in 1..MaxTime /\ IsInTradeTime(pend.ts) /\ Seen = pend.ts
  BY <1>1 DEF CalKLine, TypeOK, Quote, Seen
<1>3. t = BarOf(TradeStamp(pend.ts)) /\ t \in 1..MaxTime
  BY <1>2, QuoteBar DEF CalKLine
<1>4. last.t <= t
  <2>1. CASE last.t = 0
    BY <1>3, <2>1, BoundsAssumption
  <2>2. CASE last.t # 0
    <3>1. BehindFeed(last.t)
      BY <1>1, <2>2 DEF FeedAhead, BarTimes
    <3>2. pend.ts >= Seen
      BY <1>2, BoundsAssumption
    <3> QED BY <1>2, <1>3, <3>1, <3>2 DEF BehindFeed
  <2> QED BY <2>1, <2>2
<1>5. ASSUME NEW x \in 1..MaxTime, x >= Seen, IsInTradeTime(x)
      PROVE  t <= BarOf(TradeStamp(x))
  BY <1>2, <1>3, <1>5, NewBarBehindFeed
<1> QED BY <1>1, <1>3, <1>4, <1>5

\* What the three branches leave true in the same way.
LEMMA CalKLineKeeps ==
    ASSUME IInv, NEW t \in 0..MaxTime, CalKLine(t),
           BarTimes' \subseteq BarTimes \cup {t}
    PROVE  (DownIsEmpty /\ PendIsLast /\ ResumeIsOld /\ ClearedIsEmpty /\ FeedAhead)'
<1> USE DEF IInv
<1>1. phase' = "trading" /\ up' /\ pend' = NoQuote
  BY CalKLineFacts DEF CalKLine
<1>2. (DownIsEmpty /\ PendIsLast /\ ResumeIsOld /\ ClearedIsEmpty)'
  BY <1>1 DEF CalKLine, DownIsEmpty, PendIsLast, ResumeIsOld, ClearedIsEmpty
<1>3. FeedAhead'
  <2>1. Seen' = Seen /\ UNCHANGED <<file, saving, phase>>
    BY DEF CalKLine, Seen
  <2>2. \A u \in BarTimes' \cup DOMAIN file \cup DOMAIN saving : BehindFeed(u)
    BY CalKLineFacts DEF FeedAhead, BehindFeed
  <2> QED BY <2>1, <2>2 DEF FeedAhead, BehindFeed
<1> QED BY <1>2, <1>3

LEMMA FirstBarIInv ==
    ASSUME IInv, NEW t \in 0..MaxTime, FirstBar(t)
    PROVE  IInv'
<1> USE DEF IInv
<1>1. CalKLine(t) /\ DOMAIN cache = {} /\ last.t = 0
  BY DEF FirstBar, NoBarsYet
<1>2. t \in 1..MaxTime /\ t # 0 /\ phase = "trading"
  BY <1>1, CalKLineFacts
<1>3. DOMAIN count = {}
  BY <1>1, <1>2 DEF CountsMatchBars, BarTimes
<1>4. /\ last'.t = t /\ cache' = cache
      /\ count' = [k \in {t} |-> 1]
      /\ UNCHANGED <<phase, up, lastQuote, saving, file, resume>>
      /\ pend' = NoQuote
  BY <1>1, <1>3 DEF FirstBar, Put, CalKLine
<1>5. BarTimes' = {t}
  BY <1>1, <1>2, <1>4 DEF BarTimes
<1>6. TypeOK'
  BY <1>2, <1>4 DEF TypeOK, IsMap
<1>7. (BarsInOrder)' /\ (last'.t = 0 => DOMAIN cache' = {})
  BY <1>1, <1>4 DEF BarsInOrder
<1>8. CountsMatchBars'
  <2>1. Rank({t}, t) = 1
    <3>1. Rank({t}, t) = Cardinality({t})
      BY <1>2, RankIsCardinality, BoundsAssumption
    <3> QED BY <3>1, FS_Singleton
  <2> QED BY <1>4, <1>5, <2>1 DEF CountsMatchBars, Rank
<1> QED BY <1>1, <1>5, <1>6, <1>7, <1>8, CalKLineKeeps

LEMMA SameBarIInv ==
    ASSUME IInv, NEW t \in 0..MaxTime, SameBar(t)
    PROVE  IInv'
<1> USE DEF IInv
<1>1. /\ CalKLine(t) /\ last.t = t /\ last'.t = t
      /\ UNCHANGED <<cache, count, phase, up, lastQuote, saving, file, resume>>
      /\ pend' = NoQuote
  BY DEF SameBar, CalKLine
<1>2. BarTimes' = BarTimes
  BY <1>1 DEF BarTimes
<1>3. TypeOK'
  BY <1>1 DEF TypeOK, IsMap
<1>4. (BarsInOrder /\ CountsMatchBars)' /\ (last'.t = 0 => DOMAIN cache' = {})
  BY <1>1, <1>2 DEF BarsInOrder, CountsMatchBars, Rank
<1> QED BY <1>1, <1>2, <1>3, <1>4, CalKLineKeeps

LEMMA NextBarIInv ==
    ASSUME IInv, NEW t \in 0..MaxTime, NextBar(t)
    PROVE  IInv'
<1> USE DEF IInv
<1>1. CalKLine(t) /\ last.t # t /\ ~NoBarsYet
  BY DEF NextBar
<1>2. t \in 1..MaxTime /\ phase = "trading" /\ last.t <= t
  BY <1>1, CalKLineFacts
<1>3. last.t # 0 /\ last.t \in 1..MaxTime /\ last.t < t
  BY <1>1, <1>2, BoundsAssumption DEF NoBarsYet, TypeOK
<1>4. BarTimes = DOMAIN cache \cup {last.t} /\ BarTimes \in SUBSET (1..MaxTime)
  BY <1>3 DEF BarTimes, TypeOK, IsMap
<1>5. \A u \in BarTimes : u <= last.t /\ u < t
  <2>1. \A u \in BarTimes : u \in Nat
    BY <1>4, BoundsAssumption
  <2> QED BY <1>3, <1>4, <2>1 DEF BarsInOrder
<1>6. DOMAIN count = BarTimes /\ \A u \in BarTimes : count[u] = Rank(BarTimes, u)
  BY <1>2 DEF CountsMatchBars
<1>7. count[Newest(DOMAIN count)] = Cardinality(BarTimes)
  <2>1. Newest(BarTimes) = last.t
    BY <1>4, <1>5, NewestIs
  <2>2. Rank(BarTimes, last.t) = Cardinality(BarTimes)
    BY <1>4, <1>5, RankIsCardinality
  <2> QED BY <1>4, <1>6, <2>1, <2>2
<1>8. /\ last'.t = t
      /\ cache' = [k \in DOMAIN cache \cup {last.t} |->
                     IF k = last.t THEN last.vol ELSE cache[k]]
      /\ count' = [k \in BarTimes \cup {t} |->
                     IF k = t THEN Cardinality(BarTimes) + 1 ELSE count[k]]
      /\ UNCHANGED <<phase, up, lastQuote, saving, file, resume>>
      /\ pend' = NoQuote
  BY <1>4, <1>6, <1>7 DEF NextBar, NextCount, Put, CalKLine
<1>9. BarTimes' = BarTimes \cup {t}
  BY <1>2, <1>4, <1>8 DEF BarTimes
<1>10. TypeOK'
  <2>1. IsMap(cache)' /\ IsMap(count)'
    BY <1>2, <1>4, <1>8 DEF IsMap
  <2>2. IsMap(saving)' /\ IsMap(file)' /\ last'.t \in 0..MaxTime
    BY <1>2, <1>8 DEF TypeOK, IsMap
  <2> QED BY <1>8, <2>1, <2>2 DEF TypeOK
<1>11. BarsInOrder' /\ (last'.t = 0 => DOMAIN cache' = {})
  BY <1>2, <1>4, <1>5, <1>8 DEF BarsInOrder
<1>12. CountsMatchBars'
  <2>1. /\ \A u \in BarTimes : Rank(BarTimes \cup {t}, u) = Rank(BarTimes, u)
        /\ Rank(BarTimes \cup {t}, t) = Cardinality(BarTimes) + 1
    BY <1>2, <1>4, <1>5, RankOfNewest
  <2>2. \A u \in BarTimes \cup {t} : count'[u] = Rank(BarTimes \cup {t}, u)
    BY <1>5, <1>6, <1>8, <2>1
  <2>3. DOMAIN count' = BarTimes \cup {t}
    BY <1>8
  <2> QED BY <1>9, <2>2, <2>3 DEF CountsMatchBars, Rank
<1> QED BY <1>1, <1>9, <1>10, <1>11, <1>12, CalKLineKeeps

LEMMA NextIInv == IInv /\ [Next]_vars => IInv'
<1> SUFFICES ASSUME IInv, [Next]_vars PROVE IInv'
  OBVIOUS
<1>1. CASE UNCHANGED vars
  BY <1>1
  DEF vars, IInv, TypeOK, IsMap, DownIsEmpty, PendIsLast, ResumeIsOld, ClearedIsEmpty,
      BarsInOrder, CountsMatchBars, FeedAhead, BehindFeed, Seen, BarTimes, Rank
<1>2. ASSUME NEW q \in Quote, NEW priced \in BOOLEAN, HandleQuote(q, priced)
      PROVE  IInv'
  BY <1>2, HandleQuoteIInv
<1>3. ASSUME NEW t \in 0..MaxTime, FirstBar(t) \/ SameBar(t) \/ NextBar(t)
      PROVE  IInv'
  BY <1>3, FirstBarIInv, SameBarIInv, NextBarIInv
<1>4. CASE SkipKLine \/ CloseGate \/ SaveCopy \/ SaveWrite
  BY <1>4, SkipKLineIInv, CloseGateIInv, SaveIInv
<1>5. CASE ClearCount \/ ClearBars \/ ClearLastQuote
  BY <1>5, ClearIInv
<1>6. CASE Crash \/ Recover \/ DailyRestart
  BY <1>6, CrashIInv, RecoverIInv, DailyRestartIInv
<1> QED BY <1>1, <1>2, <1>3, <1>4, <1>5, <1>6 DEF Next

-----------------------------------------------------------------------------
(* Theorems *)

LEMMA IInvHolds == Spec => []IInv
BY InitIInv, NextIInv, PTL DEF Spec

\* The state keeps its type.
THEOREM TypeCorrect == Spec => []TypeOK
<1>1. IInv => TypeOK
  BY DEF IInv
<1> QED BY <1>1, IInvHolds, PTL

\* The running bar is always newer than the finished ones.
THEOREM BarsStayInOrder == Spec => []BarsInOrder
<1>1. IInv => BarsInOrder
  BY DEF IInv
<1> QED BY <1>1, IInvHolds, PTL

\* mapTimeCount always describes exactly the bars there are.
THEOREM CountsAlwaysMatch == Spec => []CountsMatchBars
<1>1. IInv => CountsMatchBars
  BY DEF IInv
<1> QED BY <1>1, IInvHolds, PTL

\* A finished bar changes only by leaving memory.
THEOREM FinishedBarsNeverChange == Spec => FinishedBarsFrozen
<1> DEFINE Frozen == ~ClearBars /\ ~Crash =>
                 \A t \in DOMAIN cache : t \in DOMAIN cache' /\ cache'[t] = cache[t]
<1>1. ASSUME IInv, [Next]_vars
      PROVE  [Frozen]_vars
  <2> USE <1>1
  <2>1. CASE UNCHANGED cache
    BY <2>1
  <2>2. ASSUME NEW t \in 0..MaxTime, NextBar(t)
        PROVE  Frozen
    <3>1. \A u \in DOMAIN cache : u < last.t
      BY DEF IInv, BarsInOrder
    <3>2. \A u \in DOMAIN cache : u \in Nat
      BY BoundsAssumption DEF IInv, TypeOK, IsMap
    <3>3. \A u \in DOMAIN cache : u # last.t
      BY <3>1, <3>2 DEF IInv, TypeOK
    <3> QED BY <2>2, <3>3 DEF NextBar, Put
  <2>3. CASE Recover \/ DailyRestart
    <3>1. DOMAIN cache = {}
      BY <2>3 DEF Recover, DailyRestart, IInv, DownIsEmpty, ClearedIsEmpty
    <3> QED BY <3>1
  <2>4. CASE ClearBars \/ Crash
    BY <2>4
  <2> QED
    BY <2>1, <2>2, <2>3, <2>4
    DEF Next, vars, HandleQuote, SkipKLine, FirstBar, SameBar, CloseGate,
        SaveCopy, SaveWrite, ClearCount, ClearLastQuote
<1>2. Spec => [][Next]_vars
  BY PTL DEF Spec
<1> QED BY <1>1, <1>2, IInvHolds, PTL DEF FinishedBarsFrozen

-----------------------------------------------------------------------------
(* Sums of volumes *)

IsVolumes(map) == IsFiniteSet(DOMAIN map) /\ \A t \in DOMAIN map : map[t] \in Nat

\* g gives the sum over each part of the map, as the library computes it.
IsSum(map, g) ==
    g = [s \in SUBSET (DOMAIN map) |->
            IF s = {} THEN 0
            ELSE map[CHOOSE x \in s : TRUE] + g[s \ {CHOOSE x \in s : TRUE}]]

SumOver(map) == CHOOSE g : IsSum(map, g)

LEMMA SumOfIs ==
    ASSUME NEW map
    PROVE  SumOf(map) = SumOver(map)[DOMAIN map]
  BY DEF SumOf, MapThenSumSet, MapThenFoldSet, SumOver, IsSum

LEMMA PartIsSmaller ==
    ASSUME NEW D, IsFiniteSet(D), NEW s \in SUBSET D, NEW x \in s
    PROVE  /\ IsFiniteSet(s) /\ s \ {x} \in SUBSET D
           /\ Cardinality(s) \in Nat /\ Cardinality(s \ {x}) \in Nat
           /\ Cardinality(s \ {x}) = Cardinality(s) - 1
<1>1. IsFiniteSet(s)
  BY FS_Subset
<1> QED BY <1>1, FS_RemoveElement, FS_CardinalityType

LEMMA SumExists ==
    ASSUME NEW map, IsVolumes(map)
    PROVE  \E g : IsSum(map, g)
<1> DEFINE D == DOMAIN map
           P == SUBSET D
           pick(s) == CHOOSE x \in s : TRUE
           value(g, s) == IF s = {} THEN 0 ELSE map[pick(s)] + g[s \ {pick(s)}]
           good(g, n) == \A s \in P : Cardinality(s) <= n => g[s] = value(g, s)
           T == {n \in Nat : \E g \in [P -> Nat] : good(g, n)}
<1>0. IsFiniteSet(D) /\ \A s \in P : IsFiniteSet(s) /\ Cardinality(s) \in Nat
  BY FS_Subset, FS_CardinalityType DEF IsVolumes
<1>1. ASSUME NEW s \in P, s # {}
      PROVE  /\ pick(s) \in s /\ s \ {pick(s)} \in P /\ map[pick(s)] \in Nat
             /\ Cardinality(s \ {pick(s)}) = Cardinality(s) - 1
  <2>1. pick(s) \in s
    BY <1>1
  <2> HIDE DEF pick
  <2>2. map[pick(s)] \in Nat
    BY <2>1 DEF IsVolumes
  <2> QED BY <1>0, <2>1, <2>2, PartIsSmaller
<1> HIDE DEF pick
<1>2. 0 \in T
  <2> DEFINE g == [s \in P |-> 0]
  <2>1. good(g, 0)
    <3> SUFFICES ASSUME NEW s \in P, Cardinality(s) <= 0 PROVE g[s] = value(g, s)
      OBVIOUS
    <3>1. s = {}
      BY <1>0, FS_EmptySet
    <3> QED BY <3>1
  <2>2. g \in [P -> Nat]
    OBVIOUS
  <2> HIDE DEF g, good
  <2> QED BY <2>1, <2>2
<1>3. ASSUME NEW n \in Nat, n \in T PROVE n + 1 \in T
  <2>1. PICK f \in [P -> Nat] : good(f, n)
    BY <1>3
  <2> DEFINE g == [s \in P |-> IF Cardinality(s) <= n THEN f[s] ELSE value(f, s)]
  <2>2. \A s \in P : value(f, s) \in Nat
    <3> SUFFICES ASSUME NEW s \in P PROVE value(f, s) \in Nat
      OBVIOUS
    <3>1. CASE s = {}
      BY <3>1
    <3>2. CASE s # {}
      <4>1. f[s \ {pick(s)}] \in Nat /\ map[pick(s)] \in Nat
        BY <1>1, <3>2
      <4> QED BY <3>2, <4>1
    <3> QED BY <3>1, <3>2
  <2>3. g \in [P -> Nat]
    <3> HIDE DEF value
    <3> QED BY <2>2
  <2>4. good(g, n + 1)
    <3> SUFFICES ASSUME NEW s \in P, Cardinality(s) <= n + 1 PROVE g[s] = value(g, s)
      OBVIOUS
    <3>1. CASE s = {}
      <4>1. Cardinality(s) <= n
        BY <3>1, FS_EmptySet
      <4>2. f[s] = value(f, s)
        BY <2>1, <4>1
      <4> QED BY <3>1, <4>1, <4>2
    <3>2. CASE s # {}
      <4> DEFINE r == s \ {pick(s)}
      <4>1. r \in P /\ Cardinality(r) = Cardinality(s) - 1 /\ Cardinality(s) \in Nat
        BY <1>0, <1>1, <3>2
      <4>2. Cardinality(r) <= n
        BY <4>1
      <4>3. g[r] = f[r]
        <5> HIDE DEF r, value
        <5> QED BY <4>1, <4>2
      <4>4. g[s] = value(f, s)
        <5>1. Cardinality(s) <= n => f[s] = value(f, s)
          BY <2>1
        <5> HIDE DEF value
        <5> QED BY <5>1
      <4> QED BY <3>2, <4>3, <4>4
    <3> QED BY <3>1, <3>2
  <2> HIDE DEF g, good
  <2> QED BY <2>3, <2>4
<1>4. Cardinality(D) \in T /\ Cardinality(D) \in Nat
  <2>1. Cardinality(D) \in Nat
    BY <1>0, FS_CardinalityType
  <2> HIDE DEF T
  <2> QED BY <1>2, <1>3, <2>1, SetInduction
<1>5. PICK g \in [P -> Nat] : good(g, Cardinality(D))
  BY <1>4
<1>6. \A s \in P : Cardinality(s) <= Cardinality(D)
  BY <1>0, FS_Subset
<1>7. g = [s \in P |-> value(g, s)]
  BY <1>5, <1>6
<1>8. IsSum(map, g)
  BY <1>7 DEF IsSum, pick
<1> QED BY <1>8

LEMMA SumOverIs ==
    ASSUME NEW map, IsVolumes(map), NEW s \in SUBSET (DOMAIN map)
    PROVE  SumOver(map)[s] =
              IF s = {} THEN 0
              ELSE map[CHOOSE x \in s : TRUE] + SumOver(map)[s \ {CHOOSE x \in s : TRUE}]
<1>1. IsSum(map, SumOver(map))
  BY SumExists DEF SumOver
<1> DEFINE g == SumOver(map)
<1>2. IsSum(map, g)
  BY <1>1
<1> HIDE DEF g
<1>3. g[s] = IF s = {} THEN 0
             ELSE map[CHOOSE x \in s : TRUE] + g[s \ {CHOOSE x \in s : TRUE}]
  BY <1>2 DEF IsSum
<1> QED BY <1>3 DEF g

\* A part can be summed up beginning with any of its elements.
LEMMA SumOverSplit ==
    ASSUME NEW map, IsVolumes(map), NEW s \in SUBSET (DOMAIN map)
    PROVE  /\ SumOver(map)[s] \in Nat
           /\ s = {} => SumOver(map)[s] = 0
           /\ \A x \in s : SumOver(map)[s] = map[x] + SumOver(map)[s \ {x}]
<1> DEFINE D == DOMAIN map
           g == SumOver(map)
           Good(r) == g[r] \in Nat /\ \A x \in r : g[r] = map[x] + g[r \ {x}]
           T == {n \in Nat : \A r \in SUBSET D : Cardinality(r) <= n => Good(r)}
<1>0. /\ IsFiniteSet(D) /\ \A r \in SUBSET D : IsFiniteSet(r) /\ Cardinality(r) \in Nat
      /\ \A x \in D : map[x] \in Nat
  BY FS_Subset, FS_CardinalityType DEF IsVolumes
<1>e. g[{}] = 0
  BY SumOverIs
<1>s. ASSUME NEW r \in SUBSET D, r # {}
      PROVE  \E c \in r : g[r] = map[c] + g[r \ {c}]
  <2>1. (CHOOSE x \in r : TRUE) \in r
    BY <1>s
  <2> QED BY <1>s, <2>1, SumOverIs
<1> HIDE DEF g
<1>1. 0 \in T
  <2>1. ASSUME NEW r \in SUBSET D, Cardinality(r) <= 0 PROVE Good(r)
    <3>1. r = {}
      BY <1>0, <2>1, FS_EmptySet
    <3> QED BY <1>e, <3>1
  <2> QED BY <2>1
<1>2. ASSUME NEW n \in Nat, n \in T PROVE n + 1 \in T
  <2>1. ASSUME NEW r \in SUBSET D, Cardinality(r) <= n + 1, r # {} PROVE Good(r)
    <3>1. PICK c \in r : g[r] = map[c] + g[r \ {c}]
      BY <1>s, <2>1
    <3>2. ASSUME NEW x \in r
          PROVE  r \ {x} \in SUBSET D /\ Good(r \ {x}) /\ map[x] \in Nat
      <4>1. r \ {x} \in SUBSET D /\ Cardinality(r \ {x}) = Cardinality(r) - 1
            /\ Cardinality(r) \in Nat
        BY <1>0, <3>2, PartIsSmaller
      <4>2. Cardinality(r \ {x}) <= n
        BY <2>1, <4>1
      <4> HIDE DEF Good
      <4> QED BY <1>0, <1>2, <4>1, <4>2
    <3>3. ASSUME NEW x \in r PROVE g[r] = map[x] + g[r \ {x}]
      <4>1. CASE x = c
        BY <3>1, <4>1
      <4>2. CASE x # c
        <5> DEFINE rest == (r \ {c}) \ {x}
        <5>1. g[r \ {c}] = map[x] + g[rest]
          BY <3>2, <4>2
        <5>2. g[r \ {x}] = map[c] + g[(r \ {x}) \ {c}]
          BY <3>2, <4>2
        <5>3. rest = (r \ {x}) \ {c}
          OBVIOUS
        <5>4. g[r \ {c}] \in Nat /\ g[r \ {x}] \in Nat /\ map[c] \in Nat /\ map[x] \in Nat
          BY <3>2
        <5>5. g[rest] \in Nat
          <6>1. rest \in SUBSET D /\ Cardinality(rest) = Cardinality(r) - 1 - 1
                /\ Cardinality(r) \in Nat
            <7>1. r \ {c} \in SUBSET D /\ Cardinality(r \ {c}) = Cardinality(r) - 1
                  /\ Cardinality(r) \in Nat
              BY <1>0, PartIsSmaller
            <7>2. x \in r \ {c}
              BY <4>2
            <7>3. Cardinality((r \ {c}) \ {x}) = Cardinality(r \ {c}) - 1
              BY <1>0, <7>1, <7>2, PartIsSmaller
            <7> QED BY <7>1, <7>3
          <6>2. Cardinality(rest) <= n
            BY <2>1, <6>1
          <6> HIDE DEF rest
          <6> QED BY <1>2, <6>1, <6>2
        <5> HIDE DEF rest
        <5> QED BY <3>1, <5>1, <5>2, <5>3, <5>4, <5>5
      <4> QED BY <4>1, <4>2
    <3>4. g[r] \in Nat
      <4>1. map[c] \in Nat /\ g[r \ {c}] \in Nat
        BY <3>2
      <4> QED BY <3>1, <4>1
    <3> QED BY <3>3, <3>4
  <2>2. Good({})
    BY <1>e
  <2> HIDE DEF Good
  <2> QED BY <1>2, <2>1, <2>2
<1>3. Cardinality(s) \in T
  <2>1. Cardinality(s) \in Nat
    BY <1>0
  <2> HIDE DEF T
  <2> QED BY <1>1, <1>2, <2>1, SetInduction
<1>4. Good(s)
  <2>1. Cardinality(s) <= Cardinality(s)
    BY <1>0
  <2> HIDE DEF Good
  <2> QED BY <1>3, <2>1
<1>5. s = {} => g[s] = 0
  BY <1>e
<1> QED BY <1>4, <1>5 DEF g

\* The sum of a part grows with the part and with the volumes.
LEMMA SumOverMonotone ==
    ASSUME NEW m, NEW n, IsVolumes(m), IsVolumes(n),
           NEW s \in SUBSET (DOMAIN m), NEW r \in SUBSET (DOMAIN n), s \subseteq r,
           \A x \in s : m[x] <= n[x]
    PROVE  SumOver(m)[s] <= SumOver(n)[r]
<1> DEFINE f == SumOver(m)
           g == SumOver(n)
           E == DOMAIN n
           Good(q) == f[s \cap q] <= g[q]
           T == {k \in Nat : \A q \in SUBSET r : Cardinality(q) <= k => Good(q)}
<1>0. /\ IsFiniteSet(r) /\ \A q \in SUBSET r : IsFiniteSet(q) /\ Cardinality(q) \in Nat
      /\ \A x \in s : m[x] \in Nat
      /\ \A x \in r : n[x] \in Nat
  <2>1. IsFiniteSet(r)
    BY FS_Subset DEF IsVolumes
  <2> QED BY <2>1, FS_Subset, FS_CardinalityType DEF IsVolumes
<1>1. ASSUME NEW q \in SUBSET r
      PROVE  /\ q = {} => f[s \cap q] = 0
             /\ f[s \cap q] \in Nat /\ g[q] \in Nat
             /\ q = {} => g[q] = 0
             /\ \A x \in q : g[q] = n[x] + g[q \ {x}]
             /\ \A x \in s \cap q : f[s \cap q] = m[x] + f[(s \cap q) \ {x}]
  <2>1. q \in SUBSET E /\ s \cap q \in SUBSET (DOMAIN m)
    OBVIOUS
  <2> QED BY <2>1, SumOverSplit
<1> HIDE DEF f, g
<1>2. 0 \in T
  <2>1. ASSUME NEW q \in SUBSET r, Cardinality(q) <= 0 PROVE Good(q)
    <3>1. q = {}
      BY <1>0, <2>1, FS_EmptySet
    <3>2. f[s \cap q] = 0 /\ g[q] = 0
      BY <1>1, <3>1
    <3> QED BY <3>2
  <2> QED BY <2>1
<1>3. ASSUME NEW k \in Nat, k \in T PROVE k + 1 \in T
  <2>1. ASSUME NEW q \in SUBSET r, Cardinality(q) <= k + 1, q # {} PROVE Good(q)
    <3>1. PICK x \in q : TRUE
      BY <2>1
    <3> DEFINE rest == q \ {x}
    <3>2. rest \in SUBSET r /\ Good(rest)
      <4>1. Cardinality(q \ {x}) = Cardinality(q) - 1 /\ Cardinality(q) \in Nat
        BY <1>0, PartIsSmaller
      <4>2. rest \in SUBSET r /\ Cardinality(rest) <= k
        BY <2>1, <4>1
      <4> HIDE DEF Good, rest
      <4> QED BY <1>3, <4>2
    <3>3. /\ g[q] = n[x] + g[rest] /\ g[rest] \in Nat
          /\ f[s \cap rest] \in Nat /\ f[s \cap q] \in Nat /\ n[x] \in Nat
      BY <1>0, <1>1, <3>2
    <3>4. CASE x \in s
      <4>1. f[s \cap q] = m[x] + f[(s \cap q) \ {x}]
        BY <1>1, <3>4
      <4>2. (s \cap q) \ {x} = s \cap rest
        OBVIOUS
      <4>3. m[x] \in Nat /\ m[x] <= n[x]
        BY <1>0, <3>4
      <4>4. f[s \cap q] = m[x] + f[s \cap rest]
        BY <4>1, <4>2
      <4>5. f[s \cap rest] <= g[rest]
        BY <3>2
      <4> HIDE DEF rest
      <4>6. n[x] + g[rest] >= m[x] + f[s \cap rest]
        BY <3>3, <4>3, <4>5
      <4> QED BY <3>3, <4>4, <4>6
    <3>5. CASE x \notin s
      <4>1. s \cap q = s \cap rest
        BY <3>5
      <4> HIDE DEF rest
      <4> QED BY <3>2, <3>3, <4>1
    <3> QED BY <3>4, <3>5
  <2>2. Good({})
    <3>1. f[s \cap {}] = 0 /\ g[{}] = 0
      BY <1>1
    <3> QED BY <3>1
  <2> HIDE DEF Good
  <2> QED BY <1>3, <2>1, <2>2
<1>4. Cardinality(r) \in T /\ Cardinality(r) <= Cardinality(r)
  <2>1. Cardinality(r) \in Nat
    BY <1>0
  <2> HIDE DEF T
  <2> QED BY <1>2, <1>3, <2>1, SetInduction
<1>5. Good(r)
  <2> HIDE DEF Good
  <2> QED BY <1>4
<1>6. s \cap r = s
  OBVIOUS
<1> QED BY <1>5, <1>6 DEF f, g

LEMMA SumType ==
    ASSUME NEW map, IsVolumes(map)
    PROVE  SumOf(map) \in Nat /\ (DOMAIN map = {} => SumOf(map) = 0)
BY SumOverSplit, SumOfIs

\* More bars, or bars with more volume, add up to more.
LEMMA SumMonotone ==
    ASSUME NEW m, NEW n, IsVolumes(m), IsVolumes(n), DOMAIN m \subseteq DOMAIN n,
           \A x \in DOMAIN m : m[x] <= n[x]
    PROVE  SumOf(m) <= SumOf(n)
BY SumOverMonotone, SumOfIs

\* One bar more adds its volume.
LEMMA SumSplit ==
    ASSUME NEW m, NEW rest, IsVolumes(m), NEW x \in DOMAIN m,
           DOMAIN rest = DOMAIN m \ {x}, \A y \in DOMAIN rest : rest[y] = m[y]
    PROVE  SumOf(m) = m[x] + SumOf(rest)
<1>1. IsVolumes(rest)
  BY FS_Subset DEF IsVolumes
<1> DEFINE D == DOMAIN m
           f == SumOver(m)[D \ {x}]
           g == SumOver(rest)[D \ {x}]
<1>2. f \in Nat /\ g \in Nat
  BY <1>1, SumOverSplit
<1>3. \A y \in D \ {x} : m[y] \in Nat /\ rest[y] = m[y]
  BY DEF IsVolumes
<1>4. f <= g
  BY <1>1, <1>3, SumOverMonotone
<1>5. g <= f
  BY <1>1, <1>3, SumOverMonotone
<1>6. SumOver(m)[D] = m[x] + f
  BY SumOverSplit
<1>7. SumOf(m) = m[x] + f /\ SumOf(rest) = g
  BY <1>6, SumOfIs
<1> HIDE DEF f, g
<1> QED BY <1>2, <1>4, <1>5, <1>7

\* No bar is larger than the sum.
LEMMA SumBounds ==
    ASSUME NEW m, IsVolumes(m), NEW x \in DOMAIN m
    PROVE  m[x] <= SumOf(m)
<1> DEFINE rest == [y \in DOMAIN m \ {x} |-> m[y]]
<1>1. SumOf(m) = m[x] + SumOf(rest)
  BY SumSplit
<1>2. IsVolumes(rest)
  BY FS_Subset DEF IsVolumes
<1>3. SumOf(rest) \in Nat
  BY <1>2, SumType
<1>4. m[x] \in Nat
  BY DEF IsVolumes
<1> QED BY <1>1, <1>3, <1>4

-----------------------------------------------------------------------------
(* Sessions, volumes and the file: the invariant *)

\* The total quantity the feeds have reported so far.
SeenQty == IF lastQuote = NoQuote THEN resume.qty ELSE lastQuote.qty

InSession(t) ==
    \E i \in DOMAIN Segments : BarOf(Segments[i].From) <= t /\ t < Segments[i].To

SessionInv ==
    \A t \in BarTimes \cup DOMAIN saving \cup DOMAIN file : InSession(t)

VolumeTypes ==
    /\ last.vol \in Nat /\ last.total \in Nat
    /\ \A t \in DOMAIN cache : cache[t] \in Nat
    /\ \A t \in DOMAIN saving : saving[t] \in Nat
    /\ \A t \in DOMAIN file : file[t] \in Nat

\* The bars account for the total of the last quote used, and no copy of them
\* for more than the feeds have reported.
TotalInv ==
    /\ last.t # 0 => SumOf(Bars) = last.total
    /\ last.t # 0 => last.total <= SeenQty
    /\ DayOpen => SumOf(file) <= SeenQty
    /\ DayOpen => SumOf(saving) <= SeenQty

\* Volumes only grow, so an older copy of the bars is behind them.
Behind(map) == \A t \in DOMAIN map : t \in BarTimes /\ map[t] <= Bars[t]

CopiesBehind == up /\ DayOpen => Behind(saving) /\ Behind(file)

\* The inductive invariant of the volumes.
VolumeInv == SessionInv /\ VolumeTypes /\ TotalInv /\ CopiesBehind

LEMMA MapIsVolumes ==
    ASSUME NEW map, IsMap(map), \A t \in DOMAIN map : map[t] \in Nat
    PROVE  IsVolumes(map)
<1>1. IsFiniteSet(1..MaxTime)
  BY FS_Interval, BoundsAssumption
<1> QED BY <1>1, FS_Subset DEF IsMap, IsVolumes

\* What Bars prints of a cache c with running bar l.
LEMMA BarsAre ==
    ASSUME NEW c, NEW l, IsMap(c), l.t \in 0..MaxTime, l.vol \in Nat,
           \A t \in DOMAIN c : c[t] \in Nat,
           NEW times, times = DOMAIN c \cup (IF l.t = 0 THEN {} ELSE {l.t}),
           NEW bars, bars = [t \in times |-> IF t = l.t THEN l.vol ELSE c[t]]
    PROVE  /\ times \in SUBSET (1..MaxTime)
           /\ DOMAIN bars = times
           /\ IsMap(bars)
           /\ IsVolumes(bars)
           /\ \A t \in times : bars[t] \in Nat
<1>1. times \in SUBSET (1..MaxTime)
  BY DEF IsMap
<1>2. IsMap(bars)
  BY <1>1 DEF IsMap
<1>3. \A t \in times : bars[t] \in Nat
  <2> SUFFICES ASSUME NEW t \in times PROVE bars[t] \in Nat
    OBVIOUS
  <2>1. CASE t = l.t
    BY <2>1
  <2>2. CASE t # l.t
    BY <2>2
  <2> QED BY <2>1, <2>2
<1>4. IsVolumes(bars)
  BY <1>2, <1>3, MapIsVolumes
<1> QED BY <1>1, <1>2, <1>3, <1>4

LEMMA BarsNow ==
    ASSUME TypeOK, VolumeTypes
    PROVE  /\ BarTimes \in SUBSET (1..MaxTime)
           /\ DOMAIN Bars = BarTimes
           /\ IsMap(Bars) /\ IsVolumes(Bars)
           /\ \A t \in BarTimes : Bars[t] \in Nat
           /\ IsVolumes(saving) /\ IsVolumes(file)
<1>1. BarTimes = DOMAIN cache \cup (IF last.t = 0 THEN {} ELSE {last.t})
  BY DEF BarTimes
<1>2. Bars = [t \in BarTimes |-> IF t = last.t THEN last.vol ELSE cache[t]]
  BY DEF Bars
<1>3. IsVolumes(saving) /\ IsVolumes(file)
  BY MapIsVolumes DEF TypeOK, VolumeTypes
<1>4. /\ IsMap(cache) /\ last.t \in 0..MaxTime /\ last.vol \in Nat
      /\ \A t \in DOMAIN cache : cache[t] \in Nat
  BY DEF TypeOK, VolumeTypes
<1> HIDE DEF Bars, BarTimes
<1> QED BY <1>1, <1>2, <1>3, <1>4, BarsAre

\* An empty map has no volume.
LEMMA SumOfEmpty == ASSUME NEW map, DOMAIN map = {} PROVE SumOf(map) = 0
<1>1. IsVolumes(map)
  BY FS_EmptySet DEF IsVolumes
<1> QED BY <1>1, SumType

LEMMA InitVolumeInv == Init => VolumeInv
<1> SUFFICES ASSUME Init PROVE VolumeInv
  OBVIOUS
<1>1. /\ DOMAIN cache = {} /\ DOMAIN saving = {} /\ DOMAIN file = {}
      /\ last.t = 0 /\ last.vol = 0 /\ last.total = 0 /\ SeenQty = 0
  BY DEF Init, EmptyMap, NoBar, NoQuote, SeenQty
<1>2. SumOf(file) = 0 /\ SumOf(saving) = 0
  BY <1>1, SumOfEmpty
<1>3. BarTimes = {}
  BY <1>1 DEF BarTimes
<1> QED
  BY <1>1, <1>2, <1>3
  DEF VolumeInv, SessionInv, VolumeTypes, TotalInv, CopiesBehind, Behind

\* Steps that leave the bars and their copies alone.
LEMMA QuietKeepsVolumes ==
    ASSUME IInv, VolumeInv, UNCHANGED <<cache, last, saving, file, up>>,
           DayOpen' => DayOpen,
           last.t # 0 \/ DayOpen' => SeenQty <= SeenQty',
           SeenQty \in Nat, SeenQty' \in Nat
    PROVE  VolumeInv'
<1>1. UNCHANGED <<BarTimes, Bars>>
  BY DEF BarTimes, Bars
<1>2. SessionInv' /\ VolumeTypes'
  BY <1>1 DEF VolumeInv, SessionInv, VolumeTypes
<1>3. CopiesBehind'
  BY <1>1 DEF VolumeInv, CopiesBehind, Behind
<1>4. SumOf(file) \in Nat /\ SumOf(saving) \in Nat /\ last.total \in Nat
  BY BarsNow, SumType DEF IInv, VolumeInv, VolumeTypes
<1>5. /\ SumOf(Bars)' = SumOf(Bars) /\ SumOf(file)' = SumOf(file)
      /\ SumOf(saving)' = SumOf(saving)
  BY <1>1
<1>6. TotalInv'
  <2>1. last'.t # 0 => SumOf(Bars)' = last'.total /\ last'.total <= SeenQty'
    BY <1>4, <1>5 DEF VolumeInv, TotalInv
  <2>2. DayOpen' => SumOf(file)' <= SeenQty' /\ SumOf(saving)' <= SeenQty'
    BY <1>4, <1>5 DEF VolumeInv, TotalInv
  <2> QED BY <2>1, <2>2 DEF TotalInv
<1> QED BY <1>2, <1>3, <1>6 DEF VolumeInv

\* Without bars and copies there is nothing to account for.
LEMMA NothingKeepsVolumes ==
    ASSUME DOMAIN cache' = {}, last' = NoBar, DOMAIN saving' = {}, DOMAIN file' = {},
           SeenQty' \in Nat
    PROVE  VolumeInv'
<1>1. last'.t = 0 /\ last'.vol = 0 /\ last'.total = 0
  BY DEF NoBar
<1>2. SumOf(file)' = 0 /\ SumOf(saving)' = 0
  BY SumOfEmpty
<1>3. BarTimes' = {}
  BY <1>1 DEF BarTimes
<1> QED
  BY <1>1, <1>2, <1>3
  DEF VolumeInv, SessionInv, VolumeTypes, TotalInv, CopiesBehind, Behind

LEMMA SeenQtyType == ASSUME TypeOK PROVE SeenQty \in 0..MaxQty
BY BoundsAssumption DEF TypeOK, SeenQty, Quote, NoQuote

LEMMA NextSeenQtyType == ASSUME TypeOK' PROVE SeenQty' \in 0..MaxQty
BY BoundsAssumption DEF TypeOK, SeenQty, Quote, NoQuote

-----------------------------------------------------------------------------
(* Sessions, volumes and the file: the steps *)

LEMMA QuietStep ==
    ASSUME IInv, VolumeInv, TypeOK',
           \/ \E q \in Quote, priced \in BOOLEAN : HandleQuote(q, priced)
           \/ SkipKLine \/ CloseGate \/ ClearCount \/ ClearLastQuote
    PROVE  VolumeInv'
<1>1. SeenQty \in Nat /\ SeenQty' \in Nat
  BY SeenQtyType, NextSeenQtyType, BoundsAssumption DEF IInv
<1>2. CASE \E q \in Quote, priced \in BOOLEAN : HandleQuote(q, priced)
  <2>1. PICK q \in Quote, priced \in BOOLEAN : HandleQuote(q, priced)
    BY <1>2
  <2>2. lastQuote' = q /\ q # NoQuote /\ q.qty >= lastQuote.qty /\ q.qty >= resume.qty
    BY <2>1, BoundsAssumption DEF HandleQuote, IsCurrent, Quote, NoQuote
  <2>3. SeenQty <= SeenQty'
    BY <2>2, BoundsAssumption DEF SeenQty, IInv, TypeOK, Quote, NoQuote
  <2>4. UNCHANGED <<cache, last, saving, file, up, phase>>
    BY <2>1 DEF HandleQuote
  <2> QED BY <1>1, <2>3, <2>4, QuietKeepsVolumes DEF DayOpen
<1>3. CASE SkipKLine
  <2>1. UNCHANGED <<cache, last, saving, file, up, phase, lastQuote, resume>>
    BY <1>3 DEF SkipKLine
  <2> QED BY <1>1, <2>1, QuietKeepsVolumes DEF DayOpen, SeenQty
<1>4. CASE CloseGate \/ ClearCount
  <2>1. UNCHANGED <<cache, last, saving, file, up, lastQuote, resume>> /\ DayOpen
    BY <1>4 DEF CloseGate, ClearCount, DayOpen
  <2> QED BY <1>1, <2>1, QuietKeepsVolumes DEF SeenQty
<1>5. CASE ClearLastQuote
  <2>1. UNCHANGED <<cache, last, saving, file, up>> /\ ~DayOpen' /\ last.t = 0
    BY <1>5 DEF ClearLastQuote, DayOpen, IInv, ClearedIsEmpty, NoBar
  <2> QED BY <1>1, <2>1, QuietKeepsVolumes
<1> QED BY <1>2, <1>3, <1>4, <1>5

LEMMA SaveStep ==
    ASSUME IInv, VolumeInv, SaveCopy \/ SaveWrite
    PROVE  VolumeInv'
<1>1. /\ UNCHANGED <<cache, last, phase, up, lastQuote, resume>>
      /\ UNCHANGED <<BarTimes, Bars, SeenQty>> /\ (DayOpen' <=> DayOpen)
  BY DEF SaveCopy, SaveWrite, BarTimes, Bars, SeenQty, DayOpen
<1>2. DOMAIN Bars = BarTimes /\ \A t \in BarTimes : Bars[t] \in Nat
  BY BarsNow DEF IInv, VolumeInv
<1>3. CASE SaveCopy
  <2>1. saving' = Bars /\ file' = file /\ BarTimes # {}
    BY <1>3 DEF SaveCopy
  <2>2. last.t # 0
    BY <2>1 DEF IInv, BarTimes
  <2>3. SumOf(saving)' = SumOf(Bars) /\ SumOf(file)' = SumOf(file)
    BY <2>1
  <2>4. TotalInv'
    <3>1. SumOf(Bars) = last.total /\ last.total <= SeenQty
      BY <2>2 DEF VolumeInv, TotalInv
    <3>2. SumOf(saving)' <= SeenQty'
      BY <1>1, <2>3, <3>1
    <3>3. DayOpen' => SumOf(file)' <= SeenQty'
      BY <1>1, <2>3 DEF VolumeInv, TotalInv
    <3>4. SumOf(Bars)' = last'.total /\ last'.total <= SeenQty'
      BY <1>1, <3>1
    <3> QED BY <3>2, <3>3, <3>4 DEF TotalInv
  <2>5. Behind(saving)'
    BY <1>1, <1>2, <2>1 DEF Behind
  <2>6. CopiesBehind'
    BY <1>1, <2>1, <2>5 DEF VolumeInv, CopiesBehind, Behind
  <2>7. SessionInv'
    BY <1>1, <1>2, <2>1 DEF VolumeInv, SessionInv
  <2>8. VolumeTypes'
    BY <1>1, <1>2, <2>1 DEF VolumeInv, VolumeTypes
  <2> QED BY <2>4, <2>6, <2>7, <2>8 DEF VolumeInv
<1>4. CASE SaveWrite
  <2>1. file' = saving /\ saving' = EmptyMap /\ DOMAIN saving' = {}
    BY <1>4 DEF SaveWrite, EmptyMap
  <2>2. SumOf(file)' = SumOf(saving) /\ SumOf(saving)' = 0
    BY <2>1, SumOfEmpty
  <2>3. SeenQty \in Nat
    BY SeenQtyType, BoundsAssumption DEF IInv
  <2>4. TotalInv'
    <3>1. DayOpen' => SumOf(file)' <= SeenQty' /\ SumOf(saving)' <= SeenQty'
      BY <1>1, <2>2, <2>3 DEF VolumeInv, TotalInv
    <3>2. last'.t # 0 => SumOf(Bars)' = last'.total /\ last'.total <= SeenQty'
      BY <1>1 DEF VolumeInv, TotalInv
    <3> QED BY <3>1, <3>2 DEF TotalInv
  <2>5. CopiesBehind'
    BY <1>1, <2>1 DEF VolumeInv, CopiesBehind, Behind
  <2>6. SessionInv' /\ VolumeTypes'
    BY <1>1, <2>1 DEF VolumeInv, SessionInv, VolumeTypes
  <2> QED BY <2>4, <2>5, <2>6 DEF VolumeInv
<1> QED BY <1>3, <1>4

LEMMA ClearBarsStep ==
    ASSUME IInv, VolumeInv, ClearBars
    PROVE  VolumeInv'
<1>1. /\ DOMAIN cache' = {} /\ last'.t = 0 /\ last'.vol = 0 /\ last'.total = 0
      /\ UNCHANGED <<saving, file>> /\ ~DayOpen'
  BY DEF ClearBars, EmptyMap, NoBar, DayOpen
<1>2. BarTimes' = {}
  BY <1>1 DEF BarTimes
<1> QED
  BY <1>1, <1>2 DEF VolumeInv, SessionInv, VolumeTypes, TotalInv, CopiesBehind

LEMMA DailyRestartStep ==
    ASSUME DailyRestart
    PROVE  VolumeInv'
<1>1. DOMAIN cache' = {} /\ last' = NoBar /\ DOMAIN saving' = {} /\ DOMAIN file' = {}
  BY DEF DailyRestart, EmptyMap
<1>2. SeenQty' \in Nat
  BY DEF DailyRestart, SeenQty, NoQuote
<1> QED BY <1>1, <1>2, NothingKeepsVolumes

\* A file cut off in the middle of the write accounts for no more than the copy.
LEMMA CrashStep ==
    ASSUME IInv, VolumeInv, Crash
    PROVE  VolumeInv'
<1>1. /\ DOMAIN cache' = {} /\ DOMAIN saving' = {} /\ ~up'
      /\ last'.t = 0 /\ last'.vol = 0 /\ last'.total = 0
      /\ SeenQty' = SeenQty /\ (DayOpen' <=> DayOpen)
  BY DEF Crash, EmptyMap, NoBar, SeenQty, NoQuote, DayOpen
<1>2. BarTimes' = {}
  BY <1>1 DEF BarTimes
<1>3. IsVolumes(saving) /\ IsVolumes(file)
  BY BarsNow DEF IInv, VolumeInv
<1>4. SumOf(saving)' = 0 /\ SeenQty \in Nat
  BY <1>1, SumOfEmpty, SeenQtyType, BoundsAssumption DEF IInv
<1>5. \/ file' = file
      \/ /\ DOMAIN file' \subseteq DOMAIN saving
         /\ \A t \in DOMAIN file' : file'[t] = saving[t]
  BY DEF Crash, Restrict
<1>6. SessionInv' /\ VolumeTypes' /\ CopiesBehind'
  BY <1>1, <1>2, <1>5
  DEF VolumeInv, SessionInv, VolumeTypes, CopiesBehind
<1>7. DayOpen => SumOf(file') <= SeenQty
  <2>1. CASE file' = file
    BY <2>1 DEF VolumeInv, TotalInv
  <2>2. CASE /\ DOMAIN file' \subseteq DOMAIN saving
             /\ \A t \in DOMAIN file' : file'[t] = saving[t]
    <3>1. IsVolumes(file')
      BY <1>3, <2>2, FS_Subset DEF IsVolumes
    <3>2. \A t \in DOMAIN file' : file'[t] <= saving[t]
      BY <1>3, <2>2 DEF IsVolumes
    <3>3. SumOf(file') <= SumOf(saving)
      BY <1>3, <2>2, <3>1, <3>2, SumMonotone
    <3>4. SumOf(file') \in Nat /\ SumOf(saving) \in Nat
      BY <1>3, <3>1, SumType
    <3> QED BY <1>4, <3>3, <3>4 DEF VolumeInv, TotalInv
  <2> QED BY <1>5, <2>1, <2>2
<1>8. TotalInv'
  BY <1>1, <1>4, <1>7 DEF TotalInv
<1> QED BY <1>6, <1>8 DEF VolumeInv

LEMMA RecoverStep ==
    ASSUME IInv, VolumeInv, Recover
    PROVE  VolumeInv'
<1> DEFINE fromFile == DayOpen /\ DOMAIN file # {}
<1>0. /\ DOMAIN cache = {} /\ last = NoBar /\ last.t = 0 /\ DOMAIN saving = {}
      /\ UNCHANGED <<saving, file, SeenQty>> /\ (DayOpen' <=> DayOpen)
  BY DEF Recover, IInv, DownIsEmpty, NoBar, SeenQty, DayOpen
<1>1. IsMap(file) /\ \A t \in DOMAIN file : file[t] \in Nat
  BY DEF IInv, TypeOK, VolumeInv, VolumeTypes
<1>2. IsVolumes(file) /\ SumOf(file) \in Nat
  BY <1>1, MapIsVolumes, SumType
<1>3. DayOpen => SumOf(file) <= SeenQty /\ SumOf(saving) <= SeenQty
  BY DEF VolumeInv, TotalInv
<1>4. SumOf(file)' = SumOf(file) /\ SumOf(saving)' = SumOf(saving)
  BY <1>0
<1>5. CASE ~fromFile
  <2>1. UNCHANGED <<cache, last>>
    BY <1>5 DEF Recover
  <2>2. BarTimes' = {} /\ BarTimes = {}
    BY <1>0, <2>1 DEF BarTimes
  <2>3. DayOpen => DOMAIN file = {}
    BY <1>5
  <2>4. CopiesBehind'
    BY <1>0, <2>3 DEF CopiesBehind, Behind
  <2>5. SessionInv' /\ VolumeTypes'
    BY <1>0, <2>1, <2>2 DEF VolumeInv, SessionInv, VolumeTypes
  <2>6. TotalInv'
    BY <1>0, <1>3, <1>4, <2>1 DEF TotalInv
  <2> QED BY <2>4, <2>5, <2>6 DEF VolumeInv
<1>6. CASE fromFile
  <2> DEFINE n == Newest(DOMAIN file)
  <2>1. n \in DOMAIN file /\ n \in 1..MaxTime /\ n # 0
    <3>1. n \in DOMAIN file
      BY <1>1, <1>6, NewestExists DEF IsMap
    <3> HIDE DEF n
    <3> QED BY <1>1, <3>1 DEF IsMap
  <2>2. /\ last' = [t |-> n, vol |-> file[n], total |-> SumOf(file)]
        /\ cache' = [t \in DOMAIN file \ {n} |-> file[t]]
    BY <1>6 DEF Recover, RecoveredTotal, Restrict
  <2> HIDE DEF n
  <2>3. last'.t = n /\ last'.vol = file[n] /\ last'.total = SumOf(file)
    BY <2>2
  <2>4. BarTimes' = DOMAIN file
    BY <2>1, <2>2, <2>3 DEF BarTimes
  <2>5. \A t \in DOMAIN file : Bars'[t] = file[t]
    BY <2>2, <2>3, <2>4 DEF Bars
  <2>6. Bars' = file
    <3>1. Bars' = [t \in BarTimes' |-> Bars'[t]]
      BY DEF Bars
    <3>2. file = [t \in DOMAIN file |-> file[t]]
      BY <1>1 DEF IsMap
    <3> QED BY <2>4, <2>5, <3>1, <3>2
  <2>7. SessionInv'
    BY <1>0, <2>4 DEF VolumeInv, SessionInv
  <2>8. VolumeTypes'
    BY <1>0, <1>1, <1>2, <2>1, <2>2, <2>3 DEF VolumeTypes
  <2>9. CopiesBehind'
    <3>1. \A t \in DOMAIN file : file[t] <= Bars'[t]
      BY <1>1, <2>5
    <3> QED BY <1>0, <2>4, <3>1 DEF CopiesBehind, Behind
  <2>10. TotalInv'
    <3>1. SumOf(Bars)' = SumOf(file)
      BY <2>6
    <3>2. DayOpen
      BY <1>6
    <3> QED BY <1>0, <1>3, <1>4, <2>3, <3>1, <3>2 DEF TotalInv
  <2> QED BY <2>7, <2>8, <2>9, <2>10 DEF VolumeInv
<1> QED BY <1>5, <1>6

\* The bar of a quote starts inside the session that accepts it.
LEMMA QuoteBarInSession ==
    ASSUME NEW x \in 1..MaxTime, IsInTradeTime(x)
    PROVE  InSession(BarOf(TradeStamp(x)))
<1> DEFINE i == FirstHit(x)
           s == TradeStamp(x)
<1>0. x \in Nat
  BY BoundsAssumption
<1>1. i \in DOMAIN Segments /\ Accepts(i, x)
  BY <1>0, FirstHitIsFirst
<1>2. /\ Segments[i].From \in Nat /\ Segments[i].To \in Nat
      /\ Segments[i].From < Segments[i].To
  BY <1>1, SegmentTypes
<1>3. s = IF x < Segments[i].To THEN x ELSE Segments[i].To - 1
  BY DEF TradeStamp
<1> HIDE DEF i, s
<1>4. s \in Nat /\ Segments[i].From <= s /\ s < Segments[i].To
  BY <1>0, <1>1, <1>2, <1>3 DEF Accepts
<1>5. BarOf(Segments[i].From) <= BarOf(s)
  BY <1>2, <1>4, BarOfMonotone
<1>6. BarOf(s) \in Nat /\ BarOf(s) <= s
  BY <1>4, DivBounds
<1>7. BarOf(s) < Segments[i].To
  BY <1>2, <1>4, <1>6
<1> QED BY <1>1, <1>5, <1>7 DEF InSession, s

\* What the three branches of CalKLine owe the invariant.
LEMMA CalKLineVolumes ==
    ASSUME IInv, VolumeInv, NEW t \in 0..MaxTime, CalKLine(t), VolumeTypes',
           BarTimes' = BarTimes \cup {t},
           \A u \in BarTimes : Bars[u] <= Bars'[u],
           SumOf(Bars') = last'.total, last'.total = pend.qty
    PROVE  VolumeInv'
<1>1. /\ UNCHANGED <<saving, file, up, SeenQty>> /\ (DayOpen' <=> DayOpen)
      /\ SeenQty = pend.qty
  BY CalKLineFacts DEF CalKLine, SeenQty, DayOpen
<1>2. pend.ts \in 1..MaxTime /\ IsInTradeTime(pend.ts) /\ t = BarOf(TradeStamp(pend.ts))
  BY CalKLineFacts DEF CalKLine, IInv, TypeOK, Quote
<1>3. InSession(t)
  BY <1>2, QuoteBarInSession
<1>4. SessionInv'
  BY <1>1, <1>3 DEF VolumeInv, SessionInv
<1>5. \A u \in BarTimes : Bars[u] \in Nat /\ Bars'[u] \in Nat
  <2>1. \A u \in BarTimes : Bars[u] \in Nat
    BY BarsNow DEF IInv, VolumeInv
  <2>2. /\ \A u \in BarTimes' : Bars'[u] = IF u = last'.t THEN last'.vol ELSE cache'[u]
        /\ \A u \in BarTimes' : u = last'.t \/ u \in DOMAIN cache'
        /\ last'.vol \in Nat /\ \A u \in DOMAIN cache' : cache'[u] \in Nat
    BY DEF Bars, BarTimes, VolumeTypes
  <2>3. \A u \in BarTimes' : Bars'[u] \in Nat
    BY <2>2
  <2> QED BY <2>1, <2>3
<1>6. CopiesBehind'
  <2> SUFFICES ASSUME NEW map, map = saving \/ map = file, up, DayOpen,
                      NEW u \in DOMAIN map
               PROVE  u \in BarTimes' /\ map[u] <= Bars'[u]
    BY <1>1 DEF CopiesBehind, Behind
  <2>1. u \in BarTimes /\ map[u] <= Bars[u]
    BY DEF VolumeInv, CopiesBehind, Behind
  <2>2. map[u] \in Nat
    BY DEF VolumeInv, VolumeTypes
  <2>3. Bars[u] \in Nat /\ Bars'[u] \in Nat /\ Bars[u] <= Bars'[u]
    BY <1>5, <2>1
  <2> QED BY <2>1, <2>2, <2>3
<1>7. TotalInv'
  <2>1. SeenQty \in Nat
    BY SeenQtyType, BoundsAssumption DEF IInv
  <2>2. SumOf(Bars)' = last'.total /\ last'.total <= SeenQty'
    BY <1>1, <2>1
  <2>3. SumOf(file)' = SumOf(file) /\ SumOf(saving)' = SumOf(saving)
    BY <1>1
  <2>4. DayOpen' => SumOf(file)' <= SeenQty' /\ SumOf(saving)' <= SeenQty'
    BY <1>1, <2>3 DEF VolumeInv, TotalInv
  <2> QED BY <2>2, <2>4 DEF TotalInv
<1> QED BY <1>4, <1>6, <1>7 DEF VolumeInv

\* The quantity a bar may be credited with: what was traded since the last quote
\* used is never negative.
LEMMA TradedSince ==
    ASSUME IInv, VolumeInv, NEW t \in 0..MaxTime, CalKLine(t)
    PROVE  /\ pend.qty \in Nat
           /\ last.t # 0 => pend.qty - last.total \in Nat
<1>1. pend.qty \in Nat /\ SeenQty = pend.qty
  BY CalKLineFacts, BoundsAssumption DEF IInv, TypeOK, Quote, NoQuote, SeenQty
<1>2. last.total \in Nat /\ (last.t # 0 => last.total <= SeenQty)
  BY DEF VolumeInv, VolumeTypes, TotalInv
<1> QED BY <1>1, <1>2

LEMMA FirstBarStep ==
    ASSUME IInv, VolumeInv, NEW t \in 0..MaxTime, FirstBar(t)
    PROVE  VolumeInv'
<1>1. CalKLine(t) /\ DOMAIN cache = {} /\ last.t = 0
  BY DEF FirstBar, NoBarsYet
<1>2. t \in 1..MaxTime /\ t # 0
  BY <1>1, CalKLineFacts
<1>3. /\ cache' = cache /\ last'.t = t /\ last'.vol = pend.qty /\ last'.total = pend.qty
      /\ UNCHANGED <<saving, file>>
  BY <1>1 DEF FirstBar, CalKLine
<1>4. BarTimes = {} /\ BarTimes' = {t}
  BY <1>1, <1>2, <1>3 DEF BarTimes
<1>5. DOMAIN Bars' = {t} /\ Bars'[t] = pend.qty
  BY <1>3, <1>4 DEF Bars
<1>6. pend.qty \in Nat
  BY <1>1, TradedSince
<1>7. SumOf(Bars') = pend.qty
  <2>1. IsVolumes(Bars')
    BY <1>5, <1>6, FS_Singleton DEF IsVolumes
  <2>2. DOMAIN EmptyMap = DOMAIN Bars' \ {t} /\ DOMAIN EmptyMap = {}
    BY <1>5 DEF EmptyMap
  <2>3. SumOf(Bars') = Bars'[t] + SumOf(EmptyMap)
    BY <1>5, <2>1, <2>2, SumSplit
  <2>4. SumOf(EmptyMap) = 0
    BY <2>2, SumOfEmpty
  <2> QED BY <1>5, <1>6, <2>3, <2>4
<1>8. VolumeTypes'
  BY <1>3, <1>6 DEF VolumeInv, VolumeTypes
<1>9. BarTimes' = BarTimes \cup {t} /\ \A u \in BarTimes : Bars[u] <= Bars'[u]
  BY <1>4
<1> QED BY <1>1, <1>3, <1>7, <1>8, <1>9, CalKLineVolumes

LEMMA SameBarStep ==
    ASSUME IInv, VolumeInv, NEW t \in 0..MaxTime, SameBar(t)
    PROVE  VolumeInv'
<1>1. CalKLine(t) /\ last.t = t
  BY DEF SameBar
<1>2. t \in 1..MaxTime /\ t # 0
  BY <1>1, CalKLineFacts
<1>3. /\ cache' = cache /\ last'.t = t /\ last'.vol = last.vol + pend.qty - last.total
      /\ last'.total = pend.qty /\ UNCHANGED <<saving, file>>
  BY <1>1 DEF SameBar, CalKLine
<1>4. pend.qty \in Nat /\ pend.qty - last.total \in Nat /\ last.vol \in Nat
      /\ last.total \in Nat
  BY <1>1, <1>2, TradedSince DEF VolumeInv, VolumeTypes
<1>5. last'.vol \in Nat /\ last.vol <= last'.vol
  BY <1>3, <1>4
<1>6. VolumeTypes'
  BY <1>3, <1>4, <1>5 DEF VolumeInv, VolumeTypes
<1>7. BarTimes' = BarTimes /\ t \in BarTimes
  BY <1>1, <1>2, <1>3 DEF BarTimes
<1> DEFINE rest == [u \in BarTimes \ {t} |-> cache[u]]
<1>8. /\ DOMAIN Bars = BarTimes /\ DOMAIN Bars' = BarTimes
      /\ Bars[t] = last.vol /\ Bars'[t] = last'.vol
      /\ \A u \in BarTimes \ {t} : Bars[u] = cache[u] /\ Bars'[u] = cache[u]
  BY <1>1, <1>3, <1>7 DEF Bars
<1>9. IsVolumes(Bars) /\ \A u \in BarTimes : Bars[u] \in Nat
  BY BarsNow DEF IInv, VolumeInv
<1>10. \A u \in BarTimes : Bars[u] <= Bars'[u] /\ Bars'[u] \in Nat
  <2> SUFFICES ASSUME NEW u \in BarTimes PROVE Bars[u] <= Bars'[u] /\ Bars'[u] \in Nat
    OBVIOUS
  <2>1. CASE u = t
    BY <1>5, <1>8, <2>1
  <2>2. CASE u # t
    <3>1. Bars'[u] = Bars[u] /\ Bars[u] \in Nat
      BY <1>8, <1>9, <2>2
    <3> QED BY <3>1
  <2> QED BY <2>1, <2>2
<1>11. IsVolumes(Bars')
  BY <1>8, <1>9, <1>10 DEF IsVolumes
<1>12. SumOf(Bars') = pend.qty
  <2>0. /\ DOMAIN rest = DOMAIN Bars \ {t} /\ DOMAIN rest = DOMAIN Bars' \ {t}
        /\ \A u \in DOMAIN rest : rest[u] = Bars[u] /\ rest[u] = Bars'[u]
        /\ t \in DOMAIN Bars /\ t \in DOMAIN Bars'
    BY <1>7, <1>8
  <2>3. IsVolumes(rest)
    BY <1>8, <1>9, FS_Subset DEF IsVolumes
  <2> HIDE DEF rest
  <2>1. SumOf(Bars) = last.vol + SumOf(rest)
    <3>1. SumOf(Bars) = Bars[t] + SumOf(rest)
      BY <1>9, <2>0, SumSplit
    <3> QED BY <1>8, <3>1
  <2>2. SumOf(Bars') = last'.vol + SumOf(rest)
    <3>1. SumOf(Bars') = Bars'[t] + SumOf(rest)
      BY <1>11, <2>0, SumSplit
    <3> QED BY <1>8, <3>1
  <2>4. SumOf(rest) \in Nat
    BY <2>3, SumType
  <2>5. SumOf(Bars) = last.total
    BY <1>1, <1>2 DEF VolumeInv, TotalInv
  <2> QED BY <1>3, <1>4, <2>1, <2>2, <2>4, <2>5
<1>13. BarTimes' = BarTimes \cup {t} /\ \A u \in BarTimes : Bars[u] <= Bars'[u]
  BY <1>7, <1>10
<1> HIDE DEF rest
<1> QED BY <1>1, <1>3, <1>6, <1>12, <1>13, CalKLineVolumes

LEMMA NextBarStep ==
    ASSUME IInv, VolumeInv, NEW t \in 0..MaxTime, NextBar(t)
    PROVE  VolumeInv'
<1>1. CalKLine(t) /\ last.t # t /\ ~NoBarsYet
  BY DEF NextBar
<1>2. t \in 1..MaxTime /\ t # 0 /\ last.t <= t /\ last.t # 0 /\ last.t \in 1..MaxTime
  BY <1>1, CalKLineFacts DEF NoBarsYet, IInv, TypeOK
<1>3. /\ last'.t = t /\ last'.vol = pend.qty - last.total /\ last'.total = pend.qty
      /\ cache' = [k \in DOMAIN cache \cup {last.t} |->
                     IF k = last.t THEN last.vol ELSE cache[k]]
      /\ UNCHANGED <<saving, file>>
  BY <1>1 DEF NextBar, Put, CalKLine
<1>4. pend.qty \in Nat /\ pend.qty - last.total \in Nat /\ last.vol \in Nat
  BY <1>1, <1>2, TradedSince DEF VolumeInv, VolumeTypes
<1>5. VolumeTypes'
  <2>1. \A k \in DOMAIN cache' : cache'[k] \in Nat
    BY <1>3, <1>4 DEF VolumeInv, VolumeTypes
  <2> QED BY <1>3, <1>4, <2>1 DEF VolumeInv, VolumeTypes
<1>6. BarTimes = DOMAIN cache \cup {last.t} /\ BarTimes' = BarTimes \cup {t}
  BY <1>2, <1>3 DEF BarTimes
<1>7. t \notin BarTimes
  <2>1. \A u \in DOMAIN cache : u \in Nat /\ u < last.t
    BY BoundsAssumption DEF IInv, TypeOK, IsMap, BarsInOrder
  <2>2. t \in Nat /\ last.t \in Nat
    BY <1>2, BoundsAssumption
  <2>3. t \notin DOMAIN cache
    BY <1>2, <2>1, <2>2
  <2> QED BY <1>1, <1>6, <2>3
<1>8. /\ DOMAIN Bars = BarTimes /\ DOMAIN Bars' = BarTimes \cup {t}
      /\ Bars'[t] = pend.qty - last.total
      /\ \A u \in BarTimes : Bars'[u] = Bars[u]
  BY <1>3, <1>6, <1>7 DEF Bars
<1>9. IsVolumes(Bars) /\ \A u \in BarTimes : Bars[u] \in Nat
  BY BarsNow DEF IInv, VolumeInv
<1>10. IsVolumes(Bars')
  <2>1. IsFiniteSet(BarTimes \cup {t})
    BY <1>8, <1>9, FS_AddElement DEF IsVolumes
  <2> QED BY <1>4, <1>8, <1>9, <2>1 DEF IsVolumes
<1>11. SumOf(Bars') = pend.qty
  <2>1. DOMAIN Bars = DOMAIN Bars' \ {t} /\ \A u \in DOMAIN Bars : Bars[u] = Bars'[u]
    BY <1>7, <1>8
  <2>2. SumOf(Bars') = Bars'[t] + SumOf(Bars)
    BY <1>8, <1>10, <2>1, SumSplit
  <2>3. SumOf(Bars) = last.total /\ last.total \in Nat
    BY <1>2 DEF VolumeInv, TotalInv, VolumeTypes
  <2> QED BY <1>4, <1>8, <2>2, <2>3
<1>12. \A u \in BarTimes : Bars[u] <= Bars'[u]
  BY <1>8, <1>9
<1> QED BY <1>1, <1>3, <1>5, <1>6, <1>11, <1>12, CalKLineVolumes

LEMMA NextVolumeInv == IInv /\ VolumeInv /\ IInv' /\ [Next]_vars => VolumeInv'
<1> SUFFICES ASSUME IInv, VolumeInv, IInv', [Next]_vars PROVE VolumeInv'
  OBVIOUS
<1>1. CASE UNCHANGED vars
  <2>1. UNCHANGED <<cache, last, saving, file, up, SeenQty>> /\ DayOpen' = DayOpen
    BY <1>1 DEF vars, SeenQty, DayOpen
  <2>2. SeenQty \in Nat /\ SeenQty' \in Nat
    BY SeenQtyType, NextSeenQtyType, BoundsAssumption DEF IInv
  <2> QED BY <2>1, <2>2, QuietKeepsVolumes
<1>2. ASSUME NEW q \in Quote, NEW priced \in BOOLEAN, HandleQuote(q, priced)
      PROVE  VolumeInv'
  BY <1>2, QuietStep DEF IInv
<1>3. ASSUME NEW t \in 0..MaxTime, FirstBar(t) \/ SameBar(t) \/ NextBar(t)
      PROVE  VolumeInv'
  BY <1>3, FirstBarStep, SameBarStep, NextBarStep
<1>4. CASE SkipKLine \/ CloseGate \/ ClearCount \/ ClearLastQuote
  BY <1>4, QuietStep DEF IInv
<1>5. CASE SaveCopy \/ SaveWrite \/ ClearBars
  BY <1>5, SaveStep, ClearBarsStep
<1>6. CASE Crash \/ Recover \/ DailyRestart
  BY <1>6, CrashStep, RecoverStep, DailyRestartStep
<1> QED BY <1>1, <1>2, <1>3, <1>4, <1>5, <1>6 DEF Next

-----------------------------------------------------------------------------
(* Sessions, volumes and the file: the theorems *)

LEMMA VolumeInvHolds == Spec => [](IInv /\ VolumeInv)
<1>1. Init => IInv /\ VolumeInv
  BY InitIInv, InitVolumeInv
<1>2. IInv /\ VolumeInv /\ [Next]_vars => (IInv /\ VolumeInv)'
  BY NextIInv, NextVolumeInv
<1> QED BY <1>1, <1>2, PTL DEF Spec

\* Whatever was skipped, saved late or cut off by a kill, no traded quantity is
\* counted twice or lost between bars.
THEOREM VolumeIsConserved == Spec => []VolumeConserved
<1>1. IInv /\ VolumeInv => VolumeConserved
  <2> SUFFICES ASSUME IInv, VolumeInv, last.t # 0 PROVE VolumeConserved
    BY DEF VolumeConserved
  <2>1. SumOf(Bars) = last.total /\ last.total <= SeenQty
    BY DEF VolumeInv, TotalInv
  <2>2. SeenQty \in 0..MaxQty /\ last.total \in Nat
    BY SeenQtyType DEF IInv, VolumeInv, VolumeTypes
  <2>3. IsVolumes(Bars) /\ DOMAIN Bars = BarTimes /\ \A t \in BarTimes : Bars[t] \in Nat
    BY BarsNow DEF IInv, VolumeInv
  <2>4. \A t \in BarTimes : Bars[t] <= SumOf(Bars)
    BY <2>3, SumBounds
  <2>5. \A t \in BarTimes : Bars[t] \in 0..MaxQty
    BY <2>1, <2>2, <2>3, <2>4, BoundsAssumption
  <2> QED BY <2>1, <2>5 DEF VolumeConserved, SeenQty
<1> QED BY <1>1, VolumeInvHolds, PTL

\* Every bar starts inside a trading session.
THEOREM BarsStayInSession == Spec => []BarsInSession
<1>1. VolumeInv => BarsInSession
  BY DEF VolumeInv, SessionInv, InSession, BarsInSession
<1> QED BY <1>1, VolumeInvHolds, PTL

\* A restart never recovers a bar, or volume, that the memory did not have.
THEOREM DiskStaysBehind == Spec => []DiskBehindMemory
<1>1. VolumeInv => DiskBehindMemory
  BY DEF VolumeInv, CopiesBehind, Behind, DayOpen, DiskBehindMemory
<1> QED BY <1>1, VolumeInvHolds, PTL
=============================================================================
