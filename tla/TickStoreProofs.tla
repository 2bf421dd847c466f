--------------------------- MODULE TickStoreProofs ---------------------------
(***************************************************************************)
(* Proofs about TickStore for every set of quotes, every pause that makes  *)
(* a tick full, every length of the list of recent ticks and every number  *)
(* of ticks: the store implements DayLog, the chain of incremental ticks   *)
(* is never broken, recent ticks are faithful also after a restart, and no *)
(* reply holds a tick twice.                                               *)
(***************************************************************************)
EXTENDS TickStore, Integers, WellFoundedInduction, SequenceTheorems, TLAPS

FullQuotes == [ts : Int, qty : Int, px : Int]

\* What a line of the file holds: the time stamp and some other fields.
Fields == UNION {[D -> Int] : D \in {E \in SUBSET {"ts", "qty", "px"} : "ts" \in E}}
Ticks == [n : Nat, fields : Fields]
FullTicks == [n : Nat, value : FullQuotes]

-----------------------------------------------------------------------------
(* Induction over the natural numbers *)

\* A nonempty set of natural numbers has a least element.
LEMMA LeastNumber ==
    ASSUME NEW T \in SUBSET Nat, T # {}
    PROVE  \E x \in T : \A y \in T : x <= y
<1>1. PICK x \in T : \A y \in T : ~(<<y, x>> \in OpToRel(<, Nat))
  BY NatLessThanWellFounded, WFMin
<1>2. \A y \in T : ~(y < x)
  BY <1>1 DEF OpToRel
<1> QED BY <1>2

\* A set with 0 and the successor of each of its numbers has all of them.
LEMMA SetInduction ==
    ASSUME NEW T, 0 \in T, \A n \in Nat : n \in T => n + 1 \in T
    PROVE  Nat \subseteq T
<1> SUFFICES ASSUME Nat \ T # {} PROVE FALSE
  OBVIOUS
<1>1. PICK x \in Nat \ T : \A y \in Nat \ T : x <= y
  BY LeastNumber
<1>2. x - 1 \in Nat
  BY <1>1
<1> QED BY <1>1, <1>2

-----------------------------------------------------------------------------
(* The invariant *)

Types ==
    /\ phase \in Phases /\ up \in BOOLEAN /\ cleared \in BOOLEAN
    /\ quote \in QuotePcs /\ timer \in TimerPcs /\ reader \in {"idle", "half"}
    /\ lastQuote \in Quotes \cup {NoQuote}
    /\ history \in Seq(Quotes) /\ Len(history) <= MaxTicks
    /\ pend \in Ticks
    /\ whole \in Seq(Ticks) /\ taken \in Seq(Ticks) /\ tick5 \in Seq(Ticks)
    /\ file \in Seq(Ticks) /\ part \in Seq(Ticks)
    /\ recent \in Seq(FullTicks)

\* What is empty or idle when.
Shape ==
    /\ ~up => /\ quote = "idle" /\ timer = "idle" /\ reader = "idle"
              /\ tick5 = <<>> /\ lastQuote = NoQuote
    /\ phase # "trading" => quote = "idle"
    /\ phase = "window" => tick5 = <<>> /\ taken = <<>>
    /\ timer \in {"clearRecent", "clearWhole", "clearTick5", "clearLast"} => phase = "window"
    /\ timer = "idle" => taken = <<>>

Live == up /\ phase # "window"

\* The ticks of the day in memory are those of the file and those being written.
DiskInv == Live => whole = IF timer = "write" THEN file \o taken ELSE file

\* Every tick of the list is of an accepted quote, and is full or the difference to
\* the tick before it.
InHistory(ticks, hist) == \A i \in 1..Len(ticks) : ticks[i].n \in 1..Len(hist)
Linked(ticks, hist, i) ==
    \/ ticks[i].fields = hist[ticks[i].n]
    \/ i > 1 /\ ticks[i].fields = Printed(hist[ticks[i].n], hist[ticks[i - 1].n])
Chain(ticks, hist) ==
    /\ InHistory(ticks, hist)
    /\ \A i \in 1..Len(ticks) : Linked(ticks, hist, i)
    /\ \A i, j \in 1..Len(ticks) : i < j => ticks[i].n < ticks[j].n

ChainInv ==
    /\ Chain(Stream, history)
    /\ InHistory(whole, history) /\ InHistory(taken, history) /\ InHistory(tick5, history) /\ InHistory(file, history)
    /\ InHistory(part, history)

\* The next tick continues the chain.
LastInv ==
    /\ Live /\ lastQuote # NoQuote =>
          /\ Stream # <<>> /\ Stream[Len(Stream)].n = Len(history)
          /\ Len(history) > 0 /\ lastQuote = history[Len(history)]
    /\ quote # "idle" => /\ pend.n = Len(history) /\ Len(history) > 0
                         /\ lastQuote = history[Len(history)]

GoodList(list, hist) ==
    /\ \A i \in 1..Len(list) :
          list[i].n \in 1..Len(hist) /\ list[i].value = hist[list[i].n]
    /\ \A i, j \in 1..Len(list) : i < j => list[i].n < list[j].n

RecentInv ==
    /\ Len(recent) <= Recent
    /\ GoodList(recent, history)
    /\ quote = "recent" => \A i \in 1..Len(recent) : recent[i].n < Len(history)

\* One sequence is the beginning of another.
Begins(s, t) == Len(s) <= Len(t) /\ \A i \in 1..Len(s) : s[i] = t[i]

\* What a reader has is still a prefix of the ticks of the day.
PartInv ==
    reader = "half" /\ phase # "window" => Begins(part, whole)

IInv == Types /\ Shape /\ DiskInv /\ ChainInv /\ LastInv /\ RecentInv /\ PartInv
-----------------------------------------------------------------------------
(* Ticks *)

LEMMA QuoteIsFull == Quotes \cup {NoQuote} \subseteq FullQuotes
BY QuotesAssumption DEF NoQuote, FullQuotes

LEMMA PrintedIsFields ==
    ASSUME NEW q \in FullQuotes, NEW base \in FullQuotes
    PROVE  q \in Fields /\ Printed(q, base) \in Fields
<1>1. DOMAIN q = {"ts", "qty", "px"} /\ q \in [{"ts", "qty", "px"} -> Int]
  BY DEF FullQuotes
<1>2. /\ Changed(q, base) \in {E \in SUBSET {"ts", "qty", "px"} : "ts" \in E}
      /\ {"ts", "qty", "px"} \in {E \in SUBSET {"ts", "qty", "px"} : "ts" \in E}
  BY DEF Changed
<1>3. Printed(q, base) \in [Changed(q, base) -> Int]
  BY <1>1, <1>2 DEF Printed
<1> QED BY <1>1, <1>2, <1>3 DEF Fields

LEMMA TickFieldsIs ==
    ASSUME Types, NEW q \in Quotes
    PROVE  /\ TickFields(q) \in Fields
           /\ TickFields(q) = q \/ (lastQuote # NoQuote /\ TickFields(q) = Printed(q, lastQuote))
<1>1. q \in FullQuotes /\ lastQuote \in FullQuotes
  BY QuoteIsFull DEF Types
<1> QED BY <1>1, PrintedIsFields DEF TickFields

LEMMA NoTickIsTick == NoTick \in Ticks
<1>1. NoQuote \in Fields
  BY QuoteIsFull, PrintedIsFields
<1> QED BY <1>1 DEF NoTick, Ticks

-----------------------------------------------------------------------------
(* Beginnings of sequences *)

LEMMA BeginsConcat ==
    ASSUME NEW S, NEW s \in Seq(S), NEW t \in Seq(S)
    PROVE  Begins(s, s \o t)
BY ConcatProperties, LenProperties DEF Begins

LEMMA BeginsTrans ==
    ASSUME NEW S, NEW s \in Seq(S), NEW t \in Seq(S), NEW u \in Seq(S), Begins(s, t), Begins(t, u)
    PROVE  Begins(s, u)
BY LenProperties DEF Begins

LEMMA BeginsIsSubSeq ==
    ASSUME NEW S, NEW s \in Seq(S), NEW t \in Seq(S), Begins(s, t)
    PROVE  s = SubSeq(t, 1, Len(s))
<1>1. Len(s) \in Nat /\ Len(t) \in Nat /\ Len(s) <= Len(t)
  BY LenProperties DEF Begins
<1>2. \A i \in 1..Len(s) : t[i] \in S
  BY <1>1, ElementOfSeq
<1>3. /\ SubSeq(t, 1, Len(s)) \in Seq(S) /\ Len(SubSeq(t, 1, Len(s))) = Len(s)
      /\ \A i \in 1..Len(s) : SubSeq(t, 1, Len(s))[i] = t[i]
  <2>1. 1 \in Int /\ Len(s) \in Int
    BY <1>1
  <2>2. /\ SubSeq(t, 1, Len(s)) \in Seq(S)
        /\ Len(SubSeq(t, 1, Len(s))) = IF 1 <= Len(s) THEN (Len(s) - 1) + 1 ELSE 0
        /\ \A i \in 1..((Len(s) - 1) + 1) : SubSeq(t, 1, Len(s))[i] = t[(1 + i) - 1]
    BY <1>2, <2>1, SubSeqProperties
  <2>3. (Len(s) - 1) + 1 = Len(s) /\ \A i \in 1..Len(s) : (1 + i) - 1 = i
    BY <1>1
  <2> QED BY <1>1, <2>2, <2>3
<1>4. \A i \in 1..Len(s) : s[i] = SubSeq(t, 1, Len(s))[i]
  BY <1>3 DEF Begins
<1> QED BY <1>3, <1>4, SeqEqual

LEMMA SubSeqBegins ==
    ASSUME NEW S, NEW t \in Seq(S), NEW k \in 0..Len(t)
    PROVE  SubSeq(t, 1, k) \in Seq(S) /\ Len(SubSeq(t, 1, k)) = k /\ Begins(SubSeq(t, 1, k), t)
<1>1. Len(t) \in Nat /\ k \in Nat
  BY LenProperties
<1>2. \A i \in 1..k : t[i] \in S
  BY <1>1, ElementOfSeq
<1>3. /\ SubSeq(t, 1, k) \in Seq(S)
      /\ Len(SubSeq(t, 1, k)) = IF 1 <= k THEN (k - 1) + 1 ELSE 0
      /\ \A i \in 1..((k - 1) + 1) : SubSeq(t, 1, k)[i] = t[(1 + i) - 1]
  BY <1>1, <1>2, SubSeqProperties
<1>4. (k - 1) + 1 = k /\ \A i \in 1..k : (1 + i) - 1 = i
  BY <1>1
<1> QED BY <1>1, <1>3, <1>4 DEF Begins

\* Part of what is appended extends the beginning.
LEMMA BeginsPart ==
    ASSUME NEW S, NEW s \in Seq(S), NEW t \in Seq(S), NEW k \in 0..Len(t)
    PROVE  /\ s \o SubSeq(t, 1, k) \in Seq(S)
           /\ Begins(s, s \o SubSeq(t, 1, k)) /\ Begins(s \o SubSeq(t, 1, k), s \o t)
<1> DEFINE u == SubSeq(t, 1, k)
<1>1. u \in Seq(S) /\ Len(u) = k /\ Begins(u, t)
  BY SubSeqBegins
<1>2. Len(s) \in Nat /\ Len(t) \in Nat /\ k \in Nat /\ k <= Len(t)
  BY LenProperties
<1> HIDE DEF u
<1>3. /\ s \o u \in Seq(S) /\ Len(s \o u) = Len(s) + k /\ Len(s \o t) = Len(s) + Len(t)
      /\ \A i \in 1..(Len(s) + k) : (s \o u)[i] = IF i <= Len(s) THEN s[i] ELSE u[i - Len(s)]
      /\ \A i \in 1..(Len(s) + Len(t)) : (s \o t)[i] = IF i <= Len(s) THEN s[i] ELSE t[i - Len(s)]
  BY <1>1, ConcatProperties
<1>4. Begins(s, s \o u)
  BY <1>1, BeginsConcat
<1>5. ASSUME NEW i \in 1..(Len(s) + k) PROVE (s \o u)[i] = (s \o t)[i]
  <2>1. i \in 1..(Len(s) + Len(t))
    BY <1>2
  <2>2. CASE i <= Len(s)
    BY <1>3, <2>1, <2>2
  <2>3. CASE ~(i <= Len(s))
    <3>1. i - Len(s) \in 1..k
      BY <1>2, <2>3
    <3>2. u[i - Len(s)] = t[i - Len(s)]
      BY <1>1, <3>1 DEF Begins
    <3> QED BY <1>3, <2>1, <2>3, <3>2
  <2> QED BY <2>2, <2>3
<1>6. Begins(s \o u, s \o t)
  BY <1>2, <1>3, <1>5 DEF Begins
<1> QED BY <1>3, <1>4, <1>6 DEF u

LEMMA ChainBegins ==
    ASSUME NEW s, NEW t, NEW hist, Len(s) \in Nat, Len(t) \in Nat, Begins(s, t), Chain(t, hist)
    PROVE  Chain(s, hist)
<1>1. \A i \in 1..Len(s) : i \in 1..Len(t) /\ s[i] = t[i]
  BY DEF Begins
<1>2. InHistory(s, hist)
  BY <1>1 DEF Chain, InHistory
<1>3. ASSUME NEW i \in 1..Len(s) PROVE Linked(s, hist, i)
  <2>1. i > 1 => i - 1 \in 1..Len(s)
    OBVIOUS
  <2>2. i > 1 => s[i - 1] = t[i - 1]
    BY <1>1, <2>1
  <2>3. Linked(t, hist, i) /\ s[i] = t[i]
    BY <1>1 DEF Chain
  <2> QED BY <2>2, <2>3 DEF Linked
<1>4. \A i, j \in 1..Len(s) : i < j => s[i].n < s[j].n
  BY <1>1 DEF Chain
<1> QED BY <1>2, <1>3, <1>4 DEF Chain

\* A chain goes on with a tick that is full, or the difference to its last tick.
LEMMA ChainAppend ==
    ASSUME NEW s \in Seq(Ticks), NEW tick \in Ticks, NEW hist, Chain(s, hist), Len(hist) \in Nat,
           tick.n \in 1..Len(hist), \A i \in 1..Len(s) : s[i].n < tick.n,
           \/ tick.fields = hist[tick.n]
           \/ Len(s) > 0 /\ tick.fields = Printed(hist[tick.n], hist[s[Len(s)].n])
    PROVE  Chain(Append(s, tick), hist)
<1> DEFINE t == Append(s, tick)
<1>1. /\ Len(s) \in Nat /\ Len(t) = Len(s) + 1
      /\ t[Len(s) + 1] = tick /\ \A i \in 1..Len(s) : t[i] = s[i]
  BY LenProperties, AppendProperties
<1> HIDE DEF t
<1>2. InHistory(t, hist)
  BY <1>1 DEF Chain, InHistory
<1>3. ASSUME NEW i \in 1..Len(t) PROVE Linked(t, hist, i)
  <2>1. CASE i = Len(s) + 1
    <3>1. Len(s) > 0 => i > 1 /\ t[i - 1] = s[Len(s)]
      BY <1>1, <2>1
    <3>2. t[i] = tick
      BY <1>1, <2>1
    <3> QED BY <3>1, <3>2 DEF Linked
  <2>2. CASE i # Len(s) + 1
    <3>1. i \in 1..Len(s) /\ (i > 1 => i - 1 \in 1..Len(s))
      BY <1>1, <2>2
    <3>2. t[i] = s[i] /\ (i > 1 => t[i - 1] = s[i - 1]) /\ Linked(s, hist, i)
      BY <1>1, <3>1 DEF Chain
    <3> QED BY <3>2 DEF Linked
  <2> QED BY <2>1, <2>2
<1>4. ASSUME NEW i \in 1..Len(t), NEW j \in 1..Len(t), i < j PROVE t[i].n < t[j].n
  <2>1. i \in 1..Len(s) /\ t[i] = s[i]
    BY <1>1, <1>4
  <2>2. CASE j = Len(s) + 1
    BY <1>1, <2>1, <2>2
  <2>3. CASE j # Len(s) + 1
    <3>1. j \in 1..Len(s) /\ t[j] = s[j]
      BY <1>1, <2>3
    <3> QED BY <1>4, <2>1, <3>1 DEF Chain
  <2> QED BY <2>2, <2>3
<1> QED BY <1>2, <1>3, <1>4 DEF Chain, t

-----------------------------------------------------------------------------
(* The ticks of the day *)

Moving == IF timer = "compress" THEN taken ELSE <<>>
Pending == IF quote = "idle" THEN <<>> ELSE <<pend>>
Stored == (whole \o Moving) \o tick5

LEMMA StreamIs == Stream = IF Live THEN Stored \o Pending ELSE file
BY DEF Stream, Live, Stored, Moving, Pending

LEMMA StreamType ==
    ASSUME Types
    PROVE  /\ Moving \in Seq(Ticks) /\ Pending \in Seq(Ticks) /\ Stored \in Seq(Ticks)
           /\ Stored \o Pending \in Seq(Ticks) /\ Stream \in Seq(Ticks)
<1>1. Moving \in Seq(Ticks) /\ Pending \in Seq(Ticks)
  BY DEF Types, Moving, Pending
<1>2. whole \o Moving \in Seq(Ticks)
  BY <1>1, ConcatProperties DEF Types
<1>3. Stored \in Seq(Ticks)
  BY <1>2, ConcatProperties DEF Types, Stored
<1>4. Stored \o Pending \in Seq(Ticks)
  BY <1>1, <1>3, ConcatProperties
<1> QED BY <1>1, <1>3, <1>4, StreamIs DEF Types

\* What is on disk begins the ticks of the day.
LEMMA FileBegins ==
    ASSUME Types, DiskInv
    PROVE  Begins(file, Stream)
<1>1. file \in Seq(Ticks) /\ whole \in Seq(Ticks) /\ taken \in Seq(Ticks)
  BY DEF Types
<1>2. CASE ~Live
  BY <1>1, <1>2, StreamIs, LenProperties DEF Begins
<1>3. CASE Live
  <2>1. Begins(file, whole)
    <3>1. CASE timer = "write"
      BY <1>1, <1>3, <3>1, BeginsConcat DEF DiskInv
    <3>2. CASE timer # "write"
      BY <1>1, <1>3, <3>2, LenProperties DEF DiskInv, Begins
    <3> QED BY <3>1, <3>2
  <2>2. whole \o Moving \in Seq(Ticks) /\ Begins(whole, whole \o Moving)
    BY <1>1, StreamType, ConcatProperties, BeginsConcat
  <2>3. Stored \in Seq(Ticks) /\ Begins(whole \o Moving, Stored)
    BY <2>2, StreamType, BeginsConcat DEF Stored, Types
  <2>4. Begins(Stored, Stored \o Pending)
    BY StreamType, BeginsConcat
  <2>5. Begins(file, whole \o Moving)
    BY <1>1, <2>1, <2>2, BeginsTrans
  <2>6. Begins(file, Stored)
    BY <1>1, <2>2, <2>3, <2>5, BeginsTrans
  <2>7. Begins(file, Stored \o Pending)
    BY <1>1, <2>4, <2>6, StreamType, BeginsTrans
  <2> QED BY <1>3, <2>7, StreamIs
<1> QED BY <1>2, <1>3

\* So do the ticks the compressed part holds.
LEMMA WholeBegins ==
    ASSUME Types, Live
    PROVE  Begins(whole \o tick5, Stream) \/ timer = "compress"
<1>1. CASE timer # "compress"
  <2>1. whole \o Moving = whole
    BY <1>1, ConcatEmptySeq DEF Moving, Types
  <2>2. Stored = whole \o tick5
    BY <2>1 DEF Stored
  <2>3. Begins(Stored, Stored \o Pending)
    BY StreamType, BeginsConcat
  <2> QED BY <2>2, <2>3, StreamIs
<1> QED BY <1>1

\* Inside memory ticks only move: no step but an accepted quote, a crash and the
\* next trade date changes the ticks of the day.
Quiet ==
    \/ PushRecent \/ PushTick5 \/ CloseGate \/ OpenWindow \/ SaveTicks \/ ClearCache
    \/ ReadWhole \/ ReadTick5 \/ Recover

LEMMA QuietKeepsStream ==
    ASSUME Types, Shape, DiskInv, Quiet
    PROVE  Stream' = Stream /\ history' = history
<1> DEFINE empty == <<>>
<1>0. /\ whole \in Seq(Ticks) /\ taken \in Seq(Ticks) /\ tick5 \in Seq(Ticks)
      /\ file \in Seq(Ticks) /\ pend \in Ticks /\ empty \in Seq(Ticks)
  BY DEF Types
<1>1. Stream = IF Live THEN Stored \o Pending ELSE file
  BY StreamIs
<1>2. Stream' = IF Live' THEN Stored' \o Pending' ELSE file'
  BY DEF Stream, Live, Stored, Moving, Pending
<1>3. CASE PushRecent
  BY <1>1, <1>2, <1>3 DEF PushRecent, Live, Stored, Moving, Pending
<1>4. CASE PushTick5
  <2>1. /\ Stored' = (whole \o Moving) \o Append(tick5, pend) /\ Pending' = empty
        /\ Pending = <<pend>> /\ Live' = Live /\ file' = file /\ history' = history
    BY <1>4 DEF PushTick5, Stored, Moving, Pending, Live
  <2>2. whole \o Moving \in Seq(Ticks)
    BY <1>0, StreamType, ConcatProperties
  <2>3. Append(tick5, pend) = tick5 \o <<pend>> /\ <<pend>> \in Seq(Ticks)
    BY <1>0, AppendIsConcat
  <2>4. (whole \o Moving) \o (tick5 \o <<pend>>) = Stored \o <<pend>>
    BY <1>0, <2>2, <2>3, ConcatAssociative DEF Stored
  <2>5. Stored \o <<pend>> \in Seq(Ticks)
    BY <2>3, StreamType, ConcatProperties
  <2>6. (Stored \o <<pend>>) \o empty = Stored \o <<pend>>
    BY <2>5, ConcatEmptySeq
  <2> QED BY <1>1, <1>2, <2>1, <2>3, <2>4, <2>6
<1>5. CASE CloseGate
  BY <1>1, <1>2, <1>5 DEF CloseGate, memory, Live, Stored, Moving, Pending, Phases
<1>6. CASE OpenWindow
  <2>1. /\ ~Live' /\ file' = file /\ history' = history
        /\ timer = "idle" /\ tick5 = empty /\ phase = "closed"
    BY <1>6 DEF OpenWindow, Live
  <2>2. CASE Live
    <3>1. quote = "idle" /\ Moving = empty /\ Pending = empty /\ whole = file
      BY <2>1, <2>2 DEF Shape, Moving, Pending, DiskInv
    <3>2. whole \o empty = whole
      BY <1>0, ConcatEmptySeq
    <3> QED BY <1>1, <1>2, <2>1, <2>2, <3>1, <3>2 DEF Stored
  <2> QED BY <1>1, <1>2, <2>1, <2>2
<1>7. CASE TakeTicks
  <2>1. /\ Moving = empty /\ Moving' = tick5 /\ tick5' = empty /\ whole' = whole
        /\ Pending' = Pending /\ Live' = Live /\ file' = file /\ history' = history
    BY <1>7 DEF TakeTicks, CopiedTicks, LeftBehind, Moving, Pending, Live
  <2>2. whole \o empty = whole /\ whole \o tick5 \in Seq(Ticks)
    BY <1>0, ConcatEmptySeq, ConcatProperties
  <2>3. (whole \o tick5) \o empty = whole \o tick5
    BY <2>2, ConcatEmptySeq
  <2>4. Stored' = Stored
    BY <2>1, <2>2, <2>3 DEF Stored
  <2> QED BY <1>1, <1>2, <2>1, <2>4
<1>8. CASE CompressTicks
  <2>1. /\ Moving = taken /\ Moving' = empty /\ tick5' = tick5 /\ whole' = whole \o taken
        /\ Pending' = Pending /\ Live' = Live /\ file' = file /\ history' = history
    BY <1>8 DEF CompressTicks, WithTaken, Moving, Pending, Live
  <2>2. whole \o taken \in Seq(Ticks)
    BY <1>0, ConcatProperties
  <2>3. (whole \o taken) \o empty = whole \o taken
    BY <2>2, ConcatEmptySeq
  <2>4. Stored' = Stored
    BY <2>1, <2>3 DEF Stored
  <2> QED BY <1>1, <1>2, <2>1, <2>4
<1>9. CASE WriteTicks
  <2>1. /\ Moving = empty /\ Moving' = empty /\ tick5' = tick5 /\ whole' = whole /\ up
        /\ Pending' = Pending /\ Live' = Live /\ file' = file \o taken /\ history' = history
    BY <1>9 DEF WriteTicks, Extended, Moving, Pending, Live
  <2>2. ~Live => file' = file
    BY <1>0, <2>1, ConcatEmptySeq DEF Shape, Live
  <2>3. Stored' = Stored
    BY <2>1 DEF Stored
  <2> QED BY <1>1, <1>2, <2>1, <2>2, <2>3
<1>10. CASE ClearCache
  BY <1>1, <1>2, <1>10
  DEF ClearCache, ClearRecent, ClearWhole, ClearTick5, ClearLast, Shape, Live
<1>11. CASE ReadWhole \/ ReadTick5
  BY <1>1, <1>2, <1>11 DEF ReadWhole, ReadTick5, Live, Stored, Moving, Pending
<1>12. CASE Recover
  <2>1. ~Live /\ file' = file /\ history' = history /\ up'
    BY <1>12 DEF Recover, Live
  <2>2. CASE Live'
    <3>1. /\ whole' = file /\ Moving' = empty /\ Pending' = empty /\ tick5' = empty
      BY <1>12, <2>2 DEF Recover, Live, Shape, Moving, Pending
    <3>2. file \o empty = file
      BY <1>0, ConcatEmptySeq
    <3> QED BY <1>1, <1>2, <2>1, <2>2, <3>1, <3>2 DEF Stored
  <2> QED BY <1>1, <1>2, <2>1, <2>2
<1> QED BY <1>3, <1>4, <1>5, <1>6, <1>7, <1>8, <1>9, <1>10, <1>11, <1>12 DEF Quiet, SaveTicks

\* An accepted quote makes one tick more of the day.
LEMMA QuoteExtendsStream ==
    ASSUME Types, NEW q \in Quotes, HandleQuote(q)
    PROVE  /\ Stream' = Append(Stream, pend') /\ history' = Append(history, q)
           /\ pend' = [n |-> Len(history) + 1, fields |-> TickFields(q)] /\ Live
<1>1. /\ Live /\ Live' /\ Stored' = Stored /\ quote = "idle" /\ quote' = "recent"
      /\ history' = Append(history, q)
      /\ pend' = [n |-> Len(history'), fields |-> TickFields(q)]
  BY DEF HandleQuote, Live, Stored, Moving
<1>2. Len(history') = Len(history) + 1
  BY <1>1, AppendProperties DEF Types
<1>3. Stream = Stored \o <<>> /\ Stream' = Stored \o <<pend'>>
  BY <1>1 DEF Stream, Live, Stored, Moving
<1>4. Stream = Stored
  BY <1>3, StreamType, ConcatEmptySeq
<1>5. pend' \in Ticks
  <2>1. Len(history) + 1 \in Nat
    BY LenProperties DEF Types
  <2> QED BY <1>1, <1>2, <2>1, TickFieldsIs DEF Ticks
<1>6. Append(Stored, pend') = Stored \o <<pend'>>
  BY <1>5, StreamType, AppendIsConcat
<1> QED BY <1>1, <1>2, <1>3, <1>4, <1>6

\* A crash leaves a beginning of the ticks of the day: what was on disk and perhaps
\* some of what was being written.
LEMMA CrashKeepsBeginning ==
    ASSUME Types, Shape, DiskInv, Crash
    PROVE  /\ Stream' = file' /\ file' \in Seq(Ticks) /\ history' = history
           /\ Begins(file, file') /\ Begins(file', Stream)
<1>0. file \in Seq(Ticks) /\ taken \in Seq(Ticks) /\ whole \in Seq(Ticks) /\ tick5 \in Seq(Ticks)
  BY DEF Types
<1>1. Stream' = file' /\ history' = history
  BY DEF Crash, Stream
<1>2. PICK k \in 0..(IF timer = "write" THEN Len(taken) ELSE 0) :
          file' = file \o SubSeq(taken, 1, k)
  BY DEF Crash
<1>3. k \in 0..Len(taken)
  BY <1>0, <1>2, LenProperties
<1>4. file' \in Seq(Ticks) /\ Begins(file, file') /\ Begins(file', file \o taken)
  BY <1>0, <1>2, <1>3, BeginsPart
<1>5. CASE timer = "write" /\ Live
  <2>1. whole = file \o taken /\ whole \o Moving = whole
    BY <1>0, <1>5, ConcatEmptySeq DEF DiskInv, Moving
  <2>2. Begins(whole, Stored) /\ Begins(Stored, Stream)
    BY <1>0, <1>5, <2>1, StreamType, StreamIs, BeginsConcat DEF Stored
  <2>3. Begins(file', Stored)
    BY <1>0, <1>4, <2>1, <2>2, StreamType, BeginsTrans
  <2> QED BY <1>1, <1>4, <2>2, <2>3, StreamType, BeginsTrans
<1>6. CASE ~(timer = "write" /\ Live)
  <2>1. k = 0
    <3>1. CASE timer # "write"
      BY <1>2, <3>1
    <3>2. CASE timer = "write"
      BY <1>2, <1>6, <3>2 DEF Shape, Live, Crash
    <3> QED BY <3>1, <3>2
  <2>2. SubSeq(taken, 1, k) = <<>>
    BY <1>0, <1>3, <2>1, SubSeqBegins, EmptySeq
  <2>3. file' = file
    BY <1>0, <1>2, <2>2, ConcatEmptySeq
  <2> QED BY <1>1, <1>4, <2>3, FileBegins
<1> QED BY <1>5, <1>6

-----------------------------------------------------------------------------
(* Decoding *)

\* What a full tick decodes to, and what the difference to a known quote does.
LEMMA FilledIs ==
    ASSUME NEW q \in FullQuotes, NEW base \in FullQuotes
    PROVE  Filled(q, base) = q /\ Filled(Printed(q, base), base) = q
<1>1. DOMAIN q = {"ts", "qty", "px"} /\ DOMAIN base = {"ts", "qty", "px"}
  BY DEF FullQuotes
<1>2. q = [f \in {"ts", "qty", "px"} |-> q[f]]
  BY DEF FullQuotes
<1>3. Filled(q, base) = q
  BY <1>1, <1>2 DEF Filled
<1>4. /\ DOMAIN Printed(q, base) = Changed(q, base)
      /\ \A f \in Changed(q, base) : Printed(q, base)[f] = q[f]
      /\ \A f \in {"ts", "qty", "px"} : f \notin Changed(q, base) => base[f] = q[f]
  BY DEF Printed, Changed
<1>5. \A f \in {"ts", "qty", "px"} :
        (IF f \in DOMAIN Printed(q, base) THEN Printed(q, base)[f] ELSE base[f]) = q[f]
  BY <1>4
<1>6. Filled(Printed(q, base), base) = [f \in {"ts", "qty", "px"} |-> q[f]]
  BY <1>1, <1>5 DEF Filled
<1> QED BY <1>2, <1>3, <1>6

\* The recursive function of Decoded is what its equation says.
FullOf(ticks, full, k) ==
    full = [i \in 0..k |-> IF i = 0 THEN NoQuote ELSE Filled(ticks[i].fields, full[i - 1])]

LEMMA FullExists ==
    ASSUME NEW ticks, NEW k \in Nat
    PROVE  \E full : FullOf(ticks, full, k)
<1> DEFINE T == {n \in Nat : \E full : FullOf(ticks, full, n)}
<1>1. 0 \in T
  <2>1. FullOf(ticks, [i \in 0..0 |-> NoQuote], 0)
    BY DEF FullOf
  <2> QED BY <2>1
<1>2. ASSUME NEW n \in Nat, n \in T PROVE n + 1 \in T
  <2>1. PICK f : FullOf(ticks, f, n)
    BY <1>2
  <2> DEFINE g == [i \in 0..(n + 1) |->
                     IF i = n + 1 THEN Filled(ticks[n + 1].fields, f[n]) ELSE f[i]]
  <2>2. \A i \in 0..n : f[i] = IF i = 0 THEN NoQuote ELSE Filled(ticks[i].fields, f[i - 1])
    BY <2>1 DEF FullOf
  <2>3. g[n + 1] = Filled(ticks[n + 1].fields, f[n]) /\ \A i \in 0..n : g[i] = f[i]
    OBVIOUS
  <2> HIDE DEF g
  <2>4. ASSUME NEW i \in 0..(n + 1)
        PROVE  g[i] = IF i = 0 THEN NoQuote ELSE Filled(ticks[i].fields, g[i - 1])
    <3>1. CASE i = n + 1
      BY <2>3, <3>1
    <3>2. CASE i # n + 1
      <4>1. i \in 0..n /\ (i # 0 => i - 1 \in 0..n)
        BY <3>2
      <4> QED BY <2>2, <2>3, <4>1
    <3> QED BY <3>1, <3>2
  <2>5. g = [i \in 0..(n + 1) |-> g[i]]
    BY DEF g
  <2>6. FullOf(ticks, g, n + 1)
    BY <2>4, <2>5 DEF FullOf
  <2> QED BY <2>6
<1>3. Nat \subseteq T
  BY <1>1, <1>2, SetInduction
<1> QED BY <1>3

LEMMA DecodedIs ==
    ASSUME NEW ticks \in Seq(Ticks)
    PROVE  \E full :
             /\ FullOf(ticks, full, Len(ticks))
             /\ Decoded(ticks) = [i \in 1..Len(ticks) |-> [n |-> ticks[i].n, value |-> full[i]]]
<1>1. \E full : FullOf(ticks, full, Len(ticks))
  BY FullExists, LenProperties
<1> QED BY <1>1 DEF FullOf, Decoded

\* Whoever reads a chain in order decodes every tick to the accepted quote.
LEMMA ChainDecodes ==
    ASSUME Types, NEW ticks \in Seq(Ticks), Chain(ticks, history)
    PROVE  Decoded(ticks) =
             [i \in 1..Len(ticks) |-> [n |-> ticks[i].n, value |-> history[ticks[i].n]]]
<1>1. PICK full :
        /\ FullOf(ticks, full, Len(ticks))
        /\ Decoded(ticks) = [i \in 1..Len(ticks) |-> [n |-> ticks[i].n, value |-> full[i]]]
  BY DecodedIs
<1>2. /\ full[0] = NoQuote /\ Len(ticks) \in Nat
      /\ \A i \in 1..Len(ticks) : full[i] = Filled(ticks[i].fields, full[i - 1])
  BY <1>1, LenProperties DEF FullOf
<1>3. \A i \in 1..Len(ticks) : history[ticks[i].n] \in FullQuotes
  <2>1. \A i \in 1..Len(history) : history[i] \in FullQuotes
    BY QuoteIsFull, ElementOfSeq DEF Types
  <2> QED BY <2>1 DEF Chain, InHistory
<1> DEFINE T == {i \in Nat : i \in 1..Len(ticks) => full[i] = history[ticks[i].n]}
<1>4. 0 \in T
  OBVIOUS
<1>5. ASSUME NEW i \in Nat, i \in T, i + 1 \in 1..Len(ticks)
      PROVE  full[i + 1] = history[ticks[i + 1].n]
  <2>1. full[i + 1] = Filled(ticks[i + 1].fields, full[i]) /\ Linked(ticks, history, i + 1)
    BY <1>2, <1>5 DEF Chain
  <2>2. i # 0 => i \in 1..Len(ticks) /\ full[i] = history[ticks[i].n]
    BY <1>5
  <2>3. full[i] \in FullQuotes
    BY <1>2, <1>3, <2>2, QuoteIsFull
  <2>4. history[ticks[i + 1].n] \in FullQuotes
    BY <1>3, <1>5
  <2>5. CASE ticks[i + 1].fields = history[ticks[i + 1].n]
    BY <2>1, <2>3, <2>4, <2>5, FilledIs
  <2>6. CASE i > 0 /\ ticks[i + 1].fields = Printed(history[ticks[i + 1].n], history[ticks[i].n])
    BY <2>1, <2>2, <2>3, <2>4, <2>6, FilledIs
  <2> QED BY <2>1, <2>5, <2>6 DEF Linked
<1>6. ASSUME NEW i \in Nat, i \in T PROVE i + 1 \in T
  BY <1>5, <1>6
<1>7. Nat \subseteq T
  <2> HIDE DEF T
  <2> QED BY <1>4, <1>6, SetInduction
<1>8. \A i \in 1..Len(ticks) : full[i] = history[ticks[i].n]
  BY <1>7
<1> QED BY <1>1, <1>8

-----------------------------------------------------------------------------
(* Recovery *)

\* The recursive function of Traded is what its equation says.
Picks(full, first, i) ==
    IF i = 1 THEN first ELSE full[i].value.qty # full[i - 1].value.qty
KeptOf(full, first, kept, k) ==
    kept = [i \in 0..k |->
              IF i = 0 THEN <<>>
              ELSE IF Picks(full, first, i) THEN Append(kept[i - 1], full[i]) ELSE kept[i - 1]]

LEMMA KeptExists ==
    ASSUME NEW full, NEW first, NEW k \in Nat
    PROVE  \E kept : KeptOf(full, first, kept, k)
<1> DEFINE T == {n \in Nat : \E kept : KeptOf(full, first, kept, n)}
<1>1. 0 \in T
  <2>1. KeptOf(full, first, [i \in 0..0 |-> <<>>], 0)
    BY DEF KeptOf
  <2> QED BY <2>1
<1>2. ASSUME NEW n \in Nat, n \in T PROVE n + 1 \in T
  <2>1. PICK f : KeptOf(full, first, f, n)
    BY <1>2
  <2> DEFINE Step(i, before) == IF Picks(full, first, i) THEN Append(before, full[i]) ELSE before
             g == [i \in 0..(n + 1) |-> IF i = n + 1 THEN Step(n + 1, f[n]) ELSE f[i]]
  <2>2. \A i \in 0..n : f[i] = IF i = 0 THEN <<>> ELSE Step(i, f[i - 1])
    BY <2>1 DEF KeptOf
  <2>3. g[n + 1] = Step(n + 1, f[n]) /\ \A i \in 0..n : g[i] = f[i]
    OBVIOUS
  <2>4. g = [i \in 0..(n + 1) |-> g[i]]
    OBVIOUS
  <2> HIDE DEF g, Step
  <2>5. ASSUME NEW i \in 0..(n + 1) PROVE g[i] = IF i = 0 THEN <<>> ELSE Step(i, g[i - 1])
    <3>1. CASE i = n + 1
      BY <2>3, <3>1
    <3>2. CASE i # n + 1
      <4>1. i \in 0..n /\ (i # 0 => i - 1 \in 0..n)
        BY <3>2
      <4> QED BY <2>2, <2>3, <4>1
    <3> QED BY <3>1, <3>2
  <2>6. KeptOf(full, first, g, n + 1)
    BY <2>4, <2>5 DEF KeptOf, Step
  <2> QED BY <2>6
<1>3. Nat \subseteq T
  <2> HIDE DEF T
  <2> QED BY <1>1, <1>2, SetInduction
<1> QED BY <1>3

LEMMA TradedIs ==
    ASSUME NEW first, Len(Decoded(file)) \in Nat
    PROVE  \E kept : /\ KeptOf(Decoded(file), first, kept, Len(Decoded(file)))
                     /\ Traded(first) = kept[Len(Decoded(file))]
<1>1. \E kept : KeptOf(Decoded(file), first, kept, Len(Decoded(file)))
  BY KeptExists
<1> QED BY <1>1 DEF KeptOf, Picks, Traded

\* What is kept of a list in order is in order, and nothing else than the list.
LEMMA KeptInOrder ==
    ASSUME NEW S, NEW full \in Seq(S), NEW first, NEW kept, KeptOf(full, first, kept, Len(full)),
           \A i, j \in 1..Len(full) : i < j => full[i].n < full[j].n
    PROVE  LET list == kept[Len(full)]
           IN  /\ list \in Seq(S)
               /\ \A i \in 1..Len(list) : \E j \in 1..Len(full) : list[i] = full[j]
               /\ \A i, j \in 1..Len(list) : i < j => list[i].n < list[j].n
<1> DEFINE Good(list, k) ==
             /\ list \in Seq(S)
             /\ \A i \in 1..Len(list) : \E j \in 1..k : list[i] = full[j]
             /\ \A i, j \in 1..Len(list) : i < j => list[i].n < list[j].n
           T == {k \in Nat : k <= Len(full) => Good(kept[k], k)}
<1>0. Len(full) \in Nat
  BY LenProperties
<1>1. 0 \in T
  BY <1>0 DEF KeptOf
<1>2. ASSUME NEW k \in Nat, k + 1 <= Len(full), Good(kept[k], k)
      PROVE  Good(kept[k + 1], k + 1)
  <2>1. \/ kept[k + 1] = kept[k]
        \/ kept[k + 1] = Append(kept[k], full[k + 1])
    <3>1. k + 1 \in 0..Len(full) /\ k + 1 # 0 /\ (k + 1) - 1 = k
      BY <1>0, <1>2
    <3>2. kept[k + 1] = IF Picks(full, first, k + 1) THEN Append(kept[(k + 1) - 1], full[k + 1])
                        ELSE kept[(k + 1) - 1]
      BY <3>1 DEF KeptOf
    <3> QED BY <3>1, <3>2
  <2>2. CASE kept[k + 1] = kept[k]
    BY <1>2, <2>2
  <2>3. CASE kept[k + 1] = Append(kept[k], full[k + 1])
    <3> DEFINE list == kept[k]
               more == Append(list, full[k + 1])
    <3>1. full[k + 1] \in S /\ list \in Seq(S)
      BY <1>0, <1>2, ElementOfSeq
    <3>2. /\ more \in Seq(S) /\ Len(list) \in Nat /\ Len(more) = Len(list) + 1
          /\ more[Len(list) + 1] = full[k + 1] /\ \A i \in 1..Len(list) : more[i] = list[i]
      BY <3>1, AppendProperties, LenProperties
    <3>3. /\ \A i \in 1..Len(list) : \E j \in 1..k : list[i] = full[j]
          /\ \A i, j \in 1..Len(list) : i < j => list[i].n < list[j].n
      BY <1>2
    <3> HIDE DEF list, more
    <3>4. \A i \in 1..Len(list) : list[i].n < full[k + 1].n
      <4> TAKE i \in 1..Len(list)
      <4>1. PICK j \in 1..k : list[i] = full[j]
        BY <3>3
      <4>2. j \in 1..Len(full) /\ k + 1 \in 1..Len(full) /\ j < k + 1
        BY <1>0, <1>2
      <4> QED BY <4>1, <4>2
    <3>5. ASSUME NEW i \in 1..Len(more) PROVE \E j \in 1..(k + 1) : more[i] = full[j]
      <4>1. CASE i = Len(list) + 1
        BY <3>2, <4>1
      <4>2. CASE i # Len(list) + 1
        <5>1. i \in 1..Len(list)
          BY <3>2, <4>2
        <5>2. PICK j \in 1..k : list[i] = full[j]
          BY <3>3, <5>1
        <5> QED BY <3>2, <5>1, <5>2
      <4> QED BY <4>1, <4>2
    <3>6. ASSUME NEW i \in 1..Len(more), NEW j \in 1..Len(more), i < j
          PROVE  more[i].n < more[j].n
      <4>1. i \in 1..Len(list) /\ more[i] = list[i]
        BY <3>2, <3>6
      <4>2. CASE j = Len(list) + 1
        BY <3>2, <3>4, <4>1, <4>2
      <4>3. CASE j # Len(list) + 1
        <5>1. j \in 1..Len(list) /\ more[j] = list[j]
          BY <3>2, <4>3
        <5> QED BY <3>3, <3>6, <4>1, <5>1
      <4> QED BY <4>2, <4>3
    <3>7. Good(more, k + 1)
      BY <3>2, <3>5, <3>6
    <3> QED BY <2>3, <3>7 DEF more, list
  <2> QED BY <2>1, <2>2, <2>3
<1>3. ASSUME NEW k \in Nat, k \in T PROVE k + 1 \in T
  <2>1. k + 1 <= Len(full) => k <= Len(full)
    BY <1>0
  <2> QED BY <1>2, <1>3, <2>1
<1>4. Nat \subseteq T
  <2> HIDE DEF T
  <2> QED BY <1>1, <1>3, SetInduction
<1>5. Good(kept[Len(full)], Len(full))
  <2> HIDE DEF Good
  <2> QED BY <1>0, <1>4
<1> QED BY <1>5

\* The list of recent ticks a restart makes of an unbroken file: accepted quotes in
\* order.
LEMMA TradedIsFaithful ==
    ASSUME Types, Chain(file, history), NEW first
    PROVE  /\ Traded(first) \in Seq(FullTicks)
           /\ GoodList(Traded(first), history)
<1> DEFINE full == Decoded(file)
<1>1. file \in Seq(Ticks) /\ Len(file) \in Nat
  BY LenProperties DEF Types
<1>2. full = [i \in 1..Len(file) |-> [n |-> file[i].n, value |-> history[file[i].n]]]
  BY <1>1, ChainDecodes
<1> HIDE DEF full
<1>3. \A i \in 1..Len(file) : file[i].n \in 1..Len(history) /\ file[i].n \in Nat
                              /\ history[file[i].n] \in FullQuotes
  <2>1. \A i \in 1..Len(history) : history[i] \in FullQuotes
    BY QuoteIsFull, ElementOfSeq DEF Types
  <2>2. \A i \in 1..Len(file) : file[i] \in Ticks
    BY <1>1, ElementOfSeq
  <2> QED BY <2>1, <2>2 DEF Chain, InHistory, Ticks
<1>4. full \in Seq(FullTicks) /\ Len(full) = Len(file)
  <2>1. \A i \in 1..Len(file) : [n |-> file[i].n, value |-> history[file[i].n]] \in FullTicks
    BY <1>3 DEF FullTicks
  <2>2. full \in [1..Len(file) -> FullTicks]
    BY <1>2, <2>1
  <2> QED BY <1>1, <2>2, IsASeq, LenProperties, SeqDef
<1>5. /\ \A i \in 1..Len(full) : full[i].n = file[i].n /\ full[i].value = history[file[i].n]
  BY <1>2, <1>4
<1>6. \A i, j \in 1..Len(full) : i < j => full[i].n < full[j].n
  BY <1>4, <1>5 DEF Chain
<1>7. PICK kept : /\ KeptOf(full, first, kept, Len(full))
                  /\ Traded(first) = kept[Len(full)]
  BY <1>1, <1>4, TradedIs DEF full
<1>8. /\ Traded(first) \in Seq(FullTicks)
      /\ \A i \in 1..Len(Traded(first)) : \E j \in 1..Len(full) : Traded(first)[i] = full[j]
      /\ \A i, j \in 1..Len(Traded(first)) : i < j => Traded(first)[i].n < Traded(first)[j].n
  BY <1>4, <1>6, <1>7, KeptInOrder
<1>9. ASSUME NEW i \in 1..Len(Traded(first))
      PROVE  /\ Traded(first)[i].n \in 1..Len(history)
             /\ Traded(first)[i].value = history[Traded(first)[i].n]
  <2>1. PICK j \in 1..Len(full) : Traded(first)[i] = full[j]
    BY <1>8
  <2> QED BY <1>3, <1>4, <1>5, <2>1
<1> QED BY <1>8, <1>9 DEF GoodList

\* The newest ticks are the last ones of the list, at most Recent of them.
LEMMA NewestIs ==
    ASSUME NEW S, NEW list \in Seq(S)
    PROVE  /\ Newest(list) \in Seq(S) /\ Len(Newest(list)) <= Recent
           /\ \E d \in Nat : \A i \in 1..Len(Newest(list)) :
                i + d \in 1..Len(list) /\ Newest(list)[i] = list[i + d]
<1> DEFINE m == IF Len(list) > Recent THEN Len(list) - Recent + 1 ELSE 1
           d == IF Len(list) > Recent THEN Len(list) - Recent ELSE 0
<1>1. Len(list) \in Nat /\ Recent \in Nat
  BY LenProperties, BoundsAssumption
<1>2. m \in Int /\ d \in Nat /\ m = d + 1 /\ Len(list) - d <= Recent /\ Len(list) - d \in Nat
  BY <1>1
<1>3. Newest(list) = SubSeq(list, m, Len(list))
  BY DEF Newest
<1> HIDE DEF m, d
<1>4. \A i \in m..Len(list) : list[i] \in S
  BY <1>1, <1>2, ElementOfSeq
<1>5. /\ Newest(list) \in Seq(S)
      /\ Len(Newest(list)) = IF m <= Len(list) THEN (Len(list) - m) + 1 ELSE 0
      /\ \A i \in 1..((Len(list) - m) + 1) : Newest(list)[i] = list[(m + i) - 1]
  BY <1>1, <1>2, <1>3, <1>4, SubSeqProperties
<1>6. Len(Newest(list)) = Len(list) - d /\ (Len(list) - m) + 1 = Len(list) - d
  BY <1>1, <1>2, <1>5
<1>7. \A i \in 1..Len(Newest(list)) :
        i + d \in 1..Len(list) /\ (m + i) - 1 = i + d /\ Newest(list)[i] = list[(m + i) - 1]
  BY <1>1, <1>2, <1>5, <1>6
<1> QED BY <1>2, <1>5, <1>6, <1>7

LEMMA NewestIsGood ==
    ASSUME NEW S, NEW list \in Seq(S), NEW hist, GoodList(list, hist)
    PROVE  GoodList(Newest(list), hist)
<1>1. PICK d \in Nat : \A i \in 1..Len(Newest(list)) :
                i + d \in 1..Len(list) /\ Newest(list)[i] = list[i + d]
  BY NewestIs
<1>2. \A i, j \in 1..Len(Newest(list)) : i < j => i + d < j + d
  OBVIOUS
<1>3. /\ \A i \in 1..Len(list) : list[i].n \in 1..Len(hist) /\ list[i].value = hist[list[i].n]
      /\ \A i, j \in 1..Len(list) : i < j => list[i].n < list[j].n
  BY DEF GoodList
<1> HIDE DEF Newest
<1>4. \A i, j \in 1..Len(Newest(list)) : i < j => Newest(list)[i].n < Newest(list)[j].n
  BY <1>1, <1>2, <1>3
<1>5. \A i \in 1..Len(Newest(list)) :
        Newest(list)[i].n \in 1..Len(hist) /\ Newest(list)[i].value = hist[Newest(list)[i].n]
  BY <1>1, <1>3
<1> QED BY <1>4, <1>5 DEF GoodList

-----------------------------------------------------------------------------
(* The invariant is inductive *)

LEMMA StepCases ==
    ASSUME [Next]_vars
    PROVE  \/ \E q \in Quotes : HandleQuote(q)
           \/ Quiet \/ Crash \/ DailyRestart \/ UNCHANGED vars
BY DEF Next, StoreTick, Quiet

LEMMA NothingIsSeq == ASSUME NEW S PROVE <<>> \in Seq(S) /\ Len(<<>>) = 0
BY EmptySeq

LEMMA InitIInv == Init => IInv
<1> SUFFICES ASSUME Init PROVE IInv
  OBVIOUS
<1>1. Types
  <2>1. /\ history = <<>> /\ whole = <<>> /\ taken = <<>> /\ tick5 = <<>> /\ file = <<>>
        /\ part = <<>> /\ recent = <<>> /\ pend \in Ticks /\ lastQuote = NoQuote
    BY NoTickIsTick DEF Init
  <2>2. 0 <= MaxTicks
    BY BoundsAssumption
  <2> QED BY <2>1, <2>2, NothingIsSeq DEF Init, Types, Phases, QuotePcs, TimerPcs
<1>2. Stream = <<>>
  <2>1. Stream = ((whole \o <<>>) \o <<>>) \o <<>> /\ whole = <<>>
    BY DEF Init, Stream
  <2>2. <<>> \o <<>> = <<>>
    BY ConcatEmptySeq
  <2> QED BY <2>1, <2>2
<1>3. Chain(Stream, history)
  BY <1>2 DEF Chain, InHistory
<1> QED BY <1>1, <1>3, BoundsAssumption
        DEF Init, IInv, Shape, DiskInv, ChainInv, LastInv, RecentInv, PartInv, GoodList,
            InHistory, Live, Begins

LEMMA HistoryGrows ==
    ASSUME Types, NEW q \in Quotes, HandleQuote(q)
    PROVE  /\ history' = Append(history, q) /\ history' \in Seq(Quotes)
           /\ Len(history) \in Nat /\ Len(history') = Len(history) + 1
           /\ history'[Len(history) + 1] = q /\ \A n \in 1..Len(history) : history'[n] = history[n]
<1>1. history \in Seq(Quotes) /\ history' = Append(history, q)
  BY DEF Types, HandleQuote
<1> QED BY <1>1, AppendProperties, LenProperties

LEMMA TypesStep ==
    ASSUME IInv, [Next]_vars
    PROVE  Types'
<1> USE DEF IInv
<1>1. ASSUME NEW q \in Quotes, HandleQuote(q) PROVE Types'
  <2>1. history' \in Seq(Quotes) /\ Len(history') = Len(history) + 1 /\ Len(history) \in Nat
    BY <1>1, HistoryGrows
  <2>2. Len(history') <= MaxTicks
    BY <1>1, <2>1, BoundsAssumption DEF HandleQuote
  <2>3. pend' \in Ticks
    <3>1. pend' = [n |-> Len(history) + 1, fields |-> TickFields(q)]
      BY <1>1, <2>1 DEF HandleQuote
    <3> QED BY <2>1, <3>1, TickFieldsIs DEF Ticks
  <2> QED BY <1>1, <2>1, <2>2, <2>3 DEF HandleQuote, Types, QuotePcs
<1>2. CASE PushRecent
  <2>1. [n |-> pend.n, value |-> lastQuote] \in FullTicks
    BY QuoteIsFull DEF Types, Ticks, FullTicks
  <2>2. Append(recent, [n |-> pend.n, value |-> lastQuote]) \in Seq(FullTicks)
    BY <2>1, AppendProperties DEF Types
  <2>3. recent' \in Seq(FullTicks)
    BY <1>2, <2>2, NewestIs DEF PushRecent
  <2> QED BY <1>2, <2>3 DEF PushRecent, Types, QuotePcs
<1>3. CASE PushTick5
  <2>1. tick5' \in Seq(Ticks)
    BY <1>3, AppendProperties DEF PushTick5, Types
  <2> QED BY <1>3, <2>1, NoTickIsTick DEF PushTick5, Types, QuotePcs
<1>4. CASE CloseGate \/ OpenWindow
  BY <1>4 DEF CloseGate, OpenWindow, memory, Types, Phases
<1>5. CASE TakeTicks
  BY <1>5 DEF TakeTicks, CopiedTicks, LeftBehind, Types, TimerPcs
<1>6. CASE CompressTicks
  <2>1. whole' \in Seq(Ticks)
    BY <1>6, ConcatProperties DEF CompressTicks, WithTaken, Types
  <2> QED BY <1>6, <2>1 DEF CompressTicks, Types, TimerPcs
<1>7. CASE WriteTicks
  <2>1. file' \in Seq(Ticks)
    BY <1>7, ConcatProperties DEF WriteTicks, Extended, Types
  <2> QED BY <1>7, <2>1 DEF WriteTicks, Types, TimerPcs
<1>8. CASE ClearCache
  <2>1. CASE ClearRecent
    BY <2>1, NothingIsSeq DEF ClearRecent, Types, TimerPcs
  <2>2. CASE ClearWhole
    BY <2>2, NothingIsSeq DEF ClearWhole, Types, TimerPcs
  <2>3. CASE ClearTick5
    BY <2>3, NothingIsSeq DEF ClearTick5, Types, TimerPcs
  <2>4. CASE ClearLast
    BY <2>4 DEF ClearLast, Types, TimerPcs
  <2> QED BY <1>8, <2>1, <2>2, <2>3, <2>4 DEF ClearCache
<1>9. CASE ReadWhole \/ ReadTick5
  <2>1. CASE ReadWhole
    BY <2>1 DEF ReadWhole, Types
  <2>2. CASE ReadTick5
    BY <2>2, NothingIsSeq DEF ReadTick5, Types
  <2> QED BY <1>9, <2>1, <2>2
<1>10. CASE Crash
  <2>1. file' \in Seq(Ticks)
    BY <1>10, CrashKeepsBeginning
  <2>2. /\ history' = history /\ whole' = <<>> /\ taken' = <<>> /\ tick5' = <<>>
        /\ part' = <<>> /\ recent' = <<>> /\ pend' \in Ticks /\ lastQuote' = NoQuote
    BY <1>10, NoTickIsTick DEF Crash
  <2> QED BY <1>10, <2>1, <2>2, NothingIsSeq DEF Crash, Types, QuotePcs, TimerPcs
<1>11. CASE Recover
  <2>1. recent' \in Seq(FullTicks)
    <3>1. CASE phase = "window"
      BY <1>11, <3>1 DEF Recover, Types
    <3>2. CASE phase # "window"
      <4>1. Stream = file
        BY <1>11 DEF Recover, Stream
      <4>2. PICK first \in BOOLEAN : recent' = Newest(Traded(first))
        BY <1>11, <3>2 DEF Recover
      <4>3. Traded(first) \in Seq(FullTicks)
        BY <4>1, TradedIsFaithful DEF ChainInv
      <4> QED BY <4>2, <4>3, NewestIs
    <3> QED BY <3>1, <3>2
  <2> QED BY <1>11, <2>1 DEF Recover, RecoveredQuote, Types
<1>12. CASE DailyRestart
  <2>1. /\ history' = <<>> /\ whole' = <<>> /\ taken' = <<>> /\ tick5' = <<>> /\ file' = <<>>
        /\ part' = <<>> /\ recent' = <<>> /\ pend' \in Ticks /\ lastQuote' = NoQuote
    BY <1>12, NoTickIsTick DEF DailyRestart
  <2>2. 0 <= MaxTicks
    BY BoundsAssumption
  <2> QED BY <1>12, <2>1, <2>2, NothingIsSeq DEF DailyRestart, Types, Phases, QuotePcs, TimerPcs
<1>13. CASE UNCHANGED vars
  BY <1>13 DEF vars, Types
<1> QED BY <1>1, <1>2, <1>3, <1>4, <1>5, <1>6, <1>7, <1>8, <1>9, <1>10, <1>11, <1>12, <1>13,
           StepCases DEF Quiet, SaveTicks

LEMMA ShapeStep ==
    ASSUME IInv, [Next]_vars
    PROVE  Shape'
<1> USE DEF IInv
<1>1. ASSUME NEW q \in Quotes, HandleQuote(q) PROVE Shape'
  BY <1>1 DEF HandleQuote, Shape
<1>2. CASE PushRecent \/ PushTick5
  BY <1>2 DEF PushRecent, PushTick5, Shape
<1>3. CASE CloseGate \/ OpenWindow
  BY <1>3 DEF CloseGate, OpenWindow, memory, Shape
<1>4. CASE SaveTicks
  BY <1>4 DEF SaveTicks, TakeTicks, CompressTicks, WriteTicks, CopiedTicks, LeftBehind, Shape
<1>5. CASE ClearCache
  BY <1>5 DEF ClearCache, ClearRecent, ClearWhole, ClearTick5, ClearLast, Shape
<1>6. CASE ReadWhole \/ ReadTick5 \/ Recover
  BY <1>6 DEF ReadWhole, ReadTick5, Recover, RecoveredQuote, Shape
<1>7. CASE Crash \/ DailyRestart
  BY <1>7 DEF Crash, DailyRestart, Shape
<1>8. CASE UNCHANGED vars
  BY <1>8 DEF vars, Shape
<1> QED BY <1>1, <1>2, <1>3, <1>4, <1>5, <1>6, <1>7, <1>8, StepCases DEF Quiet

LEMMA DiskStep ==
    ASSUME IInv, [Next]_vars
    PROVE  DiskInv'
<1> USE DEF IInv
<1>1. ASSUME NEW q \in Quotes, HandleQuote(q) PROVE DiskInv'
  BY <1>1 DEF HandleQuote, DiskInv, Live
<1>2. CASE PushRecent \/ PushTick5
  BY <1>2 DEF PushRecent, PushTick5, DiskInv, Live
<1>3. CASE CloseGate \/ OpenWindow
  BY <1>3 DEF CloseGate, OpenWindow, memory, DiskInv, Live, Phases
<1>4. CASE SaveTicks
  BY <1>4 DEF SaveTicks, TakeTicks, CompressTicks, WriteTicks, WithTaken, Extended, DiskInv, Live
<1>5. CASE ClearCache
  BY <1>5 DEF ClearCache, ClearRecent, ClearWhole, ClearTick5, ClearLast, Shape, DiskInv, Live
<1>6. CASE ReadWhole \/ ReadTick5 \/ Recover
  BY <1>6 DEF ReadWhole, ReadTick5, Recover, Shape, DiskInv, Live
<1>7. CASE Crash \/ DailyRestart
  BY <1>7 DEF Crash, DailyRestart, DiskInv, Live
<1>8. CASE UNCHANGED vars
  BY <1>8 DEF vars, DiskInv, Live
<1> QED BY <1>1, <1>2, <1>3, <1>4, <1>5, <1>6, <1>7, <1>8, StepCases DEF Quiet

LEMMA InHistoryConcat ==
    ASSUME NEW S, NEW s \in Seq(S), NEW t \in Seq(S), NEW hist,
           InHistory(s, hist), InHistory(t, hist)
    PROVE  InHistory(s \o t, hist)
<1>1. /\ Len(s) \in Nat /\ Len(t) \in Nat /\ Len(s \o t) = Len(s) + Len(t)
      /\ \A i \in 1..(Len(s) + Len(t)) : (s \o t)[i] = IF i <= Len(s) THEN s[i] ELSE t[i - Len(s)]
  BY ConcatProperties, LenProperties
<1>2. \A i \in 1..(Len(s) + Len(t)) : i <= Len(s) \/ i - Len(s) \in 1..Len(t)
  BY <1>1
<1> QED BY <1>1, <1>2 DEF InHistory

LEMMA InHistoryBegins ==
    ASSUME NEW s, NEW t, NEW hist, Len(s) \in Nat, Len(t) \in Nat, Begins(s, t), InHistory(t, hist)
    PROVE  InHistory(s, hist)
BY DEF Begins, InHistory

LEMMA ChainIsInHistory ==
    ASSUME NEW s, NEW hist, Chain(s, hist)
    PROVE  InHistory(s, hist)
BY DEF Chain

\* A longer history keeps what was said of it.
LEMMA LongerHistory ==
    ASSUME NEW hist, NEW more, Len(hist) \in Nat, Len(more) = Len(hist) + 1,
           \A n \in 1..Len(hist) : more[n] = hist[n]
    PROVE  /\ \A s : InHistory(s, hist) => InHistory(s, more)
           /\ \A s \in Seq(Ticks) : Chain(s, hist) => Chain(s, more)
           /\ \A list : GoodList(list, hist) => GoodList(list, more)
<1>1. ASSUME NEW s, InHistory(s, hist) PROVE InHistory(s, more)
  BY <1>1 DEF InHistory
<1>2. ASSUME NEW s \in Seq(Ticks), Chain(s, hist) PROVE Chain(s, more)
  <2>1. InHistory(s, hist) /\ InHistory(s, more)
    BY <1>1, <1>2 DEF Chain
  <2>2. \A i \in 1..Len(s) : more[s[i].n] = hist[s[i].n]
    BY <2>1 DEF InHistory
  <2>3. ASSUME NEW i \in 1..Len(s) PROVE Linked(s, more, i)
    <3>1. i > 1 => i - 1 \in 1..Len(s)
      BY LenProperties
    <3>2. Linked(s, hist, i)
      BY <1>2 DEF Chain
    <3> QED BY <2>2, <3>1, <3>2 DEF Linked
  <2> QED BY <1>2, <2>1, <2>3 DEF Chain
<1>3. ASSUME NEW list, GoodList(list, hist) PROVE GoodList(list, more)
  BY <1>3 DEF GoodList
<1> QED BY <1>1, <1>2, <1>3

LEMMA StreamStep ==
    ASSUME IInv, [Next]_vars
    PROVE  Chain(Stream', history')
<1> USE DEF IInv
<1>0. Stream \in Seq(Ticks) /\ Len(Stream) \in Nat /\ Chain(Stream, history)
  BY StreamType, LenProperties DEF ChainInv
<1>1. ASSUME NEW q \in Quotes, HandleQuote(q) PROVE Chain(Stream', history')
  <2>1. /\ Stream' = Append(Stream, pend') /\ Live
        /\ pend' = [n |-> Len(history) + 1, fields |-> TickFields(q)]
    BY <1>1, QuoteExtendsStream
  <2>2. /\ history' \in Seq(Quotes)
        /\ Len(history) \in Nat /\ Len(history') = Len(history) + 1
        /\ history'[Len(history) + 1] = q
        /\ \A n \in 1..Len(history) : history'[n] = history[n]
    BY <1>1, HistoryGrows
  <2>3. Chain(Stream, history')
    BY <1>0, <2>2, LongerHistory
  <2>4. /\ pend' \in Ticks /\ pend'.n = Len(history) + 1
    BY <2>1, <2>2, TickFieldsIs DEF Ticks
  <2>5. \A i \in 1..Len(Stream) : Stream[i].n < pend'.n
    BY <1>0, <2>2, <2>4 DEF Chain, InHistory
  <2>6. \/ pend'.fields = history'[pend'.n]
        \/ Len(Stream) > 0 /\ pend'.fields = Printed(history'[pend'.n], history'[Stream[Len(Stream)].n])
    <3>1. pend'.fields = TickFields(q) /\ history'[pend'.n] = q
      BY <2>1, <2>2
    <3>2. CASE TickFields(q) = q
      BY <3>1, <3>2
    <3>3. CASE lastQuote # NoQuote /\ TickFields(q) = Printed(q, lastQuote)
      <4>1. /\ Stream # <<>> /\ Stream[Len(Stream)].n = Len(history)
            /\ Len(history) > 0 /\ lastQuote = history[Len(history)]
        BY <2>1, <3>3 DEF LastInv
      <4>2. Len(Stream) > 0
        BY <1>0, <4>1, EmptySeq
      <4>3. history'[Len(history)] = history[Len(history)]
        BY <2>2, <4>1
      <4> QED BY <3>1, <3>3, <4>1, <4>2, <4>3
    <3> QED BY <3>2, <3>3, TickFieldsIs
  <2>7. Len(history') \in Nat /\ pend'.n \in 1..Len(history')
    BY <2>2, <2>4
  <2>8. Chain(Append(Stream, pend'), history')
    BY <1>0, <2>3, <2>4, <2>5, <2>6, <2>7, ChainAppend
  <2> QED BY <2>1, <2>8
<1>2. CASE Quiet
  BY <1>0, <1>2, QuietKeepsStream
<1>3. CASE Crash
  <2>1. /\ Stream' = file' /\ file' \in Seq(Ticks) /\ history' = history /\ Begins(file', Stream)
    BY <1>3, CrashKeepsBeginning
  <2>2. Len(file') \in Nat
    BY <2>1, LenProperties
  <2>3. Chain(file', history)
    BY <1>0, <2>1, <2>2, ChainBegins
  <2> QED BY <2>1, <2>3
<1>4. CASE DailyRestart
  <2>1. Stream' = ((<<>> \o <<>>) \o <<>>) \o <<>>
    BY <1>4 DEF DailyRestart, Stream
  <2>2. <<>> \o <<>> = <<>>
    BY NothingIsSeq, ConcatEmptySeq
  <2>3. Stream' = <<>>
    BY <2>1, <2>2
  <2> QED BY <2>3 DEF Chain, InHistory
<1>5. CASE UNCHANGED vars
  <2>1. Stream' = Stream /\ history' = history
    BY <1>5 DEF vars, Stream
  <2> QED BY <1>0, <2>1
<1> QED BY <1>1, <1>2, <1>3, <1>4, <1>5, StepCases

LEMMA ChainStep ==
    ASSUME IInv, [Next]_vars
    PROVE  ChainInv'
<1> USE DEF IInv
<1> SUFFICES /\ InHistory(whole', history') /\ InHistory(taken', history')
             /\ InHistory(tick5', history') /\ InHistory(file', history')
             /\ InHistory(part', history')
  BY StreamStep DEF ChainInv
<1>0. /\ InHistory(whole, history) /\ InHistory(taken, history) /\ InHistory(tick5, history)
      /\ InHistory(file, history) /\ InHistory(part, history) /\ InHistory(<<>>, history)
  BY DEF ChainInv, InHistory
<1>1. ASSUME NEW q \in Quotes, HandleQuote(q)
      PROVE  /\ InHistory(whole', history') /\ InHistory(taken', history')
             /\ InHistory(tick5', history') /\ InHistory(file', history')
             /\ InHistory(part', history')
  <2>1. \A s : InHistory(s, history) => InHistory(s, history')
    BY <1>1, HistoryGrows, LongerHistory
  <2> QED BY <1>0, <1>1, <2>1 DEF HandleQuote
<1>2. CASE PushRecent \/ CloseGate \/ OpenWindow
  BY <1>0, <1>2 DEF PushRecent, CloseGate, OpenWindow, memory
<1>3. CASE PushTick5
  <2>1. pend.n = Len(history) /\ Len(history) > 0 /\ Len(history) \in Nat
    BY <1>3, LenProperties DEF PushTick5, LastInv, Types
  <2>2. /\ tick5' = Append(tick5, pend) /\ Len(tick5) \in Nat /\ Len(tick5') = Len(tick5) + 1
        /\ tick5'[Len(tick5) + 1] = pend /\ \A i \in 1..Len(tick5) : tick5'[i] = tick5[i]
    BY <1>3, AppendProperties, LenProperties DEF PushTick5, Types
  <2>3. InHistory(tick5', history)
    BY <1>0, <2>1, <2>2 DEF InHistory
  <2> QED BY <1>0, <1>3, <2>3 DEF PushTick5
<1>4. CASE TakeTicks
  BY <1>0, <1>4 DEF TakeTicks, CopiedTicks, LeftBehind
<1>5. CASE CompressTicks
  <2>1. InHistory(whole \o taken, history)
    BY <1>0, InHistoryConcat DEF Types
  <2> QED BY <1>0, <1>5, <2>1 DEF CompressTicks, WithTaken
<1>6. CASE WriteTicks
  <2>1. InHistory(file \o taken, history)
    BY <1>0, InHistoryConcat DEF Types
  <2> QED BY <1>0, <1>6, <2>1 DEF WriteTicks, Extended
<1>7. CASE ClearCache
  BY <1>0, <1>7 DEF ClearCache, ClearRecent, ClearWhole, ClearTick5, ClearLast
<1>8. CASE ReadWhole \/ ReadTick5
  BY <1>0, <1>8 DEF ReadWhole, ReadTick5
<1>9. CASE Recover
  BY <1>0, <1>9 DEF Recover
<1>10. CASE Crash
  <2>1. InHistory(file', history')
    <3>1. Stream' = file'
      BY <1>10, CrashKeepsBeginning
    <3> QED BY <3>1, StreamStep, ChainIsInHistory
  <2> QED BY <1>0, <1>10, <2>1 DEF Crash
<1>11. CASE DailyRestart
  BY <1>11 DEF DailyRestart, InHistory
<1>12. CASE UNCHANGED vars
  BY <1>0, <1>12 DEF vars
<1> QED BY <1>1, <1>2, <1>3, <1>4, <1>5, <1>6, <1>7, <1>8, <1>9, <1>10, <1>11, <1>12,
           StepCases DEF Quiet, SaveTicks

LEMMA LastStep ==
    ASSUME IInv, [Next]_vars
    PROVE  LastInv'
<1> USE DEF IInv
<1>1. ASSUME NEW q \in Quotes, HandleQuote(q) PROVE LastInv'
  <2>1. /\ Stream' = Append(Stream, pend') /\ pend'.n = Len(history) + 1
    BY <1>1, QuoteExtendsStream
  <2>2. /\ Len(history) \in Nat /\ Len(history') = Len(history) + 1
        /\ history'[Len(history')] = q
    BY <1>1, HistoryGrows
  <2>3. /\ Len(Stream) \in Nat /\ Len(Stream') = Len(Stream) + 1
        /\ Stream'[Len(Stream')] = pend'
    BY <2>1, StreamType, AppendProperties, LenProperties
  <2>4. Stream' # <<>>
    BY <2>3, NothingIsSeq
  <2>5. lastQuote' = q
    BY <1>1 DEF HandleQuote
  <2> QED BY <2>1, <2>2, <2>3, <2>4, <2>5 DEF LastInv
<1>2. CASE Quiet
  <2>1. Stream' = Stream /\ history' = history
    BY <1>2, QuietKeepsStream
  <2>2. lastQuote' = lastQuote \/ (lastQuote' = NoQuote /\ quote = "idle" /\ quote' = "idle")
    BY <1>2 DEF Quiet, PushRecent, PushTick5, CloseGate, OpenWindow, memory, SaveTicks, TakeTicks,
       CompressTicks, WriteTicks, ClearCache, ClearRecent, ClearWhole, ClearTick5, ClearLast,
       ReadWhole, ReadTick5, Recover, RecoveredQuote, Shape
  <2>3. (quote' # "idle" => quote # "idle" /\ pend' = pend) /\ (Live' => Live \/ Recover)
    BY <1>2 DEF Quiet, PushRecent, PushTick5, CloseGate, OpenWindow, memory, SaveTicks, TakeTicks,
       CompressTicks, WriteTicks, ClearCache, ClearRecent, ClearWhole, ClearTick5, ClearLast,
       ReadWhole, ReadTick5, Recover, Live, Shape
  <2>4. Recover => lastQuote' = NoQuote
    BY DEF Recover, RecoveredQuote
  <2> QED BY <2>1, <2>2, <2>3, <2>4 DEF LastInv
<1>3. CASE Crash \/ DailyRestart
  BY <1>3 DEF Crash, DailyRestart, LastInv
<1>4. CASE UNCHANGED vars
  <2>1. Stream' = Stream /\ Live' = Live
    BY <1>4 DEF vars, Stream, Live
  <2> QED BY <1>4, <2>1 DEF vars, LastInv
<1> QED BY <1>1, <1>2, <1>3, <1>4, StepCases

LEMMA RecentStep ==
    ASSUME IInv, [Next]_vars
    PROVE  RecentInv'
<1> USE DEF IInv
<1>0. /\ Len(recent) <= Recent /\ GoodList(recent, history) /\ Len(history) \in Nat
      /\ recent \in Seq(FullTicks) /\ Len(recent) \in Nat
  BY LenProperties DEF RecentInv, Types
<1>1. ASSUME NEW q \in Quotes, HandleQuote(q) PROVE RecentInv'
  <2>1. GoodList(recent, history')
    BY <1>0, <1>1, HistoryGrows, LongerHistory
  <2>2. Len(history') = Len(history) + 1 /\ recent' = recent
    BY <1>1, HistoryGrows DEF HandleQuote
  <2>3. \A i \in 1..Len(recent) : recent[i].n < Len(history')
    BY <1>0, <2>2 DEF GoodList
  <2> QED BY <1>0, <2>1, <2>2, <2>3 DEF RecentInv
<1>2. CASE PushRecent
  <2> DEFINE tick == [n |-> pend.n, value |-> lastQuote]
             more == Append(recent, tick)
  <2>1. /\ pend.n = Len(history) /\ Len(history) > 0 /\ lastQuote = history[Len(history)]
        /\ \A i \in 1..Len(recent) : recent[i].n < Len(history)
        /\ recent' = Newest(more) /\ quote' = "tick5" /\ history' = history
    BY <1>2 DEF PushRecent, LastInv, RecentInv
  <2>2. tick \in FullTicks /\ tick.n = Len(history) /\ tick.value = history[Len(history)]
    BY <2>1, QuoteIsFull DEF Types, Ticks, FullTicks
  <2> HIDE DEF tick
  <2>3. /\ more \in Seq(FullTicks) /\ Len(more) = Len(recent) + 1
        /\ more[Len(recent) + 1] = tick /\ \A i \in 1..Len(recent) : more[i] = recent[i]
    BY <1>0, <2>2, AppendProperties
  <2> HIDE DEF more
  <2>4. ASSUME NEW i \in 1..Len(more)
        PROVE  more[i].n \in 1..Len(history) /\ more[i].value = history[more[i].n]
    <3>1. CASE i = Len(recent) + 1
      BY <1>0, <2>1, <2>2, <2>3, <3>1
    <3>2. CASE i # Len(recent) + 1
      <4>1. i \in 1..Len(recent)
        BY <1>0, <2>3, <3>2
      <4> QED BY <1>0, <2>3, <4>1 DEF GoodList
    <3> QED BY <3>1, <3>2
  <2>5. ASSUME NEW i \in 1..Len(more), NEW j \in 1..Len(more), i < j
        PROVE  more[i].n < more[j].n
    <3>1. i \in 1..Len(recent) /\ more[i] = recent[i]
      BY <1>0, <2>3, <2>5
    <3>2. CASE j = Len(recent) + 1
      BY <2>1, <2>2, <2>3, <3>1, <3>2
    <3>3. CASE j # Len(recent) + 1
      <4>1. j \in 1..Len(recent) /\ more[j] = recent[j]
        BY <1>0, <2>3, <3>3
      <4> QED BY <1>0, <2>5, <3>1, <4>1 DEF GoodList
    <3> QED BY <3>2, <3>3
  <2>6. GoodList(more, history)
    BY <2>4, <2>5 DEF GoodList
  <2>7. GoodList(Newest(more), history) /\ Len(Newest(more)) <= Recent
    BY <2>3, <2>6, NewestIs, NewestIsGood
  <2> QED BY <2>1, <2>7 DEF RecentInv
<1>3. CASE PushTick5
  BY <1>0, <1>3 DEF PushTick5, RecentInv
<1>4. CASE CloseGate \/ OpenWindow
  BY <1>0, <1>4 DEF CloseGate, OpenWindow, memory, RecentInv
<1>5. CASE SaveTicks
  BY <1>0, <1>5 DEF SaveTicks, TakeTicks, CompressTicks, WriteTicks, RecentInv
<1>6. ASSUME recent' = <<>> PROVE RecentInv'
  BY <1>6, NothingIsSeq, BoundsAssumption DEF RecentInv, GoodList
<1>7. CASE ClearCache
  <2>1. CASE ClearRecent
    BY <1>6, <2>1 DEF ClearRecent
  <2>2. CASE ClearWhole \/ ClearTick5 \/ ClearLast
    BY <1>0, <2>2 DEF ClearWhole, ClearTick5, ClearLast, RecentInv
  <2> QED BY <1>7, <2>1, <2>2 DEF ClearCache
<1>8. CASE ReadWhole \/ ReadTick5
  BY <1>0, <1>8 DEF ReadWhole, ReadTick5, RecentInv
<1>9. CASE Recover
  <2>1. quote' = "idle" /\ history' = history
    BY <1>9 DEF Recover, Shape
  <2>2. CASE phase = "window"
    <3>1. recent' = recent
      BY <1>9, <2>2 DEF Recover
    <3> QED BY <1>0, <2>1, <3>1 DEF RecentInv
  <2>3. CASE phase # "window"
    <3>1. Chain(file, history)
      BY <1>9 DEF Recover, Stream, ChainInv
    <3>2. PICK first \in BOOLEAN : recent' = Newest(Traded(first))
      BY <1>9, <2>3 DEF Recover
    <3>3. Traded(first) \in Seq(FullTicks) /\ GoodList(Traded(first), history)
      BY <3>1, TradedIsFaithful
    <3>4. GoodList(recent', history) /\ Len(recent') <= Recent
      BY <3>2, <3>3, NewestIs, NewestIsGood
    <3> QED BY <2>1, <3>4 DEF RecentInv
  <2> QED BY <2>2, <2>3
<1>10. CASE Crash \/ DailyRestart
  BY <1>6, <1>10 DEF Crash, DailyRestart
<1>11. CASE UNCHANGED vars
  BY <1>0, <1>11 DEF vars, RecentInv
<1> QED BY <1>1, <1>2, <1>3, <1>4, <1>5, <1>7, <1>8, <1>9, <1>10, <1>11, StepCases DEF Quiet

LEMMA PartStep ==
    ASSUME IInv, [Next]_vars
    PROVE  PartInv'
<1> USE DEF IInv
<1>1. ASSUME NEW q \in Quotes, HandleQuote(q) PROVE PartInv'
  BY <1>1 DEF HandleQuote, PartInv
<1>2. CASE PushRecent \/ PushTick5
  BY <1>2 DEF PushRecent, PushTick5, PartInv
<1>3. CASE CloseGate \/ OpenWindow
  BY <1>3 DEF CloseGate, OpenWindow, memory, PartInv
<1>4. CASE TakeTicks \/ WriteTicks
  BY <1>4 DEF TakeTicks, WriteTicks, PartInv
<1>5. CASE CompressTicks
  <2>1. /\ part \in Seq(Ticks) /\ whole \in Seq(Ticks) /\ taken \in Seq(Ticks)
        /\ whole \o taken \in Seq(Ticks) /\ Begins(whole, whole \o taken)
    BY ConcatProperties, BeginsConcat DEF Types
  <2>2. Begins(part, whole) => Begins(part, whole \o taken)
    BY <2>1, BeginsTrans
  <2> QED BY <1>5, <2>2 DEF CompressTicks, WithTaken, PartInv
<1>6. CASE ClearCache
  BY <1>6 DEF ClearCache, ClearRecent, ClearWhole, ClearTick5, ClearLast, PartInv, Shape
<1>7. CASE ReadWhole
  <2>1. Begins(whole, whole)
    BY LenProperties DEF Begins, Types
  <2> QED BY <1>7, <2>1 DEF ReadWhole, PartInv
<1>8. CASE ReadTick5 \/ Recover \/ Crash \/ DailyRestart
  BY <1>8 DEF ReadTick5, Recover, Crash, DailyRestart, PartInv, Shape
<1>9. CASE UNCHANGED vars
  BY <1>9 DEF vars, PartInv
<1> QED BY <1>1, <1>2, <1>3, <1>4, <1>5, <1>6, <1>7, <1>8, <1>9, StepCases DEF Quiet, SaveTicks

THEOREM Invariance == Spec => []IInv
<1>1. IInv /\ [Next]_vars => IInv'
  BY TypesStep, ShapeStep, DiskStep, ChainStep, LastStep, RecentStep, PartStep DEF IInv
<1> QED BY <1>1, InitIInv, PTL DEF Spec

-----------------------------------------------------------------------------
(* What follows *)

\* Type invariant: every tick anywhere is of an accepted quote and has its time.
THEOREM TypeCorrect == Spec => []TypeOK
<1>1. IInv => TypeOK
  <2> SUFFICES ASSUME IInv PROVE TypeOK
    OBVIOUS
  <2>1. DOMAIN history = 1..Len(history)
    BY LenProperties DEF IInv, Types
  <2>2. ASSUME NEW ticks \in Seq(Ticks), InHistory(ticks, history), NEW i \in DOMAIN ticks
        PROVE  ticks[i].n \in DOMAIN history /\ "ts" \in DOMAIN ticks[i].fields
    <3>1. i \in 1..Len(ticks) /\ ticks[i] \in Ticks
      BY <2>2, LenProperties, ElementOfSeq
    <3>2. "ts" \in DOMAIN ticks[i].fields
      BY <3>1 DEF Ticks, Fields
    <3> QED BY <2>1, <2>2, <3>1, <3>2 DEF InHistory
  <2>3. \A ticks \in {tick5, whole, taken, file, part} :
          ticks \in Seq(Ticks) /\ InHistory(ticks, history)
    BY DEF IInv, Types, ChainInv
  <2>4. \A ticks \in {tick5, whole, taken, file, part} : \A i \in DOMAIN ticks :
          ticks[i].n \in DOMAIN history /\ "ts" \in DOMAIN ticks[i].fields
    BY <2>2, <2>3
  <2> QED BY <2>4 DEF IInv, Types, RecentInv, TypeOK
<1> QED BY <1>1, Invariance, PTL

\* The chain of incremental ticks is never broken, wherever Save5MinTick has carried
\* the ticks and after any number of restarts.
THEOREM ChainNeverBroken == Spec => []StreamDecodes
<1>1. IInv => StreamDecodes
  <2> SUFFICES ASSUME IInv PROVE StreamDecodes
    OBVIOUS
  <2>1. Stream \in Seq(Ticks) /\ Chain(Stream, history) /\ Types
    BY StreamType DEF IInv, ChainInv
  <2>2. Decoded(Stream) =
          [i \in 1..Len(Stream) |-> [n |-> Stream[i].n, value |-> history[Stream[i].n]]]
    BY <2>1, ChainDecodes
  <2> QED BY <2>2 DEF StreamDecodes, Faithful
<1> QED BY <1>1, Invariance, PTL

\* The recent full ticks are accepted quotes in order, also after RecoverTick.
THEOREM RecentIsFaithful == Spec => []RecentFaithful
<1>1. IInv => RecentFaithful
  <2> SUFFICES ASSUME IInv PROVE RecentFaithful
    OBVIOUS
  <2>1. DOMAIN recent = 1..Len(recent)
    BY LenProperties DEF IInv, Types
  <2> QED BY <2>1 DEF IInv, RecentInv, GoodList, RecentFaithful, InOrder, Faithful
<1> QED BY <1>1, Invariance, PTL

\* No reply of OPDRMX holds a tick twice: what it read first still begins the day,
\* and what it reads next follows in the day.
THEOREM NoDuplicateInReply == Spec => []ReplyHasNoDuplicate
<1>1. IInv => ReplyHasNoDuplicate
  <2> SUFFICES ASSUME IInv, reader = "half", phase # "window" PROVE InOrder(part \o tick5)
    BY DEF ReplyHasNoDuplicate, Reply
  <2> USE DEF IInv
  <2> DEFINE front == whole \o Moving
             back == part \o tick5
  <2>1. Live /\ Begins(part, whole)
    BY DEF Shape, Live, PartInv
  <2>2. /\ part \in Seq(Ticks) /\ whole \in Seq(Ticks) /\ tick5 \in Seq(Ticks)
        /\ Moving \in Seq(Ticks) /\ front \in Seq(Ticks) /\ Begins(whole, front)
    BY StreamType, ConcatProperties, BeginsConcat DEF Types
  <2> HIDE DEF front
  <2>3. Begins(part, front)
    BY <2>1, <2>2, BeginsTrans
  <2>4. Chain(Stored, history)
    <3>1. Begins(Stored, Stream) /\ Stored \in Seq(Ticks) /\ Stream \in Seq(Ticks)
      BY <2>1, StreamIs, StreamType, BeginsConcat
    <3> QED BY <3>1, LenProperties, ChainBegins DEF ChainInv
  <2>5. /\ Len(front) \in Nat /\ Len(tick5) \in Nat /\ Len(Stored) = Len(front) + Len(tick5)
        /\ \A i \in 1..(Len(front) + Len(tick5)) :
             Stored[i] = IF i <= Len(front) THEN front[i] ELSE tick5[i - Len(front)]
    BY <2>2, ConcatProperties, LenProperties DEF Stored, front
  <2>6. /\ back \in Seq(Ticks) /\ Len(part) \in Nat /\ Len(back) = Len(part) + Len(tick5)
        /\ \A i \in 1..(Len(part) + Len(tick5)) :
             back[i] = IF i <= Len(part) THEN part[i] ELSE tick5[i - Len(part)]
    BY <2>2, ConcatProperties, LenProperties
  <2> HIDE DEF back
  <2> DEFINE at(i) == IF i <= Len(part) THEN i ELSE (i - Len(part)) + Len(front)
  <2>7. ASSUME NEW i \in 1..Len(back)
        PROVE  at(i) \in 1..Len(Stored) /\ back[i] = Stored[at(i)]
    <3>1. CASE i <= Len(part)
      <4>1. i \in 1..Len(part) /\ i <= Len(front) /\ part[i] = front[i]
        BY <2>3, <2>5, <2>6, <3>1 DEF Begins
      <4> QED BY <2>5, <2>6, <3>1, <4>1
    <3>2. CASE i > Len(part)
      <4>1. i - Len(part) \in 1..Len(tick5) /\ at(i) \in 1..Len(Stored) /\ at(i) > Len(front)
            /\ at(i) - Len(front) = i - Len(part)
        BY <2>5, <2>6, <3>2
      <4>2. back[i] = tick5[i - Len(part)]
        BY <2>6, <3>2
      <4> HIDE DEF at
      <4>3. Stored[at(i)] = tick5[at(i) - Len(front)]
        BY <2>5, <4>1
      <4> QED BY <4>1, <4>2, <4>3
    <3> QED BY <2>6, <3>1, <3>2
  <2>8. ASSUME NEW i \in 1..Len(back), NEW j \in 1..Len(back), i < j PROVE at(i) < at(j)
    BY <2>3, <2>5, <2>6, <2>8 DEF Begins
  <2> HIDE DEF at
  <2>9. ASSUME NEW i \in 1..Len(back), NEW j \in 1..Len(back), i < j
        PROVE  back[i].n < back[j].n
    BY <2>4, <2>7, <2>8, <2>9 DEF Chain
  <2>10. DOMAIN back = 1..Len(back)
    BY <2>6, LenProperties
  <2>11. InOrder(back)
    BY <2>9, <2>10 DEF InOrder
  <2> QED BY <2>11 DEF back
<1> QED BY <1>1, Invariance, PTL

-----------------------------------------------------------------------------
(* The store implements the log of the day *)

LEMMA SerialsIs ==
    ASSUME NEW s \in Seq(Ticks)
    PROVE  /\ Serials(s) \in Seq(Nat) /\ Len(Serials(s)) = Len(s) /\ Len(s) \in Nat
           /\ \A i \in 1..Len(s) : Serials(s)[i] = s[i].n
<1>1. DOMAIN s = 1..Len(s) /\ Len(s) \in Nat /\ \A i \in 1..Len(s) : s[i].n \in Nat
  <2>1. \A i \in 1..Len(s) : s[i] \in Ticks
    BY ElementOfSeq
  <2>2. DOMAIN s = 1..Len(s) /\ Len(s) \in Nat
    BY LenProperties
  <2> QED BY <2>1, <2>2 DEF Ticks
<1>2. Serials(s) \in [1..Len(s) -> Nat]
  BY <1>1 DEF Serials
<1>3. Serials(s) \in Seq(Nat)
  BY <1>1, <1>2, IsASeq
<1>4. Len(Serials(s)) = Len(s)
  BY <1>1, <1>2, <1>3, LenProperties
<1> QED BY <1>1, <1>3, <1>4 DEF Serials

LEMMA SerialsAppend ==
    ASSUME NEW s \in Seq(Ticks), NEW tick \in Ticks
    PROVE  Serials(Append(s, tick)) = Append(Serials(s), tick.n)
<1> DEFINE t == Append(s, tick)
           u == Append(Serials(s), tick.n)
<1>1. /\ t \in Seq(Ticks) /\ Len(t) = Len(s) + 1 /\ t[Len(s) + 1] = tick
      /\ \A i \in 1..Len(s) : t[i] = s[i]
  BY AppendProperties
<1>2. /\ Serials(s) \in Seq(Nat) /\ Len(Serials(s)) = Len(s) /\ Len(s) \in Nat
      /\ \A i \in 1..Len(s) : Serials(s)[i] = s[i].n
  BY SerialsIs
<1>3. tick.n \in Nat
  BY DEF Ticks
<1>4. /\ u \in Seq(Nat) /\ Len(u) = Len(s) + 1 /\ u[Len(s) + 1] = tick.n
      /\ \A i \in 1..Len(s) : u[i] = Serials(s)[i]
  BY <1>2, <1>3, AppendProperties
<1> HIDE DEF t, u
<1>5. /\ Serials(t) \in Seq(Nat) /\ Len(Serials(t)) = Len(t)
      /\ \A i \in 1..Len(t) : Serials(t)[i] = t[i].n
  BY <1>1, SerialsIs
<1>6. \A i \in 1..Len(u) : Serials(t)[i] = u[i]
  <2> TAKE i \in 1..Len(u)
  <2>1. CASE i = Len(s) + 1
    BY <1>1, <1>2, <1>4, <1>5, <2>1
  <2>2. CASE i # Len(s) + 1
    <3>1. i \in 1..Len(s) /\ i \in 1..Len(t)
      BY <1>1, <1>2, <1>4, <2>2
    <3> QED BY <1>1, <1>2, <1>4, <1>5, <3>1
  <2> QED BY <2>1, <2>2
<1>7. Serials(t) = u
  BY <1>1, <1>4, <1>5, <1>6, SeqEqual
<1> QED BY <1>7 DEF t, u

LEMMA SerialsBegin ==
    ASSUME NEW s \in Seq(Ticks), NEW t \in Seq(Ticks), Begins(s, t)
    PROVE  Serials(s) = SubSeq(Serials(t), 1, Len(s))
<1>1. /\ Serials(s) \in Seq(Nat) /\ Len(Serials(s)) = Len(s)
      /\ Serials(t) \in Seq(Nat) /\ Len(Serials(t)) = Len(t)
  BY SerialsIs
<1>2. Begins(Serials(s), Serials(t))
  <2>1. \A i \in 1..Len(s) : i \in 1..Len(t) /\ Serials(s)[i] = Serials(t)[i]
    BY SerialsIs DEF Begins
  <2> QED BY <1>1, <2>1 DEF Begins
<1> QED BY <1>1, <1>2, BeginsIsSubSeq

\* A file that has grown along the ticks of the day is a flushed log.
LEMMA FileIsFlushed ==
    ASSUME NEW before \in Seq(Ticks), NEW after \in Seq(Ticks), NEW stream \in Seq(Ticks),
           Begins(before, after), Begins(after, stream)
    PROVE  \E k \in Len(Serials(before))..Len(Serials(stream)) :
             Serials(after) = SubSeq(Serials(stream), 1, k)
<1>1. /\ Len(Serials(before)) = Len(before) /\ Len(Serials(stream)) = Len(stream)
      /\ Len(before) \in Nat /\ Len(after) \in Nat /\ Len(stream) \in Nat
  BY SerialsIs
<1>2. Len(after) \in Len(before)..Len(stream)
  BY <1>1 DEF Begins
<1> QED BY <1>1, <1>2, SerialsBegin

LEMMA BeginsSelf ==
    ASSUME NEW S, NEW s \in Seq(S)
    PROVE  Begins(s, s)
BY LenProperties DEF Begins

LEMMA FileStep ==
    ASSUME IInv, Quiet
    PROVE  file' \in Seq(Ticks) /\ Begins(file, file') /\ Begins(file', Stream)
<1> USE DEF IInv
<1>0. file \in Seq(Ticks) /\ taken \in Seq(Ticks) /\ whole \in Seq(Ticks)
  BY DEF Types
<1>1. CASE WriteTicks
  <2>1. file' = file \o taken /\ timer = "write" /\ up
    BY <1>1 DEF WriteTicks, Extended
  <2>2. CASE Live
    <3>1. whole = file' /\ Moving = <<>>
      BY <2>1, <2>2 DEF DiskInv, Moving
    <3>2. whole \o Moving = whole
      BY <1>0, <3>1, ConcatEmptySeq
    <3>3. Begins(whole, Stored) /\ Begins(Stored, Stream)
      BY <1>0, <2>2, <3>2, StreamType, StreamIs, BeginsConcat DEF Stored, Types
    <3>4. Begins(whole, Stream)
      BY <1>0, <3>3, StreamType, BeginsTrans
    <3> QED BY <1>0, <2>1, <3>1, <3>4, BeginsConcat
  <2>3. CASE ~Live
    <3>1. taken = <<>>
      BY <2>1, <2>3 DEF Shape, Live
    <3>2. file' = file
      BY <1>0, <2>1, <3>1, ConcatEmptySeq
    <3> QED BY <1>0, <3>2, FileBegins, BeginsSelf
  <2> QED BY <2>2, <2>3
<1>2. CASE ~WriteTicks
  <2>1. file' = file
    BY <1>2 DEF Quiet, PushRecent, PushTick5, CloseGate, OpenWindow, SaveTicks, TakeTicks,
       CompressTicks, ClearCache, ClearRecent, ClearWhole, ClearTick5, ClearLast, ReadWhole,
       ReadTick5, Recover
  <2> QED BY <1>0, <2>1, FileBegins, BeginsSelf
<1> QED BY <1>1, <1>2

\* The store implements DayLog: every tick once and in order, the file a beginning of
\* them, and only a crash loses ticks, those after that beginning.
THEOREM ImplementsDayLog == Spec => DayLogSpec
<1>1. Init => Log!Init
  <2> SUFFICES ASSUME Init PROVE Log!Init
    OBVIOUS
  <2>1. history = <<>> /\ file = <<>> /\ Stream = ((<<>> \o <<>>) \o <<>>) \o <<>>
    BY DEF Init, Stream
  <2>2. <<>> \o <<>> = <<>>
    BY NothingIsSeq, ConcatEmptySeq
  <2>3. Stream = <<>>
    BY <2>1, <2>2
  <2>4. Len(Serials(<<>>)) = 0 /\ Serials(<<>>) \in Seq(Nat) /\ Len(<<>>) = 0
    BY NothingIsSeq, SerialsIs
  <2>5. Serials(<<>>) = <<>>
    BY <2>4, EmptySeq
  <2> QED BY <2>1, <2>3, <2>4, <2>5 DEF Log!Init
<1>2. IInv /\ [Next]_vars => [Log!Next]_(Log!vars)
  <2> SUFFICES ASSUME IInv, [Next]_vars PROVE [Log!Next]_(Log!vars)
    OBVIOUS
  <2> USE DEF IInv
  <2>0. file \in Seq(Ticks) /\ Stream \in Seq(Ticks)
    BY StreamType DEF Types
  <2>1. ASSUME NEW q \in Quotes, HandleQuote(q) PROVE Log!Accept
    <3>1. /\ Stream' = Append(Stream, pend')
          /\ pend' = [n |-> Len(history) + 1, fields |-> TickFields(q)]
      BY <2>1, QuoteExtendsStream
    <3>2. Len(history) \in Nat /\ Len(history') = Len(history) + 1
      BY <2>1, HistoryGrows
    <3>3. pend' \in Ticks /\ pend'.n = Len(history')
      BY <3>1, <3>2, TickFieldsIs DEF Ticks
    <3>4. Serials(Stream') = Append(Serials(Stream), Len(history'))
      BY <2>0, <3>1, <3>3, SerialsAppend
    <3>5. file' = file
      BY <2>1 DEF HandleQuote
    <3> QED BY <3>2, <3>4, <3>5 DEF Log!Accept, Serials
  <2>2. CASE Quiet
    <3>1. Stream' = Stream /\ history' = history
      BY <2>2, QuietKeepsStream
    <3>2. file' \in Seq(Ticks) /\ Begins(file, file') /\ Begins(file', Stream)
      BY <2>2, FileStep
    <3>3. \E k \in Len(Serials(file))..Len(Serials(Stream)) :
            Serials(file') = SubSeq(Serials(Stream), 1, k)
      BY <2>0, <3>2, FileIsFlushed
    <3>4. Log!Flush
      BY <3>1, <3>3 DEF Log!Flush, Serials
    <3> QED BY <3>4 DEF Log!Next
  <2>3. CASE Crash
    <3>1. /\ Stream' = file' /\ file' \in Seq(Ticks) /\ history' = history
          /\ Begins(file, file') /\ Begins(file', Stream)
      BY <2>3, CrashKeepsBeginning
    <3>2. \E k \in Len(Serials(file))..Len(Serials(Stream)) :
            Serials(file') = SubSeq(Serials(Stream), 1, k)
      BY <2>0, <3>1, FileIsFlushed
    <3>3. Log!Crash
      BY <3>1, <3>2 DEF Log!Crash, Serials
    <3> QED BY <3>3 DEF Log!Next
  <2>4. CASE DailyRestart
    <3>1. history' = <<>> /\ file' = <<>> /\ Stream' = ((<<>> \o <<>>) \o <<>>) \o <<>>
      BY <2>4 DEF DailyRestart, Stream
    <3>2. <<>> \o <<>> = <<>>
      BY NothingIsSeq, ConcatEmptySeq
    <3>3. Stream' = <<>>
      BY <3>1, <3>2
    <3>4. Len(Serials(<<>>)) = 0 /\ Serials(<<>>) \in Seq(Nat) /\ Len(<<>>) = 0
      BY NothingIsSeq, SerialsIs
    <3>5. Serials(<<>>) = <<>>
      BY <3>4, EmptySeq
    <3>6. Log!NewDay
      BY <3>1, <3>3, <3>4, <3>5 DEF Log!NewDay, Serials
    <3> QED BY <3>6 DEF Log!Next
  <2>5. CASE UNCHANGED vars
    <3>1. Stream' = Stream /\ history' = history /\ file' = file
      BY <2>5 DEF vars, Stream
    <3> QED BY <3>1 DEF Log!vars, Serials
  <2> QED BY <2>1, <2>2, <2>3, <2>4, <2>5, StepCases DEF Log!Next
<1> QED BY <1>1, <1>2, Invariance, PTL DEF Spec, DayLogSpec, Log!Spec
=============================================================================
