------------------------------- MODULE KLine -------------------------------
(***************************************************************************)
(* The intraday K-line (bar) cache of one option for one bar length: the   *)
(* halves of CalKLine (Util.cpp) for 1 and for 5 minutes are the same code *)
(* on different globals, so one module with Period as parameter stands for *)
(* both.                                                                   *)
(*                                                                         *)
(* Threads: the quote thread (HandleQuoteProc -> HandleQuote, then         *)
(* IsInTradeTime and CalKLine) and the timer thread (TimerCompressTick ->  *)
(* SaveKLine, ClearCache).  Each critical section of a lock is one action. *)
(* The process may be killed at any point (restart_monitor.sh) and then    *)
(* recovers the bars of the day from the file SaveKLine wrote (RecoverM1,  *)
(* RecoverM5).                                                             *)
(*                                                                         *)
(* IsCurrentByQty, NeverFirst, SameCount, TradingOnly and NewestVolume are *)
(* mutated forms of the definition that follows each of them: nothing uses *)
(* them but the tests of the properties.                                   *)
(***************************************************************************)
EXTENDS TradeTime, FiniteSets, FiniteSetsExt

CONSTANTS
    MaxTime,    \* bound: time stamps of the quotes of a trade date
    MaxQty      \* bound: total traded quantity of a trade date

ASSUME BoundsAssumption == MaxTime \in Nat /\ MaxQty \in Nat

VARIABLES
    phase,      \* where the day is: the quote gate of Parse, then ClearCache
    up,         \* the process runs
    lastQuote,  \* g_mapLastQuote: newest accepted quote, NoQuote if none
    pend,       \* accepted quote between HandleQuote and CalKLine, or NoQuote
    cache,      \* KLineCache.mapCache: finished bars, time |-> volume
    last,       \* KLineCache.lastKLine: the running bar, NoBar if none
    count,      \* KLineCount.mapTimeCount: bar time |-> bars up to it
    saving,     \* the copy of the bars SaveKLine is writing, empty if none
    file,       \* the bars in today's file
    resume      \* environment: the quote the feeds resume from after a restart

vars == <<phase, up, lastQuote, pend, cache, last, count, saving, file, resume>>

-----------------------------------------------------------------------------
Quote == [ts : 1..MaxTime, qty : 0..MaxQty]

\* tTimeStamp = 0 and iTimeStamp = 0 mark an unset quote or bar in the code too.
NoQuote == [ts |-> 0, qty |-> 0]
NoBar == [t |-> 0, vol |-> 0, total |-> 0]

\* The gate of CTcpPullClientImpl::Parse ("closed" is 16:00 to 20:00), then the
\* points between the critical sections of ClearCache.
Phases == {"trading", "closed", "countCleared", "barsCleared", "cleared"}

EmptyMap == [t \in {} |-> 0]

\* std::map::operator[] assignment.
Put(map, key, value) ==
    [k \in DOMAIN map \cup {key} |-> IF k = key THEN value ELSE map[k]]

\* The key of begin() of a map ordered by std::greater.
Newest(S) == CHOOSE t \in S : \A u \in S : u <= t

SumOf(map) == MapThenSumSet(LAMBDA t : map[t], DOMAIN map)

\* All bars of the day, the running one included, as KLineCache::ToString
\* prints them.
BarTimes == DOMAIN cache \cup (IF last.t = 0 THEN {} ELSE {last.t})
Bars == [t \in BarTimes |-> IF t = last.t THEN last.vol ELSE cache[t]]

\* Number of bars up to t, the meaning of a KLineCount entry.
Rank(S, t) == Cardinality({u \in S : u <= t})

-----------------------------------------------------------------------------
Init ==
    /\ phase = "trading"
    /\ up = TRUE
    /\ lastQuote = NoQuote
    /\ pend = NoQuote
    /\ cache = EmptyMap
    /\ last = NoBar
    /\ count = EmptyMap
    /\ saving = EmptyMap
    /\ file = EmptyMap
    /\ resume = NoQuote

-----------------------------------------------------------------------------
(* The quote thread *)

\* Neither older nor behind in total quantity: HandleQuote's early returns.
IsCurrentByQty(q) == q.qty >= lastQuote.qty
IsCurrent(q) == q.ts >= lastQuote.ts /\ q.qty >= lastQuote.qty

\* HandleQuote under g_lockLastQuote.  The two feeds may deliver quotes late or
\* twice: a quote older than the cached one in time or in total quantity is
\* dropped.  CalKLine follows only for a quote with a price that changed the
\* total quantity (bVolume; the first quote of the date always counts).
HandleQuote(q, priced) ==
    /\ up
    /\ phase = "trading"
    /\ pend = NoQuote
    /\ q.ts >= resume.ts /\ q.qty >= resume.qty
    /\ IsCurrent(q)
    /\ lastQuote' = q
    /\ pend' = IF priced /\ q.qty > 0 /\ q.qty # lastQuote.qty THEN q ELSE NoQuote
    /\ UNCHANGED <<phase, up, cache, last, count, saving, file, resume>>

\* IsInTradeTime refuses the quote: no bar.
SkipKLine ==
    /\ up
    /\ pend # NoQuote
    /\ ~IsInTradeTime(pend.ts)
    /\ pend' = NoQuote
    /\ UNCHANGED <<phase, up, lastQuote, cache, last, count, saving, file, resume>>

\* What the three branches of CalKLine share.
CalKLine(t) ==
    /\ up
    /\ pend # NoQuote
    /\ IsInTradeTime(pend.ts)
    /\ t = BarOf(TradeStamp(pend.ts))
    /\ pend' = NoQuote
    /\ UNCHANGED <<phase, up, lastQuote, saving, file, resume>>

NeverFirst == FALSE
NoBarsYet == DOMAIN cache = {} /\ last.t = 0

\* The entry of mapTimeCount for a bar after the newest one.
SameCount ==
    IF DOMAIN count = {} THEN 1 ELSE count[Newest(DOMAIN count)]
NextCount ==
    IF DOMAIN count = {} THEN 1 ELSE count[Newest(DOMAIN count)] + 1

\* The first bar of the day.
FirstBar(t) ==
    /\ CalKLine(t)
    /\ NoBarsYet
    /\ last' = [t |-> t, vol |-> pend.qty, total |-> pend.qty]
    /\ count' = Put(count, t, 1)
    /\ UNCHANGED cache

\* The quote falls into the running bar.
SameBar(t) ==
    /\ CalKLine(t)
    /\ ~NoBarsYet
    /\ last.t = t
    /\ last' = [t |-> t, vol |-> last.vol + pend.qty - last.total, total |-> pend.qty]
    /\ UNCHANGED <<cache, count>>

\* The running bar is finished; g_lock1MinKlineCount nests in g_lock1MinKline.
NextBar(t) ==
    /\ CalKLine(t)
    /\ ~NoBarsYet
    /\ last.t # t
    /\ cache' = Put(cache, last.t, last.vol)
    /\ last' = [t |-> t, vol |-> pend.qty - last.total, total |-> pend.qty]
    /\ count' = Put(count, t, NextCount)

\* Parse stops queueing quotes at 16:00.  The queue has drained long before
\* ClearCache may run at 19:30, so nothing is left to handle when it does.
CloseGate ==
    /\ phase = "trading"
    /\ pend = NoQuote
    /\ phase' = "closed"
    /\ UNCHANGED <<up, lastQuote, pend, cache, last, count, saving, file, resume>>

-----------------------------------------------------------------------------
(* The timer thread *)

\* The bars of the trade date are live: not inside the window of ClearCache.
TradingOnly == phase = "trading"
DayOpen == phase \in {"trading", "closed"}

\* SaveKLine copies the bars under the lock ...
SaveCopy ==
    /\ up
    /\ DayOpen
    /\ saving = EmptyMap
    /\ BarTimes # {}
    /\ saving' = Bars
    /\ UNCHANGED <<phase, up, lastQuote, pend, cache, last, count, file, resume>>

\* ... and rewrites the file of the trade date outside it.
SaveWrite ==
    /\ up
    /\ saving # EmptyMap
    /\ file' = saving
    /\ saving' = EmptyMap
    /\ UNCHANGED <<phase, up, lastQuote, pend, cache, last, count, resume>>

\* ClearCache, in the order of its critical sections.
ClearCount ==
    /\ up
    /\ phase = "closed"
    /\ saving = EmptyMap
    /\ phase' = "countCleared"
    /\ count' = EmptyMap
    /\ UNCHANGED <<up, lastQuote, pend, cache, last, saving, file, resume>>

ClearBars ==
    /\ up
    /\ phase = "countCleared"
    /\ phase' = "barsCleared"
    /\ cache' = EmptyMap
    /\ last' = NoBar
    /\ UNCHANGED <<up, lastQuote, pend, count, saving, file, resume>>

ClearLastQuote ==
    /\ up
    /\ phase = "barsCleared"
    /\ phase' = "cleared"
    /\ lastQuote' = NoQuote
    /\ UNCHANGED <<up, pend, cache, last, count, saving, file, resume>>

-----------------------------------------------------------------------------
(* Kill and restart *)

\* The process is killed.  A file being written holds a prefix of its lines
\* (fopen "w" truncates it, fputs and fclose fill it); memory is lost.  The
\* feeds reconnect and send nothing older than what was seen before.
Crash ==
    /\ up
    /\ up' = FALSE
    /\ \/ saving = EmptyMap /\ file' = file
       \/ /\ saving # EmptyMap
          /\ \E cut \in 0..(MaxTime + 1) :
                file' = Restrict(saving, {t \in DOMAIN saving : t < cut})
    /\ resume' = IF lastQuote = NoQuote THEN resume ELSE lastQuote
    /\ lastQuote' = NoQuote
    /\ pend' = NoQuote
    /\ cache' = EmptyMap
    /\ last' = NoBar
    /\ count' = EmptyMap
    /\ saving' = EmptyMap
    /\ UNCHANGED phase

\* The quantity traded before the restart, iTotalVol of the last bar.
NewestVolume == file[Newest(DOMAIN file)]
RecoveredTotal == SumOf(file)

\* RecoverM1/RecoverM5: the lines of the file refill mapCache and the counts, in
\* time order; the newest becomes the running bar again, and the quantity traded
\* so far is the sum of the volumes.  Inside the clearing window nothing of the
\* day is recovered (bOnlyM1Month).
Recover ==
    /\ ~up
    /\ up' = TRUE
    /\ IF DayOpen /\ DOMAIN file # {}
       THEN LET newest == Newest(DOMAIN file)
            IN  /\ last' = [t |-> newest, vol |-> file[newest], total |-> RecoveredTotal]
                /\ cache' = Restrict(file, DOMAIN file \ {newest})
                /\ count' = [t \in DOMAIN file |-> Rank(DOMAIN file, t)]
       ELSE UNCHANGED <<cache, last, count>>
    /\ UNCHANGED <<phase, lastQuote, pend, saving, file, resume>>

\* The nightly kill of restart_monitor.sh: the next process works on the next
\* trade date, whose file does not exist yet.
DailyRestart ==
    /\ phase = "cleared"
    /\ phase' = "trading"
    /\ up' = TRUE
    /\ lastQuote' = NoQuote
    /\ pend' = NoQuote
    /\ cache' = EmptyMap
    /\ last' = NoBar
    /\ count' = EmptyMap
    /\ saving' = EmptyMap
    /\ file' = EmptyMap
    /\ resume' = NoQuote

-----------------------------------------------------------------------------
Next ==
    \/ \E q \in Quote, priced \in BOOLEAN : HandleQuote(q, priced)
    \/ SkipKLine
    \/ \E t \in 0..MaxTime : FirstBar(t) \/ SameBar(t) \/ NextBar(t)
    \/ CloseGate
    \/ SaveCopy \/ SaveWrite
    \/ ClearCount \/ ClearBars \/ ClearLastQuote
    \/ Crash \/ Recover \/ DailyRestart

Spec == Init /\ [][Next]_vars
-----------------------------------------------------------------------------
(* Properties *)

IsMap(map) ==
    /\ DOMAIN map \subseteq 1..MaxTime
    /\ map = [t \in DOMAIN map |-> map[t]]

\* Type invariant.  The volumes are typed by VolumeConserved.
TypeOK ==
    /\ phase \in Phases
    /\ up \in BOOLEAN
    /\ lastQuote \in Quote \cup {NoQuote}
    /\ pend \in Quote \cup {NoQuote}
    /\ resume \in Quote \cup {NoQuote}
    /\ IsMap(cache) /\ IsMap(count) /\ IsMap(saving) /\ IsMap(file)
    /\ last.t \in 0..MaxTime

\* The bar times CalKLine produces only grow, although two feeds deliver quotes
\* out of order, the close is folded back into the session and the process
\* restarts: the running bar is newer than every finished one.
BarsInOrder == \A t \in DOMAIN cache : t < last.t

\* OPCCACHE and OPTCACHE decide from the counts alone whether the local bars
\* suffice: outside ClearCache an entry of mapTimeCount exists exactly for the
\* bars there are, and tells how many there are up to it.
CountsMatchBars ==
    phase # "countCleared" =>
        /\ DOMAIN count = BarTimes
        /\ \A t \in BarTimes : count[t] = Rank(BarTimes, t)

\* No traded quantity is counted twice or lost between bars, whatever was
\* skipped (quotes without price or outside the session), saved late or cut off
\* by a crash: the volumes add up to the total of the last quote used, and no
\* bar is negative.
VolumeConserved ==
    last.t # 0 =>
        /\ \A t \in BarTimes : Bars[t] \in 0..MaxQty
        /\ SumOf(Bars) = last.total
        /\ last.total <= IF lastQuote = NoQuote THEN resume.qty ELSE lastQuote.qty

\* Every bar starts inside a session: a quote in the seconds after the close
\* never opens a bar of its own.
BarsInSession ==
    \A t \in BarTimes : \E i \in DOMAIN Segments :
        BarOf(Segments[i].From) <= t /\ t < Segments[i].To

\* What a restart will recover is never ahead of memory: a bar on disk exists in
\* memory too and has at least the volume saved.
DiskBehindMemory ==
    up /\ phase \in {"trading", "closed"} =>
        \A t \in DOMAIN file : t \in BarTimes /\ file[t] <= Bars[t]

\* A finished bar is immutable: only ClearCache and the end of the process
\* remove it.
FinishedBarsFrozen ==
    [][~ClearBars /\ ~Crash =>
          \A t \in DOMAIN cache : t \in DOMAIN cache' /\ cache'[t] = cache[t]]_vars
=============================================================================
