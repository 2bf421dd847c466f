----------------------------- MODULE TickStore -----------------------------
(***************************************************************************)
(* The tick caches of one option: the newest quote, the recent full ticks, *)
(* the 5-minute buffer of incremental ticks, the compressed ticks of the   *)
(* day and the file of the day (Util.cpp, CQuoteWriter.cpp,                *)
(* WorkerProcessor.cpp).                                                   *)
(*                                                                         *)
(* An incremental tick prints only the fields that differ from the quote   *)
(* before it (HandledQuoteData::ToZengTick), so a reader can decode the    *)
(* day only as an unbroken chain.  The chain is cut into pieces that three *)
(* threads move about: the quote thread appends to the 5-minute buffer,    *)
(* the timer thread carries the buffer to the compressed ticks and to the  *)
(* file (Save5MinTick) and at night drops everything (ClearCache), a pool  *)
(* thread concatenates the pieces for a client (OPDRMX), and a restart     *)
(* reads the file back (RecoverTick).  Every critical section is one       *)
(* action.                                                                 *)
(*                                                                         *)
(* Untrimmed, Nothing, Uncleared, OnlyTaken, Overwritten and TradedQuote   *)
(* are mutated forms of a definition that follows: only the tests of the   *)
(* properties use them.                                                    *)
(***************************************************************************)
EXTENDS Integers, Sequences, SequencesExt

CONSTANTS
    Quotes,     \* the quotes the feeds may deliver, [ts, qty, px]
    Gap,        \* a tick more than Gap seconds after the last is full (60)
    Recent,     \* length of the list of full ticks (200)
    MaxTicks    \* bound: quotes accepted on one trade date

ASSUME QuotesAssumption == Quotes \subseteq [ts : Int, qty : Int, px : Int]

ASSUME BoundsAssumption == Gap \in Nat /\ Recent \in Nat /\ MaxTicks \in Nat

VARIABLES
    phase,      \* the gate of Parse, then the window of ClearCache
    up,         \* the process runs
    lastQuote,  \* g_mapLastQuote
    quote,      \* where the quote thread is inside HandleQuote
    pend,       \* the tick it has yet to store
    recent,     \* g_map200QuanTick
    tick5,      \* g_map5MinTick
    whole,      \* g_mapUnCompressTick, and g_mapCompressTick which is its gzip
    timer,      \* where the timer thread is inside TimerCompressTick
    taken,      \* mapTemp of Save5MinTick
    cleared,    \* s_LastClearCacheTime is less than 23 hours ago
    file,       \* the tick file of the trade date
    reader,     \* where an OPDRMX request is
    part,       \* what it has read so far
    history     \* every quote accepted on the trade date

vars == <<phase, up, lastQuote, quote, pend, recent, tick5, whole, timer, taken,
          cleared, file, reader, part, history>>

memory == <<lastQuote, quote, pend, recent, tick5, whole, timer, taken, cleared,
            reader, part>>

-----------------------------------------------------------------------------
NoQuote == [ts |-> 0, qty |-> 0, px |-> 0]
NoTick == [n |-> 0, fields |-> NoQuote]

Phases == {"trading", "closed", "window"}
QuotePcs == {"idle", "recent", "tick5"}
TimerPcs == {"idle", "compress", "write", "clearRecent", "clearWhole", "clearTick5",
             "clearLast"}

\* The fields ToZengTick prints: the time stamp always, the others if changed.
Changed(q, base) == {"ts"} \cup {f \in {"qty", "px"} : q[f] # base[f]}
Printed(q, base) == [f \in Changed(q, base) |-> q[f]]

\* Full text after a pause or without a quote of the same date, else incremental.
TickFields(q) ==
    IF lastQuote = NoQuote \/ q.ts - lastQuote.ts > Gap THEN q
    ELSE Printed(q, lastQuote)

\* The full tick a reader makes of an incremental one and the full one before.
Filled(fields, before) ==
    [f \in DOMAIN before |-> IF f \in DOMAIN fields THEN fields[f] ELSE before[f]]

Decoded(ticks) ==
    LET full[i \in 0..Len(ticks)] ==
            IF i = 0 THEN NoQuote ELSE Filled(ticks[i].fields, full[i - 1])
    IN  [i \in 1..Len(ticks) |-> [n |-> ticks[i].n, value |-> full[i]]]

\* What is kept of a list of full ticks.
Untrimmed(ticks) == ticks
Newest(ticks) ==
    SubSeq(ticks, IF Len(ticks) > Recent THEN Len(ticks) - Recent + 1 ELSE 1, Len(ticks))

-----------------------------------------------------------------------------
Init ==
    /\ phase = "trading"
    /\ up = TRUE
    /\ lastQuote = NoQuote
    /\ quote = "idle" /\ pend = NoTick
    /\ recent = <<>> /\ tick5 = <<>> /\ whole = <<>>
    /\ timer = "idle" /\ taken = <<>> /\ cleared = FALSE
    /\ file = <<>>
    /\ reader = "idle" /\ part = <<>>
    /\ history = <<>>

-----------------------------------------------------------------------------
(* The quote thread: HandleQuote *)

\* Under g_lockLastQuote.
HandleQuote(q) ==
    /\ up
    /\ phase = "trading"
    /\ quote = "idle"
    /\ Len(history) < MaxTicks
    /\ q.ts >= lastQuote.ts /\ q.qty >= lastQuote.qty
    /\ history' = Append(history, q)
    /\ pend' = [n |-> Len(history'), fields |-> TickFields(q)]
    /\ lastQuote' = q
    /\ quote' = "recent"
    /\ UNCHANGED <<phase, up, recent, tick5, whole, timer, taken, cleared, file,
                   reader, part>>

\* Under g_lock200QuanTick.
PushRecent ==
    /\ up
    /\ quote = "recent"
    /\ recent' = Newest(Append(recent, [n |-> pend.n, value |-> lastQuote]))
    /\ quote' = "tick5"
    /\ UNCHANGED <<phase, up, lastQuote, pend, tick5, whole, timer, taken, cleared, file,
                   reader, part, history>>

\* Under g_lock5MinTick.
PushTick5 ==
    /\ up
    /\ quote = "tick5"
    /\ tick5' = Append(tick5, pend)
    /\ pend' = NoTick
    /\ quote' = "idle"
    /\ UNCHANGED <<phase, up, lastQuote, recent, whole, timer, taken, cleared, file,
                   reader, part, history>>

\* Parse drops quotes from 16:00; the queues drain.
CloseGate ==
    /\ phase = "trading"
    /\ quote = "idle"
    /\ phase' = "closed"
    /\ UNCHANGED <<up, file, history, memory>>

\* 19:30.  Save5MinTick has run many times since 16:00.
OpenWindow ==
    /\ phase = "closed"
    /\ timer = "idle" /\ tick5 = <<>>
    /\ phase' = "window"
    /\ UNCHANGED <<up, file, history, memory>>

-----------------------------------------------------------------------------
(* The timer thread: TimerCompressTick *)

\* Save5MinTick copies and clears the buffer under g_lock5MinTick, ...
Nothing == <<>>
CopiedTicks == tick5
Uncleared == tick5
LeftBehind == <<>>

TakeTicks ==
    /\ up
    /\ timer = "idle"
    /\ taken' = CopiedTicks
    /\ tick5' = LeftBehind
    /\ timer' = "compress"
    /\ UNCHANGED <<phase, up, lastQuote, quote, pend, recent, whole, cleared, file,
                   reader, part, history>>

\* ... appends it to the ticks of the day under g_lockCompressTick ...
OnlyTaken == taken
WithTaken == whole \o taken

CompressTicks ==
    /\ up
    /\ timer = "compress"
    /\ whole' = WithTaken
    /\ timer' = "write"
    /\ UNCHANGED <<phase, up, lastQuote, quote, pend, recent, tick5, taken, cleared, file,
                   reader, part, history>>

\* ... and to the file (mode "a+"), with no lock.  ClearCache follows once in its
\* window.
Overwritten == taken
Extended == file \o taken

WriteTicks ==
    /\ up
    /\ timer = "write"
    /\ file' = Extended
    /\ taken' = <<>>
    /\ timer' = IF phase = "window" /\ ~cleared THEN "clearRecent" ELSE "idle"
    /\ UNCHANGED <<phase, up, lastQuote, quote, pend, recent, tick5, whole, cleared,
                   reader, part, history>>

\* ClearCache, in the order of its critical sections.
ClearRecent ==
    /\ up
    /\ timer = "clearRecent"
    /\ cleared' = TRUE
    /\ recent' = <<>>
    /\ timer' = "clearWhole"
    /\ UNCHANGED <<phase, up, lastQuote, quote, pend, tick5, whole, taken, file,
                   reader, part, history>>

ClearWhole ==
    /\ up
    /\ timer = "clearWhole"
    /\ whole' = <<>>
    /\ timer' = "clearTick5"
    /\ UNCHANGED <<phase, up, lastQuote, quote, pend, recent, tick5, taken, cleared, file,
                   reader, part, history>>

ClearTick5 ==
    /\ up
    /\ timer = "clearTick5"
    /\ tick5' = <<>>
    /\ timer' = "clearLast"
    /\ UNCHANGED <<phase, up, lastQuote, quote, pend, recent, whole, taken, cleared, file,
                   reader, part, history>>

ClearLast ==
    /\ up
    /\ timer = "clearLast"
    /\ lastQuote' = NoQuote
    /\ timer' = "idle"
    /\ UNCHANGED <<phase, up, quote, pend, recent, tick5, whole, taken, cleared, file,
                   reader, part, history>>

-----------------------------------------------------------------------------
(* A pool thread: OPDRMX, all ticks of the day *)

\* Under g_lockCompressTick.
ReadWhole ==
    /\ up
    /\ reader = "idle"
    /\ part' = whole
    /\ reader' = "half"
    /\ UNCHANGED <<phase, up, lastQuote, quote, pend, recent, tick5, whole, timer, taken,
                   cleared, file, history>>

\* Under g_lock5MinTick; the reply is sent.
ReadTick5 ==
    /\ up
    /\ reader = "half"
    /\ part' = <<>>
    /\ reader' = "idle"
    /\ UNCHANGED <<phase, up, lastQuote, quote, pend, recent, tick5, whole, timer, taken,
                   cleared, file, history>>

\* The reply at this point: the compressed part, then the 5-minute buffer.
Reply == part \o tick5

-----------------------------------------------------------------------------
(* Kill and restart *)

\* The process is killed; of a write in progress a prefix of the lines is on disk.
Crash ==
    /\ up
    /\ up' = FALSE
    /\ \E k \in 0..(IF timer = "write" THEN Len(taken) ELSE 0) :
          file' = file \o SubSeq(taken, 1, k)
    /\ lastQuote' = NoQuote
    /\ quote' = "idle" /\ pend' = NoTick
    /\ recent' = <<>> /\ tick5' = <<>> /\ whole' = <<>>
    /\ timer' = "idle" /\ taken' = <<>> /\ cleared' = FALSE
    /\ reader' = "idle" /\ part' = <<>>
    /\ UNCHANGED <<phase, history>>

\* RecoverTick decodes the file and keeps the full ticks that changed the total
\* quantity; the first one counts if its last quantity, a field left out here,
\* is positive.
Traded(first) ==
    LET full == Decoded(file)
        Changes(i) == IF i = 1 THEN first ELSE full[i].value.qty # full[i - 1].value.qty
        kept[i \in 0..Len(full)] ==
            IF i = 0 THEN <<>>
            ELSE IF Changes(i) THEN Append(kept[i - 1], full[i]) ELSE kept[i - 1]
    IN  kept[Len(full)]

\* The code that restored the newest quote is commented out; the mutated form
\* brings it back.
TradedQuote ==
    LET traded == Traded(TRUE) IN IF traded = <<>> THEN NoQuote ELSE Last(traded).value
RecoveredQuote == NoQuote

\* Inside the window of ClearCache nothing of the day is recovered (bOnlyM1Month).
Recover ==
    /\ ~up
    /\ up' = TRUE
    /\ IF phase = "window"
       THEN UNCHANGED <<recent, whole>>
       ELSE /\ \E first \in BOOLEAN : recent' = Newest(Traded(first))
            /\ whole' = file
    /\ lastQuote' = RecoveredQuote
    /\ UNCHANGED <<phase, quote, pend, tick5, timer, taken, cleared, file, reader, part,
                   history>>

\* The nightly kill and restart: the next trade date has a new file.
DailyRestart ==
    /\ phase = "window"
    /\ phase' = "trading"
    /\ up' = TRUE
    /\ lastQuote' = NoQuote
    /\ quote' = "idle" /\ pend' = NoTick
    /\ recent' = <<>> /\ tick5' = <<>> /\ whole' = <<>>
    /\ timer' = "idle" /\ taken' = <<>> /\ cleared' = FALSE
    /\ file' = <<>>
    /\ reader' = "idle" /\ part' = <<>>
    /\ history' = <<>>

-----------------------------------------------------------------------------
StoreTick == PushRecent \/ PushTick5
SaveTicks == TakeTicks \/ CompressTicks \/ WriteTicks
ClearCache == ClearRecent \/ ClearWhole \/ ClearTick5 \/ ClearLast

Next ==
    \/ \E q \in Quotes : HandleQuote(q)
    \/ StoreTick
    \/ CloseGate \/ OpenWindow
    \/ SaveTicks \/ ClearCache
    \/ ReadWhole \/ ReadTick5
    \/ Crash \/ Recover \/ DailyRestart

\* The quote thread and the timer thread keep running while the process is up.
Fairness == WF_vars(StoreTick) /\ WF_vars(SaveTicks \/ ClearCache)

Spec == Init /\ [][Next]_vars /\ Fairness

-----------------------------------------------------------------------------
(* Properties *)

\* The ticks of the day in the order of their serial numbers, wherever they are.
Stream ==
    IF ~up \/ phase = "window" THEN file
    ELSE whole \o (IF timer = "compress" THEN taken ELSE <<>>) \o tick5
               \o (IF quote = "idle" THEN <<>> ELSE <<pend>>)

Serials(ticks) == [i \in DOMAIN ticks |-> ticks[i].n]

InOrder(ticks) == \A i, j \in DOMAIN ticks : i < j => ticks[i].n < ticks[j].n

\* A tick decoded is the quote that was accepted.
Faithful(full) == \A i \in DOMAIN full : full[i].value = history[full[i].n]

\* Type invariant.
TypeOK ==
    /\ phase \in Phases /\ up \in BOOLEAN /\ cleared \in BOOLEAN
    /\ quote \in QuotePcs /\ timer \in TimerPcs /\ reader \in {"idle", "half"}
    /\ lastQuote \in Quotes \cup {NoQuote}
    /\ history \in Seq(Quotes) /\ Len(history) <= MaxTicks
    /\ \A ticks \in {tick5, whole, taken, file, part} : \A i \in DOMAIN ticks :
          ticks[i].n \in DOMAIN history /\ "ts" \in DOMAIN ticks[i].fields
    /\ Len(recent) <= Recent

\* The chain of incremental ticks is never broken: whatever the timer thread has
\* carried how far, and after any number of restarts, whoever reads the pieces of
\* the day in order decodes every tick to the quote that was accepted.
StreamDecodes == Faithful(Decoded(Stream))

\* The list of recent full ticks holds accepted quotes in order, also those a
\* restart had to decode from the file.
RecentFaithful == InOrder(recent) /\ Faithful(recent)

\* No tick appears twice in a reply, although the two halves are read under
\* different locks while Save5MinTick moves ticks from one to the other.
ReplyHasNoDuplicate == reader = "half" /\ phase # "window" => InOrder(Reply)

\* The reply can be decoded, as "all incremental ticks of the day" promises.
ReplyDecodes == reader = "half" /\ phase # "window" => Faithful(Decoded(Reply))

\* The store implements the log of the day: the pieces hold every tick exactly
\* once and in order, the file is a prefix of them, and only a crash loses ticks.
Log == INSTANCE DayLog WITH
    accepted <- Len(history),
    log <- Serials(Stream),
    durable <- Serials(file)

DayLogSpec == Log!Spec

\* Every accepted tick reaches the file, unless the process is killed first.
Holds(ticks, n) == \E i \in DOMAIN ticks : ticks[i].n = n
TicksReachDisk ==
    \A n \in 1..MaxTicks : (up /\ Holds(Stream, n)) ~> (Holds(file, n) \/ ~up)
=============================================================================
