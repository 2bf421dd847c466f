--------------------------- MODULE TradeDayProofs ---------------------------
(***************************************************************************)
(* Proofs about TradeDay for every set of contracts, every choice of times *)
(* of day that has the one of the nightly kill, and every number of days   *)
(* and faults: whenever a contract trades, the process stores quotes under *)
(* the right trade date; no bar is uploaded twice, and a finished upload   *)
(* has left none behind, each with the exceptions its property names.      *)
(***************************************************************************)
EXTENDS TradeDay, SequenceTheorems, TLAPS

\* What the clock shows.
ClockInv ==
    /\ day \in Nat /\ tick \in DOMAIN Times
    /\ killed => now >= 203500

\* Between 20:00 and the kill the date may still be the one that has ended.
Stale ==
    /\ Workday(day) /\ tradeDate = day
    /\ now \in 200000..203500 /\ ~killed

\* The date of a serving process; at other times it is not used.
DateInv == process = "serving" => tradeDate = GetTradeDateInt(day, now) \/ Stale

IInv == ClockInv /\ DateInv

-----------------------------------------------------------------------------
(* The calendar *)

LEMMA TimesInDay ==
    /\ DOMAIN Times = 1..Len(Times) /\ Len(Times) \in Nat /\ Len(Times) > 0
    /\ \A i \in DOMAIN Times : Times[i] \in Nat
<1>1. Times \in Seq(TimeOfDay) /\ Len(Times) > 0
  BY CalendarAssumption
<1>2. Len(Times) \in Nat /\ DOMAIN Times = 1..Len(Times)
  BY <1>1, LenProperties
<1>3. TimeOfDay \subseteq Nat
  BY DEF TimeOfDay
<1>4. ASSUME NEW i \in DOMAIN Times PROVE Times[i] \in Nat
  <2>1. i \in 1..Len(Times)
    BY <1>2
  <2>2. Times[i] \in TimeOfDay
    BY <1>1, <2>1, ElementOfSeq
  <2> QED BY <1>3, <2>2
<1> QED BY <1>1, <1>2, <1>4

LEMMA WeekdayRange == \A d \in Nat : Weekday(d) \in 0..6
BY DEF Weekday

LEMMA WeekdayNext ==
    \A d \in Nat : Weekday(d + 1) = IF Weekday(d) = 6 THEN 0 ELSE Weekday(d) + 1
BY DEF Weekday

\* On a workday the date changes at 20:00 only, at a weekend not at all.
LEMMA SameDayDate ==
    ASSUME NEW d \in Nat, NEW s \in Nat, NEW t \in Nat, s < t
    PROVE  \/ GetTradeDateInt(d, t) = GetTradeDateInt(d, s)
           \/ Workday(d) /\ s < 200000 /\ t >= 200000 /\ GetTradeDateInt(d, s) = d
BY WeekdayRange DEF GetTradeDateInt, DateBy, Workday

\* At midnight it does not change.
LEMMA NextDayDate ==
    ASSUME NEW d \in Nat, NEW s \in Nat, NEW t \in Nat, s >= 200000
    PROVE  \/ GetTradeDateInt(d + 1, t) = GetTradeDateInt(d, s)
           \/ Workday(d + 1) /\ t >= 200000 /\ GetTradeDateInt(d, s) = d + 1
BY WeekdayRange, WeekdayNext DEF GetTradeDateInt, DateBy, Workday

LEMMA NextWorkdayIs ==
    ASSUME NEW d \in Nat, NEW e \in d..(d + 6), Workday(e), \A f \in d..(e - 1) : ~Workday(f)
    PROVE  NextWorkday(d) = e
<1> DEFINE P(x) == Workday(x) /\ \A f \in d..(x - 1) : ~Workday(f)
<1> DEFINE n == NextWorkday(d)
<1>1. n \in d..(d + 6) /\ P(n)
  BY DEF NextWorkday
<1>2. ~(n < e)
  BY <1>1
<1>3. ~(e < n)
  BY <1>1
<1> QED BY <1>1, <1>2, <1>3

\* GetTradeDateInt is the trade date of the instant.
LEMMA DateIsTradeDate ==
    ASSUME NEW d \in Nat, NEW t \in Nat
    PROVE  GetTradeDateInt(d, t) = TradeDateOf(d, t)
<1> DEFINE c == IF t >= 200000 THEN d + 1 ELSE d
<1>1. c \in Nat /\ TradeDateOf(d, t) = NextWorkday(c)
  BY DEF TradeDateOf
<1>2. CASE Weekday(c) \in 1..5
  <2>1. NextWorkday(c) = c
    BY <1>1, <1>2, NextWorkdayIs DEF Workday
  <2>2. GetTradeDateInt(d, t) = c
    BY <1>2, WeekdayRange, WeekdayNext DEF GetTradeDateInt, DateBy
  <2> QED BY <1>1, <2>1, <2>2
<1>3. CASE Weekday(c) = 6
  <2>1. Weekday(c + 1) = 0 /\ Weekday(c + 2) = 1
    BY <1>1, <1>3, WeekdayNext
  <2>2. NextWorkday(c) = c + 2
    BY <1>1, <1>3, <2>1, NextWorkdayIs DEF Workday
  <2>3. GetTradeDateInt(d, t) = c + 2
    BY <1>3, WeekdayRange, WeekdayNext DEF GetTradeDateInt, DateBy
  <2> QED BY <1>1, <2>2, <2>3
<1>4. CASE Weekday(c) = 0
  <2>1. Weekday(c + 1) = 1
    BY <1>1, <1>4, WeekdayNext
  <2>2. NextWorkday(c) = c + 1
    BY <1>1, <1>4, <2>1, NextWorkdayIs DEF Workday
  <2>3. GetTradeDateInt(d, t) = c + 1
    BY <1>4, WeekdayRange, WeekdayNext DEF GetTradeDateInt, DateBy
  <2> QED BY <1>1, <2>2, <2>3
<1> QED BY <1>1, <1>2, <1>3, <1>4, WeekdayRange
-----------------------------------------------------------------------------
(* The invariant *)

LEMMA InvInit == Init => IInv
<1> SUFFICES ASSUME Init PROVE IInv
  OBVIOUS
<1>1. 1 \in DOMAIN Times
  BY TimesInDay
<1>2. ClockInv
  BY <1>1, CalendarAssumption DEF Init, ClockInv
<1>3. DateInv
  BY DEF Init, DateInv
<1> QED BY <1>2, <1>3 DEF IInv

\* The times of day ascend, and the clock stands still once at 20:35.
LEMMA TickWithinDay ==
    ASSUME tick \in DOMAIN Times, tick < Len(Times)
    PROVE  /\ tick + 1 \in DOMAIN Times /\ now < Times[tick + 1]
           /\ now < 203500 => Times[tick + 1] <= 203500
<1>1. tick \in 1..Len(Times) /\ tick + 1 \in DOMAIN Times /\ now \in Nat
  BY TimesInDay DEF now
<1>2. now < Times[tick + 1]
  BY <1>1, EveningAssumption DEF now
<1>3. PICK e \in DOMAIN Times : Times[e] = 203500
  BY EveningAssumption
<1>4. ASSUME now < 203500 PROVE Times[tick + 1] <= 203500
  <2>1. ~(e <= tick)
    BY <1>1, <1>3, <1>4, TimesInDay, EveningAssumption DEF now
  <2>2. e = tick + 1 \/ tick + 1 < e
    BY <1>1, <2>1, TimesInDay
  <2> QED BY <1>1, <1>3, <2>2, EveningAssumption, TimesInDay
<1> QED BY <1>1, <1>2, <1>4

LEMMA FirstTick ==
    /\ 1 \in DOMAIN Times /\ Times[1] <= 203500
<1>1. 1 \in DOMAIN Times
  BY TimesInDay
<1>2. PICK e \in DOMAIN Times : Times[e] = 203500
  BY EveningAssumption
<1>3. e = 1 \/ 1 < e
  BY <1>2, TimesInDay
<1> QED BY <1>1, <1>2, <1>3, EveningAssumption, TimesInDay

LEMMA LastTick ==
    ASSUME tick \in DOMAIN Times, ~(tick < Len(Times))
    PROVE  now >= 203500
<1>1. PICK e \in DOMAIN Times : Times[e] = 203500
  BY EveningAssumption
<1>2. e = tick \/ e < tick
  BY <1>1, TimesInDay
<1> QED BY <1>1, <1>2, EveningAssumption, TimesInDay DEF now

\* When the clock may move on, a date that has ended is not the one in use at 20:35
\* or later.
LEMMA StaleIsEarly ==
    ASSUME Stale, ~KillDue
    PROVE  now < 203500
BY DEF Stale, KillDue

LEMMA NowIsNat == tick \in DOMAIN Times => now \in Nat
BY TimesInDay DEF now

\* The clock moves on.
LEMMA TickKeeps ==
    ASSUME IInv, Tick
    PROVE  IInv'
<1>1. day \in Nat /\ tick \in DOMAIN Times /\ now \in Nat /\ (killed => now >= 203500)
  BY NowIsNat DEF IInv, ClockInv
<1>2. ~KillDue /\ process' = process /\ tradeDate' = tradeDate
  BY DEF Tick, memory
<1>3. CASE tick < Len(Times)
  <2>1. tick' = tick + 1 /\ day' = day /\ killed' = killed
    BY <1>3 DEF Tick
  <2>2. /\ tick + 1 \in DOMAIN Times /\ now < now'
        /\ now < 203500 => now' <= 203500
    BY <1>1, <1>3, <2>1, TickWithinDay DEF now
  <2>3. now' \in Nat
    BY <2>1, <2>2, TimesInDay DEF now
  <2>4. ClockInv'
    BY <1>1, <2>1, <2>2, <2>3 DEF ClockInv
  <2>5. ASSUME process = "serving"
        PROVE  tradeDate = GetTradeDateInt(day, now') \/ Stale'
    <3>1. CASE Stale
      <4>1. now < 203500
        BY <1>2, <3>1, StaleIsEarly
      <4> QED BY <1>1, <1>2, <2>1, <2>2, <2>3, <3>1, <4>1 DEF Stale, Workday
    <3>2. CASE tradeDate = GetTradeDateInt(day, now)
      <4>1. CASE GetTradeDateInt(day, now') = GetTradeDateInt(day, now)
        BY <3>2, <4>1
      <4>2. CASE /\ Workday(day) /\ now < 200000 /\ now' >= 200000
                 /\ GetTradeDateInt(day, now) = day
        <5>1. now' \in 200000..203500 /\ ~killed
          BY <1>1, <2>2, <2>3, <4>2
        <5> QED BY <1>2, <2>1, <3>2, <4>2, <5>1 DEF Stale, Workday
      <4> QED BY <1>1, <2>2, <2>3, <4>1, <4>2, SameDayDate
    <3> QED BY <2>5, <3>1, <3>2 DEF IInv, DateInv
  <2> QED BY <1>2, <2>1, <2>4, <2>5 DEF IInv, DateInv
<1>4. CASE ~(tick < Len(Times))
  <2>1. tick' = 1 /\ day' = day + 1 /\ ~killed'
    BY <1>4 DEF Tick
  <2>2. now' \in Nat /\ now' <= 203500 /\ tick' \in DOMAIN Times
    BY <2>1, FirstTick, TimesInDay DEF now
  <2>3. now >= 203500
    BY <1>1, <1>4, LastTick
  <2>4. ClockInv'
    BY <1>1, <2>1, <2>2 DEF ClockInv
  <2>5. ASSUME process = "serving"
        PROVE  tradeDate = GetTradeDateInt(day + 1, now') \/ Stale'
    <3>1. ~Stale
      BY <1>1, <1>2, <2>3, StaleIsEarly
    <3>2. tradeDate = GetTradeDateInt(day, now)
      BY <2>5, <3>1 DEF IInv, DateInv
    <3>3. CASE GetTradeDateInt(day + 1, now') = GetTradeDateInt(day, now)
      BY <3>2, <3>3
    <3>4. CASE /\ Workday(day + 1) /\ now' >= 200000
               /\ GetTradeDateInt(day, now) = day + 1
      <4>1. now' \in 200000..203500
        BY <2>2, <3>4
      <4> QED BY <1>2, <2>1, <3>2, <3>4, <4>1 DEF Stale, Workday
    <3>5. now >= 200000
      BY <1>1, <2>3
    <3> QED BY <1>1, <2>2, <3>3, <3>4, <3>5, NextDayDate
  <2> QED BY <1>2, <2>1, <2>4, <2>5 DEF IInv, DateInv
<1> QED BY <1>3, <1>4

\* Steps that leave the clock, the process and the date alone.
LEMMA FrameKeeps ==
    ASSUME IInv, UNCHANGED <<day, tick, killed, process, tradeDate>>
    PROVE  IInv'
<1>1. now' = now
  BY DEF now
<1>2. Stale => Stale'
  BY <1>1 DEF Stale, Workday
<1> QED BY <1>1, <1>2 DEF IInv, ClockInv, DateInv

\* Steps that leave the clock alone and end or begin the process, or set the date.
LEMMA ClockStands ==
    ASSUME ClockInv, UNCHANGED <<day, tick, killed>>
    PROVE  ClockInv' /\ now' = now
BY DEF ClockInv, now

LEMMA KillKeeps ==
    ASSUME IInv, MonitorKills
    PROVE  IInv'
<1>1. day' = day /\ tick' = tick /\ process' = "down" /\ now = 203500
  BY DEF MonitorKills, KillDue, Die
<1>2. now' = now
  BY <1>1 DEF now
<1>3. ClockInv'
  BY <1>1, <1>2 DEF IInv, ClockInv
<1>4. DateInv'
  BY <1>1 DEF DateInv
<1> QED BY <1>3, <1>4 DEF IInv

LEMMA CrashKeeps ==
    ASSUME IInv, Crash
    PROVE  IInv'
<1>1. ClockInv'
  BY ClockStands DEF Crash, Die, IInv
<1>2. DateInv'
  BY DEF Crash, Die, DateInv
<1> QED BY <1>1, <1>2 DEF IInv

LEMMA StartKeeps ==
    ASSUME IInv, Start
    PROVE  IInv'
<1>1. ClockInv'
  BY ClockStands DEF Start, clock, IInv
<1>2. DateInv'
  BY DEF Start, DateInv
<1> QED BY <1>1, <1>2 DEF IInv

LEMMA ServeKeeps ==
    ASSUME IInv, Serve
    PROVE  IInv'
<1>1. ClockInv' /\ now' = now
  BY ClockStands DEF Serve, IInv
<1>2. day' = day /\ tradeDate' = GetTradeDateInt(day, now)
  BY DEF Serve
<1>3. DateInv'
  BY <1>1, <1>2 DEF DateInv
<1> QED BY <1>1, <1>3 DEF IInv

LEMMA ClearKeeps ==
    ASSUME IInv, TimerCompressTick
    PROVE  IInv'
<1>1. ClockInv' /\ now' = now
  BY ClockStands DEF TimerCompressTick, IInv
<1>2. UNCHANGED <<day, tick, killed, process>>
  BY DEF TimerCompressTick
<1>3. CASE tradeDate' = GetTradeDateInt(day, now)
  <2>1. DateInv'
    BY <1>1, <1>2, <1>3 DEF DateInv
  <2> QED BY <1>1, <2>1 DEF IInv
<1>4. CASE tradeDate' = tradeDate
  BY <1>2, <1>4, FrameKeeps
<1> QED BY <1>3, <1>4 DEF TimerCompressTick, ClearCache

LEMMA Step == IInv /\ [Next]_vars => IInv'
<1> SUFFICES ASSUME IInv, [Next]_vars PROVE IInv'
  OBVIOUS
<1>1. CASE Tick
  BY <1>1, TickKeeps
<1>2. CASE MonitorKills
  BY <1>2, KillKeeps
<1>3. CASE Crash
  BY <1>3, CrashKeeps
<1>4. CASE Start
  BY <1>4, StartKeeps
<1>5. CASE Serve
  BY <1>5, ServeKeeps
<1>6. CASE InitHeYueLieBiao
  BY <1>6, FrameKeeps DEF InitHeYueLieBiao, clock
<1>7. CASE TimerCompressTick
  BY <1>7, ClearKeeps
<1>8. CASE TimerUploadData
  BY <1>8, FrameKeeps DEF TimerUploadData, memory
<1>9. CASE UploadHeyueLiebiao
  BY <1>9, FrameKeeps DEF UploadHeyueLiebiao, clock
<1>10. CASE UploadEnds
  BY <1>10, FrameKeeps DEF UploadEnds, memory
<1>11. ASSUME NEW k \in Contracts, Trade(k) PROVE IInv'
  BY <1>11, FrameKeeps DEF Trade, clock
<1>12. ASSUME NEW k \in Contracts, AppendSucceeds(k) PROVE IInv'
  BY <1>12, FrameKeeps DEF AppendSucceeds, clock
<1>13. ASSUME NEW k \in Contracts, AppendFails(k) PROVE IInv'
  BY <1>13, FrameKeeps DEF AppendFails, clock, memory
<1>14. CASE UNCHANGED vars
  BY <1>14, FrameKeeps DEF vars, clock, memory
<1> QED BY <1>1, <1>2, <1>3, <1>4, <1>5, <1>6, <1>7, <1>8, <1>9, <1>10, <1>11, <1>12,
           <1>13, <1>14 DEF Next

-----------------------------------------------------------------------------
\* A contract in session means that the evening before the kill is not the present.
LEMMA SessionIsNotStale ==
    ASSUME ClockInv, NEW k \in Contracts, InSession(k)
    PROVE  ~Stale
<1>1. now \in Nat
  BY NowIsNat DEF ClockInv
<1>2. CloseAt[k] \in TimeOfDay
  BY CalendarAssumption
<1>3. TimeOfDay \subseteq Nat
  BY DEF TimeOfDay
<1>4. CloseAt[k] \in Nat
  BY <1>2, <1>3
<1>5. CloseAt[k] < 200000
  BY EveningAssumption
<1> QED BY <1>1, <1>4, <1>5 DEF InSession, Stale

\* Whenever a contract trades, g_iCurTradeDate is the trade date of its quotes: neither
\* the nightly ClearCache, which sets the date that is ending, nor a weekend, nor a
\* restart at any time leaves another one (GetTradeDateInt, restart_monitor.sh).
THEOREM DateIsRight == Spec => []DateRight
<1>1. IInv => DateRight
  <2> SUFFICES ASSUME IInv, process = "serving", NEW k \in Contracts, InSession(k)
               PROVE  tradeDate = TradeDateOf(day, now)
    BY DEF DateRight
  <2>1. ~Stale
    BY SessionIsNotStale DEF IInv
  <2>2. tradeDate = GetTradeDateInt(day, now)
    BY <2>1 DEF IInv, DateInv
  <2>3. day \in Nat /\ now \in Nat
    BY NowIsNat DEF IInv, ClockInv
  <2> QED BY <2>2, <2>3, DateIsTradeDate
<1> QED BY <1>1, InvInit, Step, PTL DEF Spec

-----------------------------------------------------------------------------
(* Memory, the files and object storage *)

Types ==
    /\ day \in FirstDay..LastDay /\ tick \in DOMAIN Times
    /\ ran \subseteq {"compress", "upload"} /\ killed \in BOOLEAN
    /\ process \in {"down", "starting", "serving"}
    /\ started \in (FirstDay..LastDay) \X {Times[i] : i \in DOMAIN Times}
    /\ cleared \in Nat
    /\ listed \subseteq Contracts /\ sent \subseteq Contracts
    /\ todo \subseteq Contracts /\ refused \subseteq Contracts
    /\ emptied \in BOOLEAN /\ doubtful \in BOOLEAN /\ uploading \in {"no", "list", "bars"}
    /\ bars \in [Contracts -> SUBSET Bar]
    /\ stored \in [Contracts -> SUBSET Bar] /\ twice \in [Contracts -> SUBSET Bar]
    /\ file \in [Contracts -> SUBSET (Nat \X Bar)]
    /\ tradeDays \in Seq(FirstDay..LastDay) /\ noted \subseteq FirstDay..LastDay
    /\ unlisted \subseteq FirstDay..LastDay
    /\ crashes \in 0..MaxCrashes /\ failures \in 0..MaxFailures /\ idle \in 0..MaxIdle

\* A process that does not serve has nothing in memory; one that serves has bars of its
\* date only, and so has each file.
MemoryInv ==
    /\ process # "serving" =>
          /\ bars = NoBars /\ sent = {} /\ noted = {} /\ uploading = "no" /\ todo = {}
          /\ emptied = FALSE /\ tradeDate = 0
    /\ \A k \in Contracts : \A b \in bars[k] : b.date = tradeDate
    /\ \A k \in Contracts : \A f \in file[k] : f[2].date = f[1]
    /\ process = "serving" /\ ~emptied => listed = Contracts

\* The process was not started in the future.  Late: it was started this afternoon.
StartInv == started[1] <= day /\ (started[1] = day => started[2] <= now)
Late == started[1] = day /\ started[2] >= 150000

\* Between the close and the kill on a workday.
Evening == Workday(day) /\ now >= 150000 /\ now <= 203500 /\ ~killed

UploadInv ==
    /\ uploading # "no" => Evening /\ ~Late /\ tradeDate = day /\ "upload" \notin ran
    /\ uploading # "bars" => todo = {}
    /\ uploading = "bars" => day \in noted
    /\ todo \cap sent = {}

\* What object storage has of today came in the afternoon, and the process knows, or
\* will not upload again today.
StoredInv ==
    /\ \A k \in Contracts : \A b \in stored[k] :
          /\ b.date <= day
          /\ b.date = day =>
                /\ now >= 150000
                /\ process = "starting" => Late
                /\ process = "serving" /\ ~doubtful =>
                      k \in sent \/ Late \/ (now >= 193000 /\ uploading = "no")
    /\ doubtful \/ twice = NoBars

ListInv ==
    /\ \A i \in DOMAIN tradeDays : tradeDays[i] <= day
    /\ \A i, j \in DOMAIN tradeDays : i # j => tradeDays[i] # tradeDays[j]
    /\ day \in Range(tradeDays) =>
          /\ now >= 150000
          /\ process = "starting" => Late
          /\ process = "serving" => Late \/ day \in noted
    /\ \A d \in noted : d <= day

\* Unless a contract list failed, an upload comes after every close, so that the bars in
\* memory stay as they are till the process ends.
ClosedInv ==
    process = "serving" /\ ~emptied /\ (uploading # "no" \/ sent # {} \/ day \in noted) =>
        Evening /\ \A k \in Contracts : IsClose(k)

DoneInv ==
    process = "serving" /\ ~emptied =>
        /\ \A k \in sent : bars[k] \subseteq stored[k]
        /\ uploading = "bars" => \A k \in Contracts : bars[k] # {} => k \in sent \cup todo \cup refused
        /\ uploading = "no" /\ "upload" \in ran /\ UploadDue =>
              /\ \A k \in Contracts : bars[k] # {} => k \in sent \cup refused
              /\ day \in noted
        /\ day \in noted \ unlisted /\ now < 190000 =>
              (day \in Range(tradeDays) <=> bars # NoBars)

FullInv ==
    /\ IInv /\ Types /\ MemoryInv /\ StartInv /\ UploadInv /\ StoredInv /\ ListInv
    /\ ClosedInv /\ DoneInv

LEMMA DaysAre ==
    ASSUME Types
    PROVE  /\ FirstDay \in Nat /\ LastDay \in Nat /\ day \in Nat /\ now \in Nat
           /\ FirstDay <= day /\ day <= LastDay
           /\ started[1] \in Nat /\ started[2] \in Nat
           /\ now \in {Times[i] : i \in DOMAIN Times}
<1>1. FirstDay \in Nat /\ LastDay \in Nat /\ day \in FirstDay..LastDay
  BY CalendarAssumption DEF Types
<1>2. now \in Nat /\ now \in {Times[i] : i \in DOMAIN Times}
  BY TimesInDay DEF Types, now
<1>3. started[1] \in FirstDay..LastDay /\ started[2] \in {Times[i] : i \in DOMAIN Times}
  BY DEF Types
<1>4. started[2] \in Nat
  BY <1>3, TimesInDay
<1> QED BY <1>1, <1>2, <1>3, <1>4

LEMMA DateRange ==
    ASSUME NEW d \in Nat, NEW t \in Nat
    PROVE  GetTradeDateInt(d, t) \in d..(d + 3)
BY DEF GetTradeDateInt, DateBy

LEMMA NoBarsType == NoBars \in [Contracts -> SUBSET Bar] /\ \A k \in Contracts : NoBars[k] = {}
BY DEF NoBars

LEMMA NewBarType ==
    ASSUME Types
    PROVE  NewBar \in Bar /\ NewBar.date = GetTradeDateInt(day, now)
<1>1. GetTradeDateInt(day, now) \in FirstDay..(LastDay + 3)
  <2>1. GetTradeDateInt(day, now) \in day..(day + 3)
    BY DaysAre, DateRange
  <2> QED BY <2>1, DaysAre
<1>2. day \in FirstDay..LastDay
  BY DEF Types
<1> QED BY <1>1, <1>2, DaysAre DEF NewBar, Bar

LEMMA BarDate ==
    ASSUME Types, NEW b \in Bar
    PROVE  b.date \in Nat
<1>1. b.date \in FirstDay..(LastDay + 3)
  BY DEF Bar
<1> QED BY <1>1, DaysAre

\* What SaveKLine writes: all bars in memory are of one date.
LEMMA SavedIs ==
    ASSUME Types, MemoryInv, SaveKLine
    PROVE  /\ file' \in [Contracts -> SUBSET (Nat \X Bar)]
           /\ \A k \in Contracts : \A f \in file'[k] : f[2].date = f[1]
<1> DEFINE newest(k) == CHOOSE b \in bars[k] : \A c \in bars[k] : c.date <= b.date
           saved(k) == {f \in file[k] : f[1] # newest(k).date}
                         \cup {<<newest(k).date, b>> : b \in bars[k]}
<1>1. file' = [k \in Contracts |-> IF bars[k] = {} THEN file[k] ELSE saved(k)]
  BY DEF SaveKLine
<1>2. ASSUME NEW k \in Contracts, bars[k] # {}
      PROVE  newest(k) \in bars[k]
  <2>1. \A b, c \in bars[k] : c.date = b.date /\ c.date \in Nat
    BY BarDate DEF MemoryInv, Types
  <2>2. \E b \in bars[k] : \A c \in bars[k] : c.date <= b.date
    BY <1>2, <2>1
  <2> QED BY <2>2
<1>3. ASSUME NEW k \in Contracts, bars[k] # {}
      PROVE  newest(k).date = tradeDate /\ newest(k).date \in Nat
  BY <1>2, <1>3, BarDate DEF MemoryInv, Types
<1> HIDE DEF newest
<1>4. ASSUME NEW k \in Contracts
      PROVE  /\ file'[k] \subseteq Nat \X Bar
             /\ \A f \in file'[k] : f[2].date = f[1]
  <2>1. CASE bars[k] = {}
    BY <1>1, <2>1 DEF Types, MemoryInv
  <2>2. CASE bars[k] # {}
    <3>1. file'[k] = saved(k)
      BY <1>1, <2>2
    <3>2. newest(k).date = tradeDate /\ newest(k).date \in Nat
      BY <1>3, <2>2
    <3>3. file[k] \subseteq Nat \X Bar /\ bars[k] \subseteq Bar
      BY DEF Types
    <3> QED BY <3>1, <3>2, <3>3 DEF MemoryInv
  <2> QED BY <2>1, <2>2
<1>5. file' \in [Contracts -> SUBSET (Nat \X Bar)]
  BY <1>1, <1>4
<1> QED BY <1>4, <1>5

LEMMA AppendedIs ==
    ASSUME Types, NEW k \in Contracts, Appended(k)
    PROVE  /\ stored' \in [Contracts -> SUBSET Bar] /\ twice' \in [Contracts -> SUBSET Bar]
           /\ stored'[k] = stored[k] \cup bars[k]
           /\ twice'[k] = twice[k] \cup (bars[k] \cap stored[k])
           /\ \A j \in Contracts : j # k => stored'[j] = stored[j] /\ twice'[j] = twice[j]
BY DEF Appended, Types

LEMMA InitTypes == Init => Types
<1> SUFFICES ASSUME Init PROVE Types
  OBVIOUS
<1>1. day \in FirstDay..LastDay /\ tick \in DOMAIN Times
  BY CalendarAssumption, FirstTick DEF Init
<1>2. started \in (FirstDay..LastDay) \X {Times[i] : i \in DOMAIN Times}
  BY <1>1, FirstTick DEF Init
<1>3. NoBars \in [Contracts -> SUBSET (Nat \X Bar)]
  BY DEF NoBars
<1>4. crashes \in 0..MaxCrashes /\ failures \in 0..MaxFailures /\ idle \in 0..MaxIdle
  BY FaultsAssumption DEF Init
<1>5. tradeDays \in Seq(FirstDay..LastDay)
  BY DEF Init
<1> QED BY <1>1, <1>2, <1>3, <1>4, <1>5, NoBarsType DEF Init, Types

LEMMA TypesStep ==
    ASSUME FullInv, [Next]_vars
    PROVE  Types'
<1> USE DEF FullInv
<1>1. CASE Tick
  <2>1. day' \in FirstDay..LastDay /\ tick' \in DOMAIN Times /\ killed' \in BOOLEAN
    <3>1. CASE tick < Len(Times)
      BY <1>1, <3>1, TickWithinDay DEF Tick, Types
    <3>2. CASE ~(tick < Len(Times))
      <4>1. day < LastDay /\ day' = day + 1 /\ tick' = 1 /\ killed' = FALSE
        BY <1>1, <3>2 DEF Tick
      <4>2. day' \in FirstDay..LastDay
        BY <4>1, DaysAre
      <4>3. 1 \in DOMAIN Times
        BY FirstTick
      <4>4. tick' \in DOMAIN Times /\ killed' \in BOOLEAN
        BY <4>1, <4>3, Zenon
      <4> QED BY <4>2, <4>4
    <3> QED BY <3>1, <3>2
  <2>2. idle' \in 0..MaxIdle
    BY <1>1, FaultsAssumption DEF Tick, Types
  <2>3. ran' = {} /\ UNCHANGED <<process, started, memory, upload, storage, crashes>>
    BY <1>1 DEF Tick
  <2> QED BY <2>1, <2>2, <2>3 DEF Types, memory, upload, storage
<1>2. CASE MonitorKills
  BY <1>2, NoBarsType DEF MonitorKills, Die, Types, storage
<1>3. CASE Crash
  <2>1. crashes' \in 0..MaxCrashes
    BY <1>3, FaultsAssumption DEF Crash, Types
  <2> QED BY <1>3, <2>1, NoBarsType DEF Crash, Die, Types, storage
<1>4. CASE Start
  <2>1. <<day, now>> \in (FirstDay..LastDay) \X {Times[i] : i \in DOMAIN Times}
    BY DaysAre DEF Types
  <2> QED BY <1>4, <2>1 DEF Start, Types, clock, memory, upload, storage
<1>5. CASE Serve
  <2>1. bars' \in [Contracts -> SUBSET Bar]
    BY <1>5 DEF Serve, Types
  <2> QED BY <1>5, <2>1 DEF Serve, Types, upload, storage
<1>6. CASE InitHeYueLieBiao
  BY <1>6 DEF InitHeYueLieBiao, Types, clock, upload, storage
<1>7. CASE TimerCompressTick
  <2>1. file' \in [Contracts -> SUBSET (Nat \X Bar)]
    BY <1>7, SavedIs DEF TimerCompressTick
  <2>2. cleared' \in Nat /\ bars' \in [Contracts -> SUBSET Bar] /\ sent' \subseteq Contracts
    <3>1. Seconds(day, now) \in Nat
      BY DaysAre DEF Seconds
    <3> QED BY <1>7, <3>1, NoBarsType DEF TimerCompressTick, ClearCache, Types
  <2> QED BY <1>7, <2>1, <2>2 DEF TimerCompressTick, Types, upload
<1>8. CASE TimerUploadData
  BY <1>8 DEF TimerUploadData, Types, memory, upload, storage
<1>9. CASE UploadHeyueLiebiao
  <2>1. day \in FirstDay..LastDay
    BY DEF Types
  <2>2. /\ tradeDays' \in Seq(FirstDay..LastDay) /\ failures' \in 0..MaxFailures
        /\ doubtful' \in BOOLEAN /\ unlisted' \subseteq FirstDay..LastDay
    <3>1. Append(tradeDays, day) \in Seq(FirstDay..LastDay)
      BY <2>1, AppendProperties DEF Types
    <3>2. CASE AppendDate
      <4>1. failures' \in 0..MaxFailures
        BY <3>2, FaultsAssumption DEF AppendDate, Types
      <4>2. tradeDays' \in Seq(FirstDay..LastDay)
        BY <3>1, <3>2 DEF AppendDate, Types
      <4>3. doubtful' \in BOOLEAN /\ unlisted' \subseteq FirstDay..LastDay
        BY <2>1, <3>2 DEF AppendDate, Types
      <4> QED BY <4>1, <4>2, <4>3
    <3> QED BY <1>9, <3>2 DEF UploadHeyueLiebiao, Types
  <2> QED BY <1>9, <2>1, <2>2 DEF UploadHeyueLiebiao, Types, clock
<1>10. CASE UploadEnds
  BY <1>10 DEF UploadEnds, Types, memory, storage
<1>11. ASSUME NEW k \in Contracts, Trade(k) PROVE Types'
  <2>1. bars' \in [Contracts -> SUBSET Bar]
    BY <1>11, NewBarType DEF Trade, Types
  <2> QED BY <1>11, <2>1 DEF Trade, Types, clock, upload, storage
<1>12. ASSUME NEW k \in Contracts, AppendSucceeds(k) PROVE Types'
  <2>1. stored' \in [Contracts -> SUBSET Bar] /\ twice' \in [Contracts -> SUBSET Bar]
    BY <1>12, AppendedIs DEF AppendSucceeds
  <2> QED BY <1>12, <2>1 DEF AppendSucceeds, Types, clock
<1>13. ASSUME NEW k \in Contracts, AppendFails(k) PROVE Types'
  <2>1. /\ stored' \in [Contracts -> SUBSET Bar] /\ twice' \in [Contracts -> SUBSET Bar]
        /\ doubtful' \in BOOLEAN
    BY <1>13, AppendedIs DEF AppendFails, Types
  <2>2. failures' \in 0..MaxFailures
    BY <1>13, FaultsAssumption DEF AppendFails, Types
  <2> QED BY <1>13, <2>1, <2>2 DEF AppendFails, Types, clock, memory
<1>14. CASE UNCHANGED vars
  BY <1>14 DEF vars, clock, memory, upload, storage, Types
<1> QED BY <1>1, <1>2, <1>3, <1>4, <1>5, <1>6, <1>7, <1>8, <1>9, <1>10, <1>11, <1>12,
           <1>13, <1>14 DEF Next

LEMMA MemoryStep ==
    ASSUME FullInv, [Next]_vars
    PROVE  MemoryInv'
<1> USE DEF FullInv
<1>1. CASE UNCHANGED <<process, memory, todo, uploading, file>>
  BY <1>1 DEF MemoryInv, memory
<1>2. CASE Tick \/ UNCHANGED vars
  BY <1>1, <1>2 DEF Tick, vars, upload, storage
<1>3. CASE MonitorKills \/ Crash
  BY <1>3, NoBarsType DEF MonitorKills, Crash, Die, storage, MemoryInv
<1>4. CASE Start
  BY <1>4 DEF Start, memory, upload, storage, MemoryInv
<1>5. CASE Serve
  <2>1. \A k \in Contracts : \A b \in bars'[k] : b.date = tradeDate'
    BY <1>5 DEF Serve, MemoryInv
  <2> QED BY <1>5, <2>1 DEF Serve, storage, MemoryInv
<1>6. CASE InitHeYueLieBiao
  <2>1. listed' = Contracts \/ emptied' = TRUE
    BY <1>6 DEF InitHeYueLieBiao
  <2> QED BY <1>6, <2>1 DEF InitHeYueLieBiao, upload, storage, MemoryInv
<1>7. CASE TimerCompressTick
  <2>1. \A k \in Contracts : \A f \in file'[k] : f[2].date = f[1]
    BY <1>7, SavedIs DEF TimerCompressTick
  <2>2. \A k \in Contracts : \A b \in bars'[k] : b.date = tradeDate'
    BY <1>7, NoBarsType DEF TimerCompressTick, ClearCache, MemoryInv
  <2> QED BY <1>7, <2>1, <2>2 DEF TimerCompressTick, upload, MemoryInv
<1>8. CASE TimerUploadData
  BY <1>8 DEF TimerUploadData, memory, upload, storage, MemoryInv
<1>9. CASE UploadHeyueLiebiao
  BY <1>9 DEF UploadHeyueLiebiao, MemoryInv
<1>10. CASE UploadEnds
  BY <1>10 DEF UploadEnds, memory, storage, MemoryInv
<1>11. ASSUME NEW k \in Contracts, Trade(k) PROVE MemoryInv'
  <2>1. ~Stale
    BY <1>11, SessionIsNotStale DEF Trade, IInv
  <2>2. NewBar.date = tradeDate
    BY <1>11, <2>1, NewBarType DEF Trade, IInv, DateInv
  <2>3. \A j \in Contracts : \A b \in bars'[j] : b.date = tradeDate
    BY <1>11, <2>2 DEF Trade, Types, MemoryInv
  <2> QED BY <1>11, <2>3 DEF Trade, upload, storage, MemoryInv
<1>12. ASSUME NEW k \in Contracts, AppendSucceeds(k) PROVE MemoryInv'
  BY <1>12 DEF AppendSucceeds, MemoryInv
<1>13. ASSUME NEW k \in Contracts, AppendFails(k) PROVE MemoryInv'
  BY <1>13 DEF AppendFails, memory, MemoryInv
<1> QED BY <1>2, <1>3, <1>4, <1>5, <1>6, <1>7, <1>8, <1>9, <1>10, <1>11, <1>12,
           <1>13 DEF Next

\* What the clock does.
Later ==
    /\ ~KillDue
    /\ UNCHANGED <<process, started, memory, upload, storage, crashes>> /\ ran' = {}
    /\ \/ day' = day /\ now < now' /\ killed' = killed /\ (now < 203500 => now' <= 203500)
       \/ day' = day + 1 /\ killed' = FALSE /\ now >= 203500

LEMMA TickIs ==
    ASSUME Types, Tick
    PROVE  Later /\ now' \in Nat
<1>1. CASE tick < Len(Times)
  <2>1. tick' = tick + 1 /\ day' = day /\ killed' = killed
    BY <1>1 DEF Tick
  <2>2. /\ tick + 1 \in DOMAIN Times /\ now < now'
        /\ now < 203500 => now' <= 203500
    BY <1>1, <2>1, TickWithinDay DEF now, Types
  <2>3. now' \in Nat
    BY <2>1, <2>2, TimesInDay DEF now
  <2> QED BY <2>1, <2>2, <2>3 DEF Tick, Later
<1>2. CASE ~(tick < Len(Times))
  <2>1. tick' = 1 /\ day' = day + 1 /\ killed' = FALSE
    BY <1>2 DEF Tick
  <2>2. now >= 203500
    BY <1>2, LastTick DEF Types
  <2>3. now' \in Nat
    BY <2>1, FirstTick, TimesInDay DEF now
  <2> QED BY <2>1, <2>2, <2>3 DEF Tick, Later
<1> QED BY <1>1, <1>2

\* All other steps leave the clock alone.
LEMMA StandsStill ==
    ASSUME FullInv, [Next]_vars, ~Tick
    PROVE  /\ day' = day /\ now' = now
           /\ killed' = killed \/ (process' = "down" /\ bars' = NoBars)
           /\ (started' = started /\ (process' = process \/ process' = "down"
                                        \/ (process = "starting" /\ process' = "serving")))
              \/ (started' = <<day, now>> /\ process = "down" /\ process' = "starting")
<1>1. /\ UNCHANGED <<day, tick>>
      /\ killed' = killed \/ (process' = "down" /\ bars' = NoBars)
      /\ (started' = started /\ (process' = process \/ process' = "down"
                                   \/ (process = "starting" /\ process' = "serving")))
           \/ (started' = <<day, now>> /\ process = "down" /\ process' = "starting")
  BY DEF Next, MonitorKills, Crash, Die, Start, Serve, InitHeYueLieBiao, Trade, TimerCompressTick,
         TimerUploadData, UploadHeyueLiebiao, AppendSucceeds, AppendFails, UploadEnds, clock, vars
<1> QED BY <1>1 DEF now

LEMMA StartStep ==
    ASSUME FullInv, [Next]_vars
    PROVE  StartInv'
<1> USE DEF FullInv
<1>0. day \in Nat /\ now \in Nat /\ started[1] \in Nat /\ started[2] \in Nat
  BY DaysAre
<1>1. CASE Tick
  <2>1. Later /\ now' \in Nat
    BY <1>1, TickIs
  <2> QED BY <1>0, <2>1 DEF Later, StartInv
<1>2. CASE ~Tick
  BY <1>0, <1>2, StandsStill DEF StartInv
<1> QED BY <1>1, <1>2

LEMMA HourIs ==
    ASSUME NEW t \in Nat
    PROVE  /\ t \div 10000 \in 15..18 => t >= 150000 /\ t < 190000
           /\ t >= 150000 /\ t < 200000 => t \div 10000 \in 15..19
<1> DEFINE q == t \div 10000
<1>1. q \in Int
  BY SMT
<1>2. 10000 * q <= t
  BY SMT
<1>3. t < 10000 * q + 10000
  BY SMT
<1> HIDE DEF q
<1>4. q \in 15..18 => t >= 150000 /\ t < 190000
  BY <1>1, <1>2, <1>3
<1>5. t >= 150000 /\ t < 200000 => q \in 15..19
  BY <1>1, <1>2, <1>3
<1> QED BY <1>4, <1>5 DEF q

LEMMA DateIsDay ==
    ASSUME NEW d \in Nat, NEW t \in Nat
    PROVE  /\ GetTradeDateInt(d, t) = d => Workday(d)
           /\ Workday(d) /\ t < 200000 => GetTradeDateInt(d, t) = d
BY WeekdayRange DEF GetTradeDateInt, DateBy, Workday

\* ClearCache clears after 19:30.
LEMMA ClearTimeIs == IsInClearCacheTime => now >= 193000
BY SMT DEF IsInClearCacheTime

\* An upload that is due begins on the afternoon of a workday, after the close.
LEMMA DueIs ==
    ASSUME FullInv, UploadDue, process = "serving"
    PROVE  /\ Evening /\ now < 190000 /\ ~Late /\ tradeDate = day
           /\ ~emptied => \A k \in Contracts : IsClose(k)
<1> USE DEF FullInv
<1>0. day \in Nat /\ now \in Nat /\ started[1] \in Nat /\ started[2] \in Nat
  BY DaysAre
<1>1. now >= 150000 /\ now < 190000 /\ GetTradeDateInt(day, now) = day
  BY <1>0, HourIs DEF UploadDue, IsInUploadTime, IsTradeDayAllClose
<1>2. Workday(day)
  BY <1>0, <1>1, DateIsDay
<1>3. ~killed
  BY <1>0, <1>1 DEF IInv, ClockInv
<1>4. ~Late
  <2> SUFFICES ASSUME Late PROVE FALSE
    OBVIOUS
  <2>1. started[1] = day /\ started[2] >= 150000 /\ started[2] < 200000
    BY <1>0, <1>1 DEF Late, StartInv
  <2>2. GetTradeDateInt(day, started[2]) = day
    BY <1>0, <1>2, <2>1, DateIsDay
  <2>3. started[2] \div 10000 \in 15..19
    BY <1>0, <2>1, HourIs
  <2> QED BY <2>1, <2>2, <2>3 DEF UploadDue, HasUpload
<1>5. tradeDate = day
  BY <1>1 DEF IInv, DateInv, Stale
<1>6. ~emptied => \A k \in Contracts : IsClose(k)
  BY DEF UploadDue, IsTradeDayAllClose, MemoryInv
<1>7. Evening
  BY <1>0, <1>1, <1>2, <1>3 DEF Evening
<1> QED BY <1>1, <1>4, <1>5, <1>6, <1>7

\* The evening goes on till the kill.
LEMMA EveningStays ==
    ASSUME FullInv, Evening, Later, now' \in Nat
    PROVE  Evening' /\ day' = day /\ now < now'
<1>1. now # 203500 /\ now >= 150000 /\ now <= 203500 /\ now \in Nat
  BY DaysAre DEF FullInv, Evening, Later, KillDue
<1>2. now < 203500 /\ ~(now >= 203500)
  BY <1>1
<1>3. day' = day /\ now < now' /\ killed' = killed /\ now' <= 203500
  BY <1>1, <1>2 DEF Later
<1> QED BY <1>1, <1>3 DEF Evening, Workday

LEMMA UploadStep ==
    ASSUME FullInv, [Next]_vars
    PROVE  UploadInv'
<1> USE DEF FullInv
<1>1. CASE Tick
  <2>1. Later /\ now' \in Nat
    BY <1>1, TickIs
  <2>2. UNCHANGED <<started, tradeDate, noted, sent, todo, uploading>> /\ ran' = {}
    BY <2>1 DEF Later, memory, upload
  <2>3. uploading # "no" => Evening' /\ day' = day
    BY <2>1, EveningStays DEF UploadInv
  <2> QED BY <2>2, <2>3 DEF UploadInv, Late
<1>a. ASSUME ~Tick PROVE day' = day /\ now' = now
  BY <1>a, StandsStill
<1>2. CASE MonitorKills \/ Crash
  BY <1>2 DEF MonitorKills, Crash, Die, UploadInv
<1>3. CASE Start \/ Serve
  <2>1. uploading' = "no" /\ todo' = {}
    BY <1>3 DEF Start, Serve, upload, MemoryInv
  <2> QED BY <2>1 DEF UploadInv
<1>4. ASSUME UNCHANGED <<day, tick, killed, started, tradeDate, noted, sent, todo, uploading>>,
             "upload" \in ran' => "upload" \in ran
      PROVE  UploadInv'
  BY <1>4 DEF UploadInv, Evening, Late, Workday, now
<1>5. CASE InitHeYueLieBiao
  BY <1>4, <1>5 DEF InitHeYueLieBiao, clock, upload
<1>6. CASE TimerCompressTick
  BY <1>6 DEF TimerCompressTick, ClearCache, upload, UploadInv
<1>7. CASE TimerUploadData
  <2>1. CASE UploadDue
    <3>1. Evening /\ ~Late /\ tradeDate = day
      BY <1>7, <2>1, DueIs DEF TimerUploadData
    <3>2. /\ uploading' = "list" /\ ran' = ran /\ todo' = todo /\ uploading = "no"
          /\ "upload" \notin ran
          /\ UNCHANGED <<day, tick, killed, started, tradeDate, sent>>
      BY <1>7, <2>1 DEF TimerUploadData, memory
    <3>3. Evening' /\ ~(Late') /\ tradeDate' = day'
      BY <3>1, <3>2 DEF Evening, Late, Workday, now
    <3> QED BY <3>2, <3>3 DEF UploadInv
  <2>2. CASE ~UploadDue
    BY <1>7, <2>2 DEF TimerUploadData, memory, upload, UploadInv
  <2> QED BY <2>1, <2>2
<1>8. CASE UploadHeyueLiebiao
  <2>1. /\ uploading = "list" /\ uploading' = "bars" /\ noted' = noted \cup {day}
        /\ todo' \cap sent' = {} /\ UNCHANGED <<day, tick, killed, started, tradeDate, ran>>
    BY <1>8 DEF UploadHeyueLiebiao, clock
  <2> QED BY <2>1 DEF UploadInv, Evening, Late, Workday, now
<1>9. CASE UploadEnds
  BY <1>9 DEF UploadEnds, memory, UploadInv
<1>10. ASSUME NEW k \in Contracts, Trade(k) PROVE UploadInv'
  BY <1>4, <1>10 DEF Trade, clock, upload
<1>11. ASSUME NEW k \in Contracts, AppendSucceeds(k) PROVE UploadInv'
  <2>1. /\ k \in todo /\ todo' = todo \ {k} /\ sent' = sent \cup {k}
        /\ UNCHANGED <<day, tick, killed, started, tradeDate, ran, noted, uploading>>
    BY <1>11 DEF AppendSucceeds, clock
  <2> QED BY <2>1 DEF UploadInv, Evening, Late, Workday, now
<1>12. ASSUME NEW k \in Contracts, AppendFails(k) PROVE UploadInv'
  <2>1. /\ k \in todo /\ todo' = todo \ {k}
        /\ UNCHANGED <<day, tick, killed, started, tradeDate, ran, noted, uploading, sent>>
    BY <1>12 DEF AppendFails, clock, memory
  <2> QED BY <2>1 DEF UploadInv, Evening, Late, Workday, now
<1>13. CASE UNCHANGED vars
  BY <1>4, <1>13 DEF vars, clock, memory, upload
<1> QED BY <1>1, <1>2, <1>3, <1>5, <1>6, <1>7, <1>8, <1>9, <1>10, <1>11, <1>12, <1>13 DEF Next

LEMMA StoredStep ==
    ASSUME FullInv, [Next]_vars
    PROVE  StoredInv'
<1> USE DEF FullInv
<1>0. /\ day \in Nat /\ now \in Nat
      /\ \A k \in Contracts : \A b \in stored[k] : b.date \in Nat
  BY DaysAre, BarDate DEF Types
<1>1. CASE Tick
  <2>1. Later /\ now' \in Nat
    BY <1>1, TickIs
  <2>2. UNCHANGED <<process, started, sent, uploading, stored, twice, doubtful>>
    BY <2>1 DEF Later, memory, upload, storage
  <2>3. CASE day' = day /\ now < now'
    <3>1. (now >= 150000 => now' >= 150000) /\ (now >= 193000 => now' >= 193000)
      BY <1>0, <2>1, <2>3
    <3> QED BY <2>2, <2>3, <3>1 DEF StoredInv, Late
  <2>4. CASE day' = day + 1
    <3>1. \A k \in Contracts : \A b \in stored'[k] : b.date <= day' /\ b.date # day'
      BY <1>0, <2>2, <2>4 DEF StoredInv
    <3> QED BY <2>2, <3>1 DEF StoredInv
  <2> QED BY <2>1, <2>3, <2>4 DEF Later
<1>3. CASE MonitorKills \/ Crash
  <2>1. process' = "down" /\ UNCHANGED <<stored, twice, doubtful>>
    BY <1>3 DEF MonitorKills, Crash, Die, storage
  <2>2. day' = day /\ now' = now
    BY <1>3 DEF MonitorKills, Crash, Die, now
  <2> QED BY <2>1, <2>2 DEF StoredInv
<1>4. CASE Start
  <2>1. /\ process' = "starting" /\ UNCHANGED <<stored, twice, doubtful, day, tick>>
        /\ started' = <<day, now>>
    BY <1>4 DEF Start, storage, clock
  <2>2. now' = now /\ (now >= 150000 => Late')
    BY <2>1 DEF now, Late
  <2> QED BY <2>1, <2>2 DEF StoredInv
<1>5. CASE Serve
  <2>1. /\ process = "starting" /\ process' = "serving"
        /\ UNCHANGED <<stored, twice, doubtful, day, tick, started>>
    BY <1>5 DEF Serve, storage
  <2>2. now' = now /\ (Late => Late')
    BY <2>1 DEF now, Late
  <2> QED BY <2>1, <2>2 DEF StoredInv
<1>6. ASSUME UNCHANGED <<stored, twice, doubtful, day, tick, started, process>>, sent \subseteq sent',
             now >= 193000 /\ uploading = "no" => uploading' = "no"
      PROVE  StoredInv'
  BY <1>6 DEF StoredInv, Late, now
<1>7. CASE InitHeYueLieBiao
  BY <1>6, <1>7 DEF InitHeYueLieBiao, clock, upload, storage
<1>8. CASE TimerCompressTick
  <2>1. /\ UNCHANGED <<stored, twice, doubtful, day, tick, started, process, uploading>>
        /\ uploading = "no"
        /\ sent' = sent \/ now >= 193000
    BY <1>8, ClearTimeIs, SMT DEF TimerCompressTick, ClearCache, upload
  <2> QED BY <2>1 DEF StoredInv, Late, now
<1>9. CASE TimerUploadData
  <2>1. ASSUME UploadDue PROVE ~(now >= 193000)
    BY <1>0, <1>9, <2>1, DueIs DEF TimerUploadData
  <2>2. UploadDue \/ uploading' = uploading
    BY <1>9 DEF TimerUploadData, upload
  <2>3. UNCHANGED <<stored, twice, doubtful, day, tick, started, process, sent>>
    BY <1>9 DEF TimerUploadData, memory, storage
  <2> QED BY <1>6, <2>1, <2>2, <2>3
<1>10. CASE UploadHeyueLiebiao
  <2>1. /\ uploading = "list"
        /\ UNCHANGED <<stored, twice, day, tick, started, process, sent>>
        /\ doubtful' = doubtful \/ doubtful' = TRUE
    BY <1>10 DEF UploadHeyueLiebiao, AppendDate, clock
  <2> QED BY <2>1 DEF StoredInv, Late, now
<1>11. CASE UploadEnds
  BY <1>6, <1>11 DEF UploadEnds, memory, storage
<1>12. ASSUME NEW k \in Contracts, Trade(k) PROVE StoredInv'
  BY <1>6, <1>12 DEF Trade, clock, upload, storage
\* What is appended is of today, and has not been appended before.
<1>13. ASSUME NEW k \in todo
       PROVE  /\ k \in Contracts /\ k \notin sent /\ uploading = "bars" /\ ~Late /\ process = "serving"
              /\ now >= 150000
              /\ \A b \in bars[k] : b.date = day
              /\ ~doubtful => bars[k] \cap stored[k] = {}
  <2>1. /\ k \in Contracts /\ k \notin sent /\ uploading = "bars" /\ ~Late /\ process = "serving"
        /\ tradeDate = day /\ Evening
    BY <1>13 DEF Types, UploadInv, MemoryInv
  <2>2. \A b \in bars[k] : b.date = day
    BY <2>1 DEF MemoryInv
  <2>3. now >= 150000
    BY <2>1 DEF Evening
  <2> QED BY <2>1, <2>2, <2>3 DEF StoredInv
<1>14. ASSUME NEW k \in Contracts, AppendSucceeds(k) PROVE StoredInv'
  <2>1. /\ k \in todo /\ sent' = sent \cup {k}
        /\ UNCHANGED <<doubtful, day, tick, started, process, uploading>>
    BY <1>14 DEF AppendSucceeds, clock
  <2>2. /\ \A b \in bars[k] : b.date = day
        /\ ~doubtful => bars[k] \cap stored[k] = {}
        /\ ~Late /\ now >= 150000
    BY <1>13, <2>1
  <2>3. /\ stored'[k] = stored[k] \cup bars[k]
        /\ twice'[k] = twice[k] \cup (bars[k] \cap stored[k])
        /\ \A j \in Contracts : j # k => stored'[j] = stored[j] /\ twice'[j] = twice[j]
        /\ twice' \in [Contracts -> SUBSET Bar] /\ twice \in [Contracts -> SUBSET Bar]
    BY <1>14, AppendedIs DEF AppendSucceeds, Types
  <2>4. doubtful' \/ twice' = NoBars
    <3> SUFFICES ASSUME ~doubtful PROVE twice' = NoBars
      BY <2>1
    <3>1. twice = NoBars
      BY DEF StoredInv
    <3>2. \A j \in Contracts : twice'[j] = {}
      BY <2>2, <2>3, <3>1, NoBarsType
    <3> QED BY <2>3, <3>2 DEF NoBars
  <2>5. now' = now /\ (Late' <=> Late) /\ day' = day
    BY <2>1 DEF now, Late
  <2>6. ASSUME NEW j \in Contracts, NEW b \in stored'[j]
        PROVE  /\ b.date <= day
               /\ b.date = day =>
                     /\ now >= 150000
                     /\ process = "starting" => Late
                     /\ process = "serving" /\ ~doubtful =>
                           j \in sent' \/ Late \/ (now >= 193000 /\ uploading = "no")
    <3>1. CASE b \in stored[j]
      BY <2>1, <3>1 DEF StoredInv
    <3>2. CASE b \notin stored[j]
      <4>1. j = k /\ b \in bars[k]
        BY <2>3, <2>6, <3>2
      <4>2. b.date = day /\ j \in sent' /\ process = "serving"
        BY <1>13, <2>1, <2>2, <4>1
      <4> QED BY <1>0, <2>2, <4>2
    <3> QED BY <3>1, <3>2
  <2> QED BY <2>1, <2>4, <2>5, <2>6 DEF StoredInv
<1>15. ASSUME NEW k \in Contracts, AppendFails(k) PROVE StoredInv'
  <2>1. k \in todo /\ UNCHANGED <<day, tick, started, process, uploading, sent>>
    BY <1>15 DEF AppendFails, clock, memory
  <2>2. CASE UNCHANGED <<stored, twice, doubtful>>
    BY <1>6, <2>1, <2>2
  <2>3. CASE Appended(k) /\ doubtful' = TRUE
    <3>1. /\ \A b \in bars[k] : b.date = day
          /\ ~Late /\ now >= 150000 /\ process = "serving"
      BY <1>13, <2>1
    <3>2. /\ stored'[k] = stored[k] \cup bars[k]
          /\ \A j \in Contracts : j # k => stored'[j] = stored[j]
      BY <2>3, AppendedIs
    <3>3. \A j \in Contracts : \A b \in stored'[j] : b.date <= day
      <4>1. \A b \in bars[k] : b.date <= day
        BY <1>0, <3>1
      <4> QED BY <3>2, <4>1 DEF StoredInv
    <3>4. now' = now /\ day' = day
      BY <2>1 DEF now
    <3> QED BY <2>1, <2>3, <3>1, <3>3, <3>4 DEF StoredInv
  <2> QED BY <1>15, <2>2, <2>3 DEF AppendFails
<1>16. CASE UNCHANGED vars
  BY <1>6, <1>16 DEF vars, clock, memory, upload, storage
<1> QED BY <1>1, <1>3, <1>4, <1>5, <1>7, <1>8, <1>9, <1>10, <1>11, <1>12, <1>14, <1>15, <1>16
        DEF Next

\* The append of a date to TradeDay.LIST.
LEMMA AppendDateIs ==
    ASSUME Types, AppendDate
    PROVE  \/ tradeDays' = tradeDays /\ day \in unlisted' /\ unlisted' = unlisted \cup {day}
           \/ /\ Len(tradeDays') = Len(tradeDays) + 1 /\ Len(tradeDays) \in Nat
              /\ DOMAIN tradeDays = 1..Len(tradeDays)
              /\ DOMAIN tradeDays' = 1..(Len(tradeDays) + 1)
              /\ \A i \in 1..Len(tradeDays) : tradeDays'[i] = tradeDays[i]
              /\ tradeDays'[Len(tradeDays) + 1] = day
              /\ unlisted' \in {unlisted, unlisted \cup {day}}
<1>1. tradeDays \in Seq(FirstDay..LastDay) /\ day \in FirstDay..LastDay
  BY DEF Types
<1> DEFINE t == Append(tradeDays, day)
<1>2. /\ t \in Seq(FirstDay..LastDay) /\ Len(t) = Len(tradeDays) + 1
      /\ \A i \in 1..Len(tradeDays) : t[i] = tradeDays[i]
      /\ t[Len(tradeDays) + 1] = day
  BY <1>1, AppendProperties
<1>3. /\ Len(tradeDays) \in Nat /\ DOMAIN tradeDays = 1..Len(tradeDays)
      /\ DOMAIN t = 1..Len(t)
  BY <1>1, <1>2, LenProperties
<1>4. \/ tradeDays' = tradeDays /\ unlisted' = unlisted \cup {day}
      \/ tradeDays' = t /\ unlisted' \in {unlisted, unlisted \cup {day}}
  BY DEF AppendDate
<1> HIDE DEF t
<1> QED BY <1>2, <1>3, <1>4

LEMMA ListStep ==
    ASSUME FullInv, [Next]_vars
    PROVE  ListInv'
<1> USE DEF FullInv
<1>0. /\ day \in Nat /\ now \in Nat
      /\ \A i \in DOMAIN tradeDays : tradeDays[i] \in Nat
      /\ \A d \in noted : d \in Nat
  <2>1. \A i \in DOMAIN tradeDays : tradeDays[i] \in FirstDay..LastDay
    <3>1. tradeDays \in Seq(FirstDay..LastDay) /\ DOMAIN tradeDays = 1..Len(tradeDays)
      BY LenProperties DEF Types
    <3> QED BY <3>1, ElementOfSeq
  <2> QED BY <2>1, DaysAre DEF Types
<1>1. CASE Tick
  <2>1. Later /\ now' \in Nat
    BY <1>1, TickIs
  <2>2. UNCHANGED <<process, started, noted, tradeDays>>
    BY <2>1 DEF Later, memory, storage
  <2>3. CASE day' = day /\ now < now'
    <3>1. now >= 150000 => now' >= 150000
      BY <1>0, <2>1, <2>3, SMT
    <3> QED BY <2>2, <2>3, <3>1 DEF ListInv, Late
  <2>4. CASE day' = day + 1
    <3>1. day' \notin Range(tradeDays)
      BY <1>0, <2>4 DEF ListInv, Range
    <3>2. /\ \A i \in DOMAIN tradeDays : tradeDays[i] <= day'
          /\ \A d \in noted : d <= day'
      BY <1>0, <2>4 DEF ListInv
    <3> QED BY <2>2, <3>1, <3>2 DEF ListInv
  <2> QED BY <2>1, <2>3, <2>4 DEF Later
<1>2. CASE MonitorKills \/ Crash
  <2>1. process' = "down" /\ noted' = {} /\ UNCHANGED <<tradeDays, day, tick>>
    BY <1>2 DEF MonitorKills, Crash, Die, storage
  <2> QED BY <2>1 DEF ListInv, now
<1>3. CASE Start
  <2>1. /\ process' = "starting" /\ UNCHANGED <<tradeDays, noted, day, tick>>
        /\ started' = <<day, now>>
    BY <1>3 DEF Start, memory, storage, clock
  <2>2. now' = now /\ (now >= 150000 => Late')
    BY <2>1 DEF now, Late
  <2> QED BY <2>1, <2>2 DEF ListInv
<1>4. CASE Serve
  <2>1. process = "starting" /\ UNCHANGED <<tradeDays, noted, day, tick, started>>
    BY <1>4 DEF Serve, storage
  <2> QED BY <2>1 DEF ListInv, now, Late
<1>5. ASSUME UNCHANGED <<tradeDays, day, tick, started, process, noted>>
      PROVE  ListInv'
  BY <1>5 DEF ListInv, Late, now
<1>6. CASE InitHeYueLieBiao \/ TimerCompressTick \/ TimerUploadData \/ UploadEnds \/ UNCHANGED vars
  BY <1>5, <1>6 DEF InitHeYueLieBiao, TimerCompressTick, TimerUploadData, UploadEnds, vars, clock,
                    memory, storage
<1>7. ASSUME NEW k \in Contracts, Trade(k) \/ AppendSucceeds(k) \/ AppendFails(k) PROVE ListInv'
  BY <1>5, <1>7 DEF Trade, AppendSucceeds, AppendFails, clock, memory, storage
<1>8. CASE UploadHeyueLiebiao
  <2>1. /\ uploading = "list" /\ noted' = noted \cup {day}
        /\ UNCHANGED <<day, tick, started, process>>
    BY <1>8 DEF UploadHeyueLiebiao, clock
  <2>2. ~Late /\ now >= 150000 /\ process = "serving"
    BY <2>1 DEF UploadInv, Evening, MemoryInv
  <2>3. now' = now /\ day' = day /\ \A d \in noted' : d <= day'
    BY <1>0, <2>1 DEF now, ListInv
  <2>4. CASE tradeDays' = tradeDays
    BY <2>1, <2>2, <2>3, <2>4 DEF ListInv
  <2>5. CASE day \notin noted /\ AppendDate /\ tradeDays' # tradeDays
    <3>1. \A i \in DOMAIN tradeDays : tradeDays[i] # day
      BY <2>2, <2>5 DEF ListInv, Range
    <3> DEFINE n == Len(tradeDays)
    <3>2. /\ n \in Nat /\ DOMAIN tradeDays = 1..n /\ DOMAIN tradeDays' = 1..(n + 1)
          /\ \A i \in 1..n : tradeDays'[i] = tradeDays[i]
          /\ tradeDays'[n + 1] = day
      BY <2>5, AppendDateIs
    <3> HIDE DEF n
    <3>3. \A i \in DOMAIN tradeDays' : i \in 1..n \/ i = n + 1
      BY <3>2
    <3>4. \A i \in DOMAIN tradeDays' : tradeDays'[i] <= day'
      BY <1>0, <2>3, <3>2, <3>3 DEF ListInv
    <3>5. \A i, j \in DOMAIN tradeDays' : i # j => tradeDays'[i] # tradeDays'[j]
      BY <3>1, <3>2, <3>3 DEF ListInv
    <3> QED BY <2>1, <2>2, <2>3, <3>4, <3>5 DEF ListInv
  <2> QED BY <1>8, <2>4, <2>5 DEF UploadHeyueLiebiao
<1> QED BY <1>1, <1>2, <1>3, <1>4, <1>6, <1>7, <1>8 DEF Next

LEMMA CloseIsNat == \A k \in Contracts : CloseAt[k] \in Nat
<1>1. TimeOfDay \subseteq Nat
  BY SMT DEF TimeOfDay
<1>2. \A k \in Contracts : CloseAt[k] \in TimeOfDay
  BY CalendarAssumption
<1> QED BY <1>1, <1>2

\* After the close no contract trades till the kill.
LEMMA ClosedIs ==
    ASSUME FullInv, Evening, NEW k \in Contracts, IsClose(k)
    PROVE  ~InSession(k)
<1>0. now \in Nat /\ now >= 150000 /\ now <= 203500
  BY DaysAre DEF FullInv, Evening
<1>1. CloseAt[k] \in Nat
  BY CloseIsNat
<1>2. ~(now <= CloseAt[k])
  BY <1>0, <1>1, SMT DEF IsClose
<1>3. ~(now >= 210000) /\ ~(now <= 23000)
  BY <1>0, SMT
<1> QED BY <1>2, <1>3, SMT DEF InSession

LEMMA ClosedStep ==
    ASSUME FullInv, [Next]_vars
    PROVE  ClosedInv'
<1> USE DEF FullInv
<1>0. day \in Nat /\ now \in Nat /\ \A k \in Contracts : CloseAt[k] \in Nat
  BY DaysAre, CloseIsNat
<1>1. CASE Tick
  <2>1. Later /\ now' \in Nat
    BY <1>1, TickIs
  <2>2. UNCHANGED <<process, emptied, uploading, sent, noted>>
    BY <2>1 DEF Later, memory, upload
  <2> SUFFICES ASSUME process = "serving", ~emptied,
                      uploading # "no" \/ sent # {} \/ day' \in noted
               PROVE  Evening' /\ \A k \in Contracts : IsClose(k)'
    BY <2>2 DEF ClosedInv
  <2>3. CASE uploading # "no" \/ sent # {} \/ day \in noted
    <3>1. Evening /\ \A k \in Contracts : IsClose(k)
      BY <2>3 DEF ClosedInv
    <3>2. Evening' /\ now < now'
      BY <2>1, <3>1, EveningStays
    <3>3. \A k \in Contracts : IsClose(k)'
      BY <1>0, <2>1, <3>1, <3>2 DEF IsClose
    <3> QED BY <3>2, <3>3
  <2>4. CASE ~(uploading # "no" \/ sent # {} \/ day \in noted)
    <3>1. day' = day + 1 /\ day + 1 \in noted
      BY <2>1, <2>4 DEF Later
    <3>2. day + 1 <= day
      BY <3>1 DEF ListInv
    <3> QED BY <1>0, <3>2
  <2> QED BY <2>3, <2>4
<1>2. CASE MonitorKills \/ Crash \/ Start
  BY <1>2 DEF MonitorKills, Crash, Start, Die, ClosedInv
<1>3. CASE Serve
  <2>1. uploading' = "no" /\ sent' = {} /\ noted' = {}
    BY <1>3 DEF Serve, upload, MemoryInv
  <2> QED BY <2>1 DEF ClosedInv
<1>4. ASSUME UNCHANGED <<day, tick, killed>>, process = "serving", emptied' = FALSE => emptied = FALSE,
             (uploading' # "no" \/ sent' # {} \/ day \in noted')
                => (uploading # "no" \/ sent # {} \/ day \in noted)
      PROVE  ClosedInv'
  BY <1>4 DEF ClosedInv, Evening, IsClose, Workday, now
<1>5. CASE InitHeYueLieBiao
  <2>1. /\ UNCHANGED <<day, tick, killed, uploading, sent, noted>>
        /\ process = "serving" /\ (emptied' = emptied \/ emptied' = TRUE)
    BY <1>5 DEF InitHeYueLieBiao, clock, upload
  <2> QED BY <1>4, <2>1
<1>6. CASE TimerCompressTick
  <2>1. /\ UNCHANGED <<day, tick, killed, uploading, noted, emptied>>
        /\ process = "serving" /\ (sent' = sent \/ sent' = {})
    BY <1>6 DEF TimerCompressTick, ClearCache, upload
  <2> QED BY <1>4, <2>1
<1>7. CASE TimerUploadData
  <2>1. CASE UploadDue
    <3>1. Evening /\ (~emptied => \A k \in Contracts : IsClose(k))
      BY <1>7, <2>1, DueIs DEF TimerUploadData
    <3>2. UNCHANGED <<day, tick, killed, emptied>>
      BY <1>7 DEF TimerUploadData, memory
    <3> QED BY <3>1, <3>2 DEF ClosedInv, Evening, IsClose, Workday, now
  <2>2. CASE ~UploadDue
    <3>1. UNCHANGED <<day, tick, killed, uploading, noted, emptied, sent>> /\ process = "serving"
      BY <1>7, <2>2 DEF TimerUploadData, memory, upload
    <3> QED BY <1>4, <3>1
  <2> QED BY <2>1, <2>2
<1>8. CASE UploadHeyueLiebiao
  <2>1. /\ uploading = "list" /\ UNCHANGED <<day, tick, killed, emptied>>
    BY <1>8 DEF UploadHeyueLiebiao, clock
  <2>2. process = "serving"
    BY <2>1 DEF MemoryInv
  <2> QED BY <1>4, <2>1, <2>2
<1>9. CASE UploadEnds
  <2>1. /\ uploading = "bars" /\ UNCHANGED <<day, tick, killed, emptied>>
    BY <1>9 DEF UploadEnds, memory
  <2>2. process = "serving"
    BY <2>1 DEF MemoryInv
  <2> QED BY <1>4, <2>1, <2>2
<1>10. ASSUME NEW k \in Contracts, Trade(k) PROVE ClosedInv'
  <2>1. UNCHANGED <<day, tick, killed, uploading, noted, emptied, sent>> /\ process = "serving"
    BY <1>10 DEF Trade, clock, upload
  <2> QED BY <1>4, <2>1
<1>11. ASSUME NEW k \in Contracts, AppendSucceeds(k) \/ AppendFails(k) PROVE ClosedInv'
  <2>1. k \in todo /\ UNCHANGED <<day, tick, killed, emptied>>
    BY <1>11 DEF AppendSucceeds, AppendFails, clock, memory
  <2>2. uploading # "no" /\ process = "serving"
    BY <2>1 DEF UploadInv, MemoryInv
  <2> QED BY <1>4, <2>1, <2>2
<1>12. CASE UNCHANGED vars
  BY <1>12 DEF vars, clock, memory, upload, ClosedInv, Evening, IsClose, Workday, now
<1> QED BY <1>1, <1>2, <1>3, <1>5, <1>6, <1>7, <1>8, <1>9, <1>10, <1>11, <1>12 DEF Next

LEMMA DoneStep ==
    ASSUME FullInv, [Next]_vars
    PROVE  DoneInv'
<1> USE DEF FullInv
<1>0. day \in Nat /\ now \in Nat
  BY DaysAre
<1>1. CASE Tick
  <2>1. Later /\ now' \in Nat
    BY <1>1, TickIs
  <2>2. UNCHANGED <<process, memory, upload, storage>> /\ ran' = {}
    BY <2>1 DEF Later
  <2>3. CASE day' = day /\ now < now'
    <3>1. now' < 190000 => now < 190000
      BY <1>0, <2>1, <2>3, SMT
    <3> QED BY <2>2, <2>3, <3>1 DEF DoneInv, memory, upload, storage
  <2>4. CASE day' = day + 1
    <3>1. day' \notin noted
      BY <1>0, <2>4 DEF ListInv
    <3> QED BY <2>2, <3>1 DEF DoneInv, memory, upload, storage
  <2> QED BY <2>1, <2>3, <2>4 DEF Later
<1>2. CASE MonitorKills \/ Crash \/ Start
  BY <1>2 DEF MonitorKills, Crash, Start, Die, DoneInv
<1>3. CASE Serve
  <2>1. uploading' = "no" /\ sent' = {} /\ noted' = {} /\ ran' = {}
    BY <1>3 DEF Serve, upload, MemoryInv
  <2> QED BY <2>1 DEF DoneInv
<1>4. ASSUME UNCHANGED <<day, tick, process, started, listed, emptied, bars, sent, noted, upload, storage>>,
             "upload" \in ran' => "upload" \in ran
      PROVE  DoneInv'
  <2>1. now' = now /\ (UploadDue' <=> UploadDue)
    BY <1>4 DEF now, UploadDue, IsTradeDayAllClose, IsClose, HasUpload, IsInUploadTime
  <2> QED BY <1>4, <2>1 DEF DoneInv, upload, storage
<1>5. CASE InitHeYueLieBiao
  <2>1. CASE ~emptied'
    <3>1. listed' = Contracts /\ emptied = FALSE /\ emptied' = FALSE /\ process = "serving"
      BY <1>5, <2>1 DEF InitHeYueLieBiao, Types
    <3>2. listed' = listed
      BY <3>1 DEF MemoryInv
    <3> QED BY <1>4, <1>5, <3>1, <3>2 DEF InitHeYueLieBiao, clock
  <2>2. CASE emptied'
    BY <2>2 DEF DoneInv
  <2> QED BY <2>1, <2>2
<1>6. CASE TimerCompressTick
  <2>1. /\ UNCHANGED <<day, tick, process, started, listed, emptied, noted, upload, stored,
                        tradeDays, unlisted>>
        /\ process = "serving" /\ uploading = "no" /\ ("upload" \in ran' => "upload" \in ran)
    BY <1>6 DEF TimerCompressTick
  <2>2. now' = now /\ (UploadDue' <=> UploadDue)
    BY <2>1 DEF now, UploadDue, IsTradeDayAllClose, IsClose, HasUpload, IsInUploadTime
  <2>3. CASE bars' = bars /\ sent' = sent
    BY <2>1, <2>2, <2>3 DEF DoneInv, upload
  <2>4. CASE sent' = {} /\ now >= 193000
    <3>1. ~(now < 190000)
      BY <1>0, <2>4, SMT
    <3>2. ~UploadDue
      BY <2>1, <3>1, DueIs
    <3> QED BY <2>1, <2>2, <2>4, <3>1, <3>2 DEF DoneInv, upload
  <2> QED BY <1>6, <2>3, <2>4, ClearTimeIs DEF TimerCompressTick, ClearCache
<1>7. CASE TimerUploadData
  <2>1. UNCHANGED <<day, tick, process, started, memory, storage>> /\ process = "serving"
    BY <1>7 DEF TimerUploadData
  <2>2. now' = now /\ (UploadDue' <=> UploadDue)
    BY <2>1 DEF now, UploadDue, IsTradeDayAllClose, IsClose, HasUpload, IsInUploadTime, memory
  <2>3. CASE UploadDue
    <3>1. uploading' = "list"
      BY <1>7, <2>3 DEF TimerUploadData
    <3> QED BY <2>1, <2>2, <3>1 DEF DoneInv, memory, storage
  <2>4. CASE ~UploadDue
    <3>1. UNCHANGED upload
      BY <1>7, <2>4 DEF TimerUploadData
    <3> QED BY <2>1, <2>2, <2>4, <3>1 DEF DoneInv, memory, storage, upload
  <2> QED BY <2>3, <2>4
<1>8. CASE UploadHeyueLiebiao
  <2>1. /\ uploading = "list" /\ uploading' = "bars" /\ noted' = noted \cup {day}
        /\ UNCHANGED <<day, tick, emptied, bars, sent, refused, stored>>
        /\ todo' = {k \in Contracts : bars[k] # {}} \ sent
    BY <1>8 DEF UploadHeyueLiebiao, clock
  <2>2. now' = now /\ process = "serving" /\ ~Late
    BY <2>1 DEF now, MemoryInv, UploadInv
  <2>3. day \in noted' \ unlisted' /\ now < 190000 /\ ~emptied =>
          (day \in Range(tradeDays') <=> bars # NoBars)
    <3>1. CASE day \in noted
      BY <1>8, <2>2, <3>1 DEF UploadHeyueLiebiao, DoneInv
    <3>2. CASE day \notin noted /\ bars = NoBars
      <4>1. tradeDays' = tradeDays
        BY <1>8, <3>2 DEF UploadHeyueLiebiao
      <4>2. day \notin Range(tradeDays)
        BY <2>2, <3>2 DEF ListInv
      <4> QED BY <3>2, <4>1, <4>2
    <3>3. CASE day \notin noted /\ bars # NoBars
      <4>1. AppendDate
        BY <1>8, <3>3 DEF UploadHeyueLiebiao
      <4>2. day \in unlisted' \/ (/\ Len(tradeDays) \in Nat
                                  /\ DOMAIN tradeDays' = 1..(Len(tradeDays) + 1)
                                  /\ tradeDays'[Len(tradeDays) + 1] = day)
        BY <4>1, AppendDateIs
      <4>3. day \in unlisted' \/ day \in Range(tradeDays')
        <5> DEFINE n == Len(tradeDays)
        <5>1. ASSUME n \in Nat, DOMAIN tradeDays' = 1..(n + 1), tradeDays'[n + 1] = day
              PROVE  day \in Range(tradeDays')
          <6>1. n + 1 \in DOMAIN tradeDays'
            BY <5>1
          <6> QED BY <5>1, <6>1 DEF Range
        <5> QED BY <4>2, <5>1
      <4> QED BY <3>3, <4>3
    <3> QED BY <3>1, <3>2, <3>3
  <2>4. ~emptied => \A k \in sent : bars[k] \subseteq stored[k]
    BY <2>2 DEF DoneInv
  <2> QED BY <2>1, <2>2, <2>3, <2>4 DEF DoneInv
<1>9. CASE UploadEnds
  <2>1. /\ uploading = "bars" /\ todo = {} /\ uploading' = "no"
        /\ UNCHANGED <<day, tick, process, emptied, bars, sent, noted, refused, stored, tradeDays,
                       unlisted>>
    BY <1>9 DEF UploadEnds, memory, storage
  <2>2. process = "serving" /\ day \in noted /\ now' = now
    BY <2>1 DEF MemoryInv, UploadInv, now
  <2> QED BY <2>1, <2>2 DEF DoneInv
<1>10. ASSUME NEW k \in Contracts, Trade(k) PROVE DoneInv'
  <2>1. /\ UNCHANGED <<day, tick, started, listed, ran, uploading, noted, emptied, sent>>
        /\ process = "serving" /\ InSession(k)
    BY <1>10 DEF Trade, clock, upload
  <2>2. now' = now /\ (UploadDue' <=> UploadDue)
    BY <2>1 DEF now, UploadDue, IsTradeDayAllClose, IsClose, HasUpload, IsInUploadTime
  <2>3. ~emptied => uploading = "no" /\ sent = {} /\ day \notin noted
    BY <2>1, ClosedIs DEF ClosedInv
  <2>4. ~emptied => ~("upload" \in ran /\ UploadDue)
    BY <2>1, <2>3 DEF DoneInv
  <2> QED BY <2>1, <2>2, <2>3, <2>4 DEF DoneInv
<1>11. ASSUME NEW k \in todo, todo' = todo \ {k}, sent' \cup refused' = sent \cup refused \cup {k},
              \A j \in sent' : bars[j] \subseteq stored'[j] \/ (j \in sent /\ stored[j] \subseteq stored'[j]),
              UNCHANGED <<day, tick, process, emptied, bars, noted, uploading, tradeDays, unlisted>>
       PROVE  DoneInv'
  <2>1. uploading = "bars" /\ now' = now
    BY <1>11 DEF UploadInv, now
  <2> SUFFICES ASSUME process = "serving", ~emptied
               PROVE  /\ \A j \in sent' : bars[j] \subseteq stored'[j]
                      /\ \A j \in Contracts : bars[j] # {} => j \in sent' \cup todo' \cup refused'
    BY <1>11, <2>1 DEF DoneInv
  <2>2. \A j \in sent' : bars[j] \subseteq stored'[j]
    BY <1>11 DEF DoneInv
  <2>3. \A j \in Contracts : bars[j] # {} => j \in sent \cup todo \cup refused
    BY <2>1 DEF DoneInv
  <2>4. sent \cup todo \cup refused \subseteq sent' \cup todo' \cup refused'
    BY <1>11
  <2> QED BY <2>2, <2>3, <2>4
<1>12. ASSUME NEW k \in Contracts, AppendSucceeds(k) PROVE DoneInv'
  <2>1. /\ k \in todo /\ todo' = todo \ {k} /\ sent' = sent \cup {k} /\ refused' = refused
        /\ UNCHANGED <<day, tick, process, emptied, bars, noted, uploading, tradeDays, unlisted>>
    BY <1>12 DEF AppendSucceeds, clock
  <2>2. stored'[k] = stored[k] \cup bars[k] /\ \A j \in Contracts : j # k => stored'[j] = stored[j]
    BY <1>12, AppendedIs DEF AppendSucceeds
  <2>3. \A j \in sent' : bars[j] \subseteq stored'[j] \/ (j \in sent /\ stored[j] \subseteq stored'[j])
    BY <2>1, <2>2 DEF Types
  <2>4. sent' \cup refused' = sent \cup refused \cup {k}
    BY <2>1
  <2> QED BY <1>11, <2>1, <2>3, <2>4
<1>13. ASSUME NEW k \in Contracts, AppendFails(k) PROVE DoneInv'
  <2>1. /\ k \in todo /\ todo' = todo \ {k} /\ sent' = sent /\ refused' = refused \cup {k}
        /\ UNCHANGED <<day, tick, process, emptied, bars, noted, uploading, tradeDays, unlisted>>
    BY <1>13 DEF AppendFails, clock, memory
  <2>2. \A j \in Contracts : stored[j] \subseteq stored'[j]
    <3>1. CASE stored' = stored
      BY <3>1
    <3>2. CASE Appended(k)
      BY <3>2, AppendedIs
    <3> QED BY <1>13, <3>1, <3>2 DEF AppendFails
  <2>3. \A j \in sent' : bars[j] \subseteq stored'[j] \/ (j \in sent /\ stored[j] \subseteq stored'[j])
    BY <2>1, <2>2 DEF Types
  <2>4. sent' \cup refused' = sent \cup refused \cup {k}
    BY <2>1
  <2> QED BY <1>11, <2>1, <2>3, <2>4
<1>14. CASE UNCHANGED vars
  BY <1>4, <1>14 DEF vars, clock, memory
<1> QED BY <1>1, <1>2, <1>3, <1>5, <1>6, <1>7, <1>8, <1>9, <1>10, <1>12, <1>13, <1>14 DEF Next

LEMMA InitFull == Init => FullInv
<1> SUFFICES ASSUME Init PROVE FullInv
  OBVIOUS
<1>1. IInv /\ Types
  BY InvInit, InitTypes
<1>2. MemoryInv
  BY NoBarsType DEF Init, MemoryInv
<1>3. StartInv
  <2>1. day = FirstDay /\ started[1] = FirstDay /\ started[2] = now /\ day \in Nat /\ now \in Nat
    BY <1>1, DaysAre DEF Init, now
  <2> QED BY <2>1 DEF StartInv
<1>4. UploadInv /\ ClosedInv /\ DoneInv
  BY DEF Init, UploadInv, ClosedInv, DoneInv
<1>5. StoredInv
  BY NoBarsType DEF Init, StoredInv
<1>6. ListInv
  BY DEF Init, ListInv, Range
<1> QED BY <1>1, <1>2, <1>3, <1>4, <1>5, <1>6 DEF FullInv

LEMMA FullStep == FullInv /\ [Next]_vars => FullInv'
BY Step, TypesStep, MemoryStep, StartStep, UploadStep, StoredStep, ListStep, ClosedStep, DoneStep
   DEF FullInv

LEMMA DateIsWorkday ==
    ASSUME NEW d \in Nat, NEW t \in Nat
    PROVE  Workday(GetTradeDateInt(d, t))
<1>1. CASE Weekday(d) = 6
  <2>1. Weekday(d + 2) = 1
    BY <1>1 DEF Weekday
  <2> QED BY <1>1, <2>1 DEF GetTradeDateInt, DateBy, Workday
<1>2. CASE Weekday(d) = 5
  <2>1. Weekday(d + 3) = 1
    BY <1>2 DEF Weekday
  <2> QED BY <1>2, <2>1 DEF GetTradeDateInt, DateBy, Workday
<1>3. CASE Weekday(d) \in 0..4
  <2>1. Weekday(d + 1) = Weekday(d) + 1
    BY <1>3, WeekdayNext
  <2> QED BY <1>3, <2>1 DEF GetTradeDateInt, DateBy, Workday
<1> QED BY <1>1, <1>2, <1>3, WeekdayRange

\* The date, the clock, the memory of the process, the files and object storage are
\* what they should be; a trade date is a workday.
THEOREM TypeCorrect == Spec => []TypeOK
<1>1. FullInv => TypeOK
  <2> SUFFICES ASSUME FullInv PROVE TypeOK
    OBVIOUS
  <2> USE DEF FullInv
  <2>1. tradeDate \in {0} \cup {d \in FirstDay..(LastDay + 3) : Workday(d)}
    <3>0. day \in Nat /\ now \in Nat /\ FirstDay \in Nat /\ LastDay \in Nat
          /\ FirstDay <= day /\ day <= LastDay
      BY DaysAre
    <3>1. CASE process # "serving"
      BY <3>1 DEF MemoryInv
    <3>2. CASE tradeDate = GetTradeDateInt(day, now)
      <4>1. tradeDate \in day..(day + 3) /\ Workday(tradeDate)
        BY <3>0, <3>2, DateRange, DateIsWorkday
      <4> QED BY <3>0, <4>1
    <3>3. CASE Stale
      <4>1. tradeDate = day /\ Workday(tradeDate)
        BY <3>3 DEF Stale
      <4> QED BY <3>0, <4>1
    <3> QED BY <3>1, <3>2, <3>3 DEF IInv, DateInv
  <2>2. \A k \in Contracts : \A f \in file[k] : f[1] \in Nat /\ f[2] \in Bar
    BY DEF Types
  <2> QED BY <2>1, <2>2 DEF Types, TypeOK
<1> QED BY <1>1, InitFull, FullStep, PTL DEF Spec

\* No bar and no date is appended to object storage twice: not by a second upload of the
\* same process (g_setUpload1MQuoteId, g_setUploadTradeDate), not after the nightly
\* ClearCache that forgets the first, and not by a process restarted with the bars of
\* its file (HasUpload), whenever it crashes; except after an answer that lied.
THEOREM NothingTwice == Spec => []AppendedOnce
<1>1. FullInv => AppendedOnce
  BY DEF FullInv, StoredInv, ListInv, AppendedOnce
<1> QED BY <1>1, InitFull, FullStep, PTL DEF Spec

\* When the upload of the afternoon has been through, object storage has every bar of
\* the day that is in memory, and TradeDay.LIST has the day exactly if there are any.
THEOREM UploadComplete == Spec => []NothingLeftBehind
<1>1. FullInv => NothingLeftBehind
  <2> SUFFICES ASSUME FullInv, process = "serving", UploadDue, "upload" \in ran, ~emptied
               PROVE  /\ \A k \in Contracts \ refused : bars[k] \subseteq stored[k]
                      /\ day \notin unlisted => (day \in Range(tradeDays) <=> bars # NoBars)
    BY DEF NothingLeftBehind
  <2> USE DEF FullInv
  <2>1. uploading = "no" /\ now < 190000
    BY DueIs DEF UploadInv
  <2>2. /\ \A k \in sent : bars[k] \subseteq stored[k]
        /\ \A k \in Contracts : bars[k] # {} => k \in sent \cup refused
        /\ day \in noted
    BY <2>1 DEF DoneInv
  <2>3. day \notin unlisted => (day \in Range(tradeDays) <=> bars # NoBars)
    BY <2>1, <2>2 DEF DoneInv
  <2>4. ASSUME NEW k \in Contracts \ refused PROVE bars[k] \subseteq stored[k]
    <3>1. CASE bars[k] = {}
      BY <3>1
    <3>2. CASE bars[k] # {}
      BY <2>2, <2>4, <3>2
    <3> QED BY <3>1, <3>2
  <2> QED BY <2>3, <2>4
<1> QED BY <1>1, InitFull, FullStep, PTL DEF Spec
=============================================================================
