------------------------------ MODULE TradeDay ------------------------------
(***************************************************************************)
(* The trade date through a week, and what depends on it: the date that    *)
(* quotes must have to be stored (g_iCurTradeDate), the nightly ClearCache *)
(* and the kill by restart_monitor.sh, the files the bars are saved to and *)
(* recovered from, and the upload of the bars to object storage after the  *)
(* close (TimerUploadData).                                                *)
(*                                                                         *)
(* Dates are numbers of days; day 0 is a Sunday.  Times of day are hhmmss. *)
(* A trade date begins the evening before, Monday's on Friday evening.     *)
(*                                                                         *)
(* NoWeekend, NoMonitor, AnyClose and Forgets are mutated forms used by    *)
(* the tests of the properties only.                                       *)
(***************************************************************************)
EXTENDS Naturals, Sequences, Functions

CONSTANTS
    Contracts,
    CloseAt,        \* when the last session of a contract's product ends
    Times,          \* the times of day the clock shows, in ascending order
    FirstDay, LastDay,  \* bound: the days the clock runs through
    MaxCrashes,     \* bound: how often the process dies other than by the monitor
    MaxFailures,    \* bound: uploads that fail
    MaxIdle         \* bound: clock times that pass without timers

TimeOfDay == 0..235959

ASSUME CalendarAssumption ==
    /\ FirstDay \in Nat /\ LastDay \in Nat /\ FirstDay <= LastDay
    /\ Times \in Seq(TimeOfDay) /\ Len(Times) > 0
    /\ CloseAt \in [Contracts -> TimeOfDay]

\* The clock shows the time of the nightly kill, and every contract closes before the
\* next trade date begins.
ASSUME EveningAssumption ==
    /\ \A i, j \in DOMAIN Times : i < j => Times[i] < Times[j]
    /\ \E i \in DOMAIN Times : Times[i] = 203500
    /\ \A k \in Contracts : CloseAt[k] < 200000

ASSUME FaultsAssumption == MaxCrashes \in Nat /\ MaxFailures \in Nat /\ MaxIdle \in Nat

VARIABLES
    day, tick,      \* the date and the place in Times of the present time
    ran,            \* the timers that fired since the clock moved
    killed,         \* restart_monitor.sh has killed the process today
    process,        \* whether main() runs and has opened the port
    started,        \* g_tServerStartTime
    tradeDate,      \* g_iCurTradeDate
    listed,         \* the contracts in g_mapOptionIDs
    emptied,        \* a contract list failed since the start (history)
    cleared,        \* s_LastClearCacheTime, in seconds, 0 if never
    bars,           \* g_map1MinKlineDay
    sent,           \* g_setUpload1MQuoteId
    noted,          \* g_setUploadTradeDate
    todo,           \* the contracts UploadKLine has not come to, in an upload
    uploading,      \* where the timer thread is in UploadDataToAliOSS
    file,           \* <<date of the file, bar>>, the local files of bars
    stored,         \* the bars in object storage
    tradeDays,      \* TradeDay.LIST in object storage
    twice,          \* the bars appended more than once (history)
    refused,        \* contracts whose last upload failed (history)
    unlisted,       \* dates whose append to TradeDay.LIST failed (history)
    doubtful,       \* an upload was reported as failed but was done (history)
    crashes, failures, idle

clock == <<day, tick, ran, killed, idle>>
memory == <<tradeDate, listed, emptied, cleared, bars, sent, noted>>
upload == <<todo, uploading, refused>>
storage == <<file, stored, tradeDays, twice, unlisted, doubtful, failures>>
vars == <<clock, process, started, memory, upload, storage, crashes>>

-----------------------------------------------------------------------------
(* The calendar *)

now == Times[tick]
Weekday(d) == d % 7
Workday(d) == Weekday(d) \in 1..5
Seconds(d, hms) == d * 86400 + (hms \div 10000) * 3600 + ((hms \div 100) % 100) * 60 + (hms % 100)

\* GetTradeDateInt; the second form is the one with bClearCache.
DateBy(d, hms, delimiter) ==
    CASE Weekday(d) = 6 -> d + 2
      [] Weekday(d) = 5 /\ hms >= delimiter -> d + 3
      [] Weekday(d) = 0 \/ (Weekday(d) \in 1..4 /\ hms >= delimiter) -> d + 1
      [] OTHER -> d
NoWeekend(d, hms) == IF hms >= 200000 THEN d + 1 ELSE d
GetTradeDateInt(d, hms) == DateBy(d, hms, 200000)

\* The pause before the night session; the date must not have changed yet.
IsInClearCacheTime ==
    /\ now \in 193000..195959
    /\ DateBy(day, now, 210000) = day

\* When contract k trades: by day, at night, and after midnight.
InSession(k) ==
    \/ Workday(day) /\ now >= 90000 /\ now <= CloseAt[k]
    \/ Workday(day) /\ now >= 210000
    \/ Weekday(day) \in 2..6 /\ now <= 23000

Bar == [date : FirstDay..(LastDay + 3), day : FirstDay..LastDay, time : {Times[i] : i \in DOMAIN Times}]

NewBar == [date |-> GetTradeDateInt(day, now), day |-> day, time |-> now]

-----------------------------------------------------------------------------
NoBars == [k \in Contracts |-> {}]

Init ==
    /\ day = FirstDay /\ tick = 1 /\ ran = {} /\ killed = FALSE
    /\ process = "down" /\ started = <<FirstDay, Times[1]>>
    /\ tradeDate = 0 /\ listed = {} /\ emptied = FALSE /\ cleared = 0
    /\ bars = NoBars /\ sent = {} /\ noted = {}
    /\ todo = {} /\ uploading = "no" /\ refused = {}
    /\ file = NoBars /\ stored = NoBars /\ tradeDays = <<>> /\ twice = NoBars /\ unlisted = {}
    /\ doubtful = FALSE /\ failures = 0 /\ crashes = 0 /\ idle = 0

-----------------------------------------------------------------------------
(* The clock and restart_monitor.sh *)

\* The script wakes at 20:35 and kills on workdays.
NoMonitor == FALSE
KillDue == now = 203500 /\ Workday(day) /\ ~killed

\* Between two times of the clock every timer fires, unless an upload keeps the
\* timer thread busy, and every contract in session trades.
Tick ==
    /\ ~KillDue
    /\ IF process = "serving" /\ uploading = "no"
       THEN /\ ran = {"compress", "upload"}
            /\ \A k \in Contracts : InSession(k) => NewBar \in bars[k]
            /\ UNCHANGED idle
       ELSE /\ idle < MaxIdle
            /\ idle' = idle + 1
    /\ IF tick < Len(Times)
       THEN tick' = tick + 1 /\ UNCHANGED <<day, killed>>
       ELSE day < LastDay /\ day' = day + 1 /\ tick' = 1 /\ killed' = FALSE
    /\ ran' = {}
    /\ UNCHANGED <<process, started, memory, upload, storage, crashes>>

Die ==
    /\ process' = "down"
    /\ tradeDate' = 0 /\ listed' = {} /\ emptied' = FALSE /\ cleared' = 0
    /\ bars' = NoBars /\ sent' = {} /\ noted' = {}
    /\ todo' = {} /\ uploading' = "no" /\ refused' = {}
    /\ UNCHANGED <<day, tick, ran, idle, started, storage>>

MonitorKills == KillDue /\ killed' = TRUE /\ Die /\ UNCHANGED crashes

Crash ==
    /\ process # "down"
    /\ crashes < MaxCrashes
    /\ crashes' = crashes + 1
    /\ Die /\ UNCHANGED killed

-----------------------------------------------------------------------------
(* main() *)

Start ==
    /\ process = "down"
    /\ process' = "starting"
    /\ started' = <<day, now>>
    /\ UNCHANGED <<clock, memory, upload, storage, crashes>>

\* The contract list comes, which may be long after Start; RecoverM1 reads the file
\* of the date; OnCmdStart opens the port and sets g_iCurTradeDate.
Serve ==
    /\ process = "starting"
    /\ process' = "serving"
    /\ listed' = Contracts
    /\ tradeDate' = GetTradeDateInt(day, now)
    /\ bars' = [k \in Contracts |->
           IF IsInClearCacheTime THEN {}
           ELSE {f[2] : f \in {g \in file[k] : g[1] = GetTradeDateInt(day, now)}}]
    /\ ran' = {}
    /\ UNCHANGED <<day, tick, killed, idle, started, emptied, cleared, sent, noted, upload,
                   storage, crashes>>

\* InitHeYueLieBiao with a list that parses, or one that does not.
InitHeYueLieBiao ==
    /\ process = "serving"
    /\ \/ listed = {} /\ listed' = Contracts /\ UNCHANGED emptied
       \/ ~emptied /\ listed' = {} /\ emptied' = TRUE
    /\ UNCHANGED <<clock, process, started, tradeDate, cleared, bars, sent, noted, upload,
                   storage, crashes>>

\* A bar of the session (see KLine for how it comes about).
Trade(k) ==
    /\ process = "serving"
    /\ InSession(k)
    /\ NewBar \notin bars[k]
    /\ bars' = [bars EXCEPT ![k] = @ \cup {NewBar}]
    /\ UNCHANGED <<clock, process, started, tradeDate, listed, emptied, cleared, sent, noted,
                   upload, storage, crashes>>

-----------------------------------------------------------------------------
(* The timer thread *)

\* SaveKLine: all bars in memory go to the file of the newest bar's date.
SaveKLine ==
    file' = [k \in Contracts |->
        IF bars[k] = {} THEN file[k]
        ELSE LET newest == CHOOSE b \in bars[k] : \A c \in bars[k] : c.date <= b.date
             IN  {f \in file[k] : f[1] # newest.date} \cup {<<newest.date, b>> : b \in bars[k]}]

ClearCache ==
    IF IsInClearCacheTime /\ (cleared = 0 \/ Seconds(day, now) >= cleared + 23 * 3600)
    THEN /\ cleared' = Seconds(day, now)
         /\ tradeDate' = GetTradeDateInt(day, now)
         /\ bars' = NoBars /\ sent' = {}
    ELSE UNCHANGED <<cleared, tradeDate, bars, sent>>

TimerCompressTick ==
    /\ process = "serving" /\ uploading = "no"
    /\ "compress" \notin ran
    /\ ran' = ran \cup {"compress"}
    /\ SaveKLine
    /\ ClearCache
    /\ UNCHANGED <<day, tick, killed, idle, process, started, listed, emptied, noted, upload,
                   stored, tradeDays, twice, unlisted, doubtful, failures, crashes>>

IsClose(k) == now > CloseAt[k] + 10
AnyClose ==
    /\ GetTradeDateInt(day, now) = day
    /\ \E k \in listed : IsClose(k)
IsTradeDayAllClose ==
    /\ GetTradeDateInt(day, now) = day
    /\ \A k \in listed : IsClose(k)

\* A process started after 15:00 takes the upload of that day for done.
Forgets == FALSE
HasUpload ==
    /\ started[1] = day
    /\ GetTradeDateInt(started[1], started[2]) = day
    /\ started[2] \div 10000 \in 15..19

IsInUploadTime == now \div 10000 \in 15..18
UploadDue == IsTradeDayAllClose /\ ~HasUpload /\ IsInUploadTime

TimerUploadData ==
    /\ process = "serving" /\ uploading = "no"
    /\ "upload" \notin ran
    /\ IF UploadDue
       THEN /\ uploading' = "list"
            /\ refused' = {}
            /\ UNCHANGED <<ran, todo>>
       ELSE ran' = ran \cup {"upload"} /\ UNCHANGED upload
    /\ UNCHANGED <<day, tick, killed, idle, process, started, memory, storage, crashes>>

\* UploadHeyueLiebiao appends the date to TradeDay.LIST if there are bars, and takes
\* it for listed whatever the answer.  The date is that of the day: the kill at 20:35
\* ends every upload.
AppendDate ==
    \/ tradeDays' = Append(tradeDays, day) /\ UNCHANGED <<failures, doubtful, unlisted>>
    \/ /\ failures < MaxFailures
       /\ failures' = failures + 1
       /\ \/ UNCHANGED <<tradeDays, doubtful>>
          \/ tradeDays' = Append(tradeDays, day) /\ doubtful' = TRUE
       /\ unlisted' = unlisted \cup {day}

UploadHeyueLiebiao ==
    /\ uploading = "list"
    /\ IF day \notin noted /\ bars # NoBars
       THEN AppendDate
       ELSE UNCHANGED <<tradeDays, failures, doubtful, unlisted>>
    /\ noted' = noted \cup {day}
    /\ uploading' = "bars"
    /\ todo' = {k \in Contracts : bars[k] # {}} \ sent
    /\ UNCHANGED <<clock, process, started, tradeDate, listed, emptied, cleared, bars, sent,
                   refused, file, stored, twice, crashes>>

Appended(k) ==
    /\ stored' = [stored EXCEPT ![k] = @ \cup bars[k]]
    /\ twice' = [twice EXCEPT ![k] = @ \cup (bars[k] \cap stored[k])]

\* The loop of UploadKLine: AppendAliOSS downloads, appends and uploads; its answer
\* decides whether the contract is marked.
AppendSucceeds(k) ==
    /\ k \in todo
    /\ Appended(k)
    /\ sent' = sent \cup {k}
    /\ todo' = todo \ {k}
    /\ UNCHANGED <<clock, process, started, tradeDate, listed, emptied, cleared, bars, noted,
                   uploading, refused, file, tradeDays, unlisted, doubtful, failures, crashes>>

AppendFails(k) ==
    /\ k \in todo
    /\ failures < MaxFailures
    /\ failures' = failures + 1
    /\ \/ UNCHANGED <<stored, twice, doubtful>>
       \/ Appended(k) /\ doubtful' = TRUE
    /\ refused' = refused \cup {k}
    /\ todo' = todo \ {k}
    /\ UNCHANGED <<clock, process, started, memory, uploading, file, tradeDays, unlisted, crashes>>

UploadEnds ==
    /\ uploading = "bars" /\ todo = {}
    /\ uploading' = "no"
    /\ ran' = ran \cup {"upload"}
    /\ UNCHANGED <<day, tick, killed, idle, process, started, memory, todo, refused, storage, crashes>>

-----------------------------------------------------------------------------
Next ==
    \/ Tick \/ MonitorKills \/ Crash
    \/ Start \/ Serve \/ InitHeYueLieBiao
    \/ TimerCompressTick \/ TimerUploadData \/ UploadHeyueLiebiao \/ UploadEnds
    \/ \E k \in Contracts : Trade(k) \/ AppendSucceeds(k) \/ AppendFails(k)

Spec == Init /\ [][Next]_vars

-----------------------------------------------------------------------------
(* Properties *)

\* Type invariant; a trade date is a workday.
TypeOK ==
    /\ day \in FirstDay..LastDay /\ tick \in DOMAIN Times
    /\ ran \subseteq {"compress", "upload"} /\ killed \in BOOLEAN
    /\ process \in {"down", "starting", "serving"}
    /\ started \in (FirstDay..LastDay) \X {Times[i] : i \in DOMAIN Times}
    /\ tradeDate \in {0} \cup {d \in FirstDay..(LastDay + 3) : Workday(d)} /\ cleared \in Nat
    /\ {listed, sent, todo, refused} \subseteq SUBSET Contracts
    /\ {emptied, doubtful} \subseteq BOOLEAN /\ uploading \in {"no", "list", "bars"}
    /\ {bars, stored, twice} \subseteq [Contracts -> SUBSET Bar]
    /\ \A k \in Contracts : \A f \in file[k] : f[1] \in Nat /\ f[2] \in Bar
    /\ tradeDays \in Seq(FirstDay..LastDay) /\ noted \cup unlisted \subseteq FirstDay..LastDay
    /\ crashes \in 0..MaxCrashes /\ failures \in 0..MaxFailures /\ idle \in 0..MaxIdle

\* The trade date of an instant: that of the next workday, from 20:00 on.
NextWorkday(d) == CHOOSE e \in d..(d + 6) : Workday(e) /\ \A f \in d..(e - 1) : ~Workday(f)
TradeDateOf(d, hms) == NextWorkday(IF hms >= 200000 THEN d + 1 ELSE d)

\* Whenever a contract trades, the date quotes must carry to be stored is the date
\* they do carry, by night, over a weekend and after any restart.
DateRight ==
    process = "serving" /\ (\E k \in Contracts : InSession(k)) =>
        tradeDate = TradeDateOf(day, now)

\* A bar is appended to object storage once, and so is a date to TradeDay.LIST,
\* whatever crashes and restarts come between, except after an upload that was done
\* but reported as failed.
AppendedOnce ==
    doubtful \/ (twice = NoBars /\ \A i, j \in DOMAIN tradeDays : i # j => tradeDays[i] # tradeDays[j])

\* What is in memory of a date is in object storage when the upload has been through
\* in the afternoon, except contracts whose upload failed, days when the process was
\* started after 15:00, and days when a contract list failed.  TradeDay.LIST has the
\* date then exactly if there were bars of it, unless its append failed.
NothingLeftBehind ==
    process = "serving" /\ UploadDue /\ "upload" \in ran /\ ~emptied =>
        /\ \A k \in Contracts \ refused : bars[k] \subseteq stored[k]
        /\ day \notin unlisted => (day \in Range(tradeDays) <=> bars # NoBars)
=============================================================================
