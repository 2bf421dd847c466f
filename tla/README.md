# EjiaOptionServer in TLA+

EjiaOptionServer distributes option quotes. It receives the same quotes from two forwarding
servers, removes duplicates, keeps for every option the newest quote, the recent full ticks, the
incremental ticks of the day and the 1-minute, 5-minute and day bars, pushes quotes to front-end
gateways and answers their queries, saves everything every five minutes, clears it every evening and
recovers it from the files after a restart. These modules model the parts where threads, the files
and the peers interact, TLC checks them on small instances, and TLAPS proves what matters most for
every instance.

## 1. The system

| Component | State | Operations | Modules |
|---|---|---|---|
| Process start (`main.cpp`, `CountDownLatch.cc`, `RecoverCache`) | `g_bRecoverCache`, `s_listRecoverFunctors`, the latch, `g_cvInitCache` | start the feeds, wait, recover on 8 threads, open the port | Startup |
| Feed and cache-server clients (`TcpPullClientImpl.cpp`, `TcpCacheClient.cpp`, HPSocket's `CTcpClient` below them) | `m_enClientState`, the socket object's state, its worker thread, `m_pRecvBuffer`, `s_queueTCPData` | `StartClient`, `OnReceive`, `OnClose`, `TimerSendHeartBeat`, `HandleTCPDateProc` | FeedLink, Startup (hand-over of packets) |
| Quote pipeline (`Util.cpp`, `BlockingQueue.h`) | `g_setUniqueTick`, `g_listUniqueTick`, `g_queueHQDYData`, `g_queueHandledData`, `g_mapLastQuote` | `IsNewTick`, `HandleHQDYDateProc`, `HandledQuoteDataProc`, `HandleQuote`, broadcast | FrontEnd; KLine, TickStore (from `HandleQuote` on) |
| Front-ends (`WorkerProcessor.cpp`, `main.cpp`) | `g_setFrontEndConnids` | LGIN, broadcast, `OnClose` | FrontEnd |
| Session calendar (`Util.cpp`) | `g_mapProductTradeTime` | `InitTradeTime`, `IsInTradeTime` | TradeTime |
| Bars (`Util.cpp`, `CQuoteWriter.cpp`) | `g_map1MinKlineDay`, `g_map1MinKlineCount`, the same for 5 minutes, `g_mapDayKLine`, one file each | `CalKLine`, `SaveKLine`, `ClearCache`, `RecoverM1/M5/Day` | KLine |
| Ticks of the day (`Util.cpp`, `CQuoteWriter.cpp`, OPDRMX in `WorkerProcessor.cpp`) | `g_map200QuanTick`, `g_map5MinTick`, `g_mapUnCompressTick`, `g_mapCompressTick`, one file | `HandleQuote`, `Save5MinTick`, `ClearCache`, `RecoverTick`, OPDRMX | TickStore, DayLog |
| K-line queries (`WorkerProcessor.cpp`, `TcpCacheClient.cpp`) | `g_mapClientKLineCache`, `s_iCacheReqId` | OPCCACHE, OPTCACHE, response of the cache server | CacheQuery |
| Trade date (`Util.cpp`, `restart_monitor.sh`) | `g_iCurTradeDate`, `s_LastClearCacheTime` | `GetTradeDateInt`, `IsInClearCacheTime`, `ClearCache`, kill at 20:35 | TradeDay; a phase of the day in KLine and TickStore |
| Upload (`Util.cpp`) | `g_setUpload1MQuoteId`, `g_setUploadTradeDate`, `g_mapOptionIDs` | `UploadDataToAliOSS`, `UploadHeyueLiebiao`, `UploadKLine`, `AppendAliOSS` | TradeDay |
| Timer queue (`timer/PQTimer.cpp`) | heap, places, ids | `Schedule`, `Cancel`, `Update` | PQTimer, TimerSet |

Threads: main; one that handles feed packets (`HandleTCPDateProc`); one that de-duplicates and
parses (`HandleHQDYDateProc`); one that computes (`HandledQuoteDataProc`); the timer thread
(heartbeats, `TimerCompressTick`, upload); a thread pool for front-end requests and cache-server
responses; at start eight recovery threads. They share the maps above, one lock per map.

What makes them correct:

* bars of a day are in time order, finished bars never change, volumes add up to the quantity
  traded, and the counts that queries trust describe exactly the bars there are;
* the incremental ticks, cut into pieces that three threads move, form one unbroken chain in memory,
  in the file and after a restart;
* no quote is merged into a cache before its recovery, and the recovery runs once and ends;
* an answer joined from two sources at two moments has no gap and no duplicate;
* what a client object believes of its connection is true or about to be corrected, so that a link
  that breaks comes back;
* a front-end that has logged in has been sent the newest quote of every option, and a quote that
  both feeds deliver is handled once;
* quotes are stored under the right trade date, and the bars of a day reach object storage once.

What makes that hard: every operation on one option takes several locks one after the other; two
feeds deliver late and twice; the process is killed every evening and whenever its CPU load is high;
two waits have no predicate; requests, logins, closes and responses overlap in a pool; a receive
buffer outlives its connection; the date is computed in several places with two delimiters. `PROJECT.json` lists each
hazard at its line and the properties that catch it.

## 2. The modules

Each critical section of a lock is one action. Constants are parameters with named assumptions, no
module declares a RECURSIVE operator.

**TradeTime** - `IsInTradeTime` with its correction of the time stamp in the seconds after a close,
and the rounding to a bar. Time is absolute in seconds, so the two halves of a session across
midnight are one segment.

**KLine** (extends TradeTime) - the bars of one option and one bar length. The halves of `CalKLine`
for 1 and 5 minutes are the same code, so `Period` stands for both. `HandleQuote` (acceptance),
`SkipKLine`/`FirstBar`/`SameBar`/`NextBar` (the branches of `HandleQuoteProc` and `CalKLine`),
`SaveCopy`/`SaveWrite` (`SaveKLine`), `ClearCount`/`ClearBars`/`ClearLastQuote` (`ClearCache`),
`Crash`/`Recover` (a kill at any point, then `RecoverM1`), `CloseGate` (16:00), `DailyRestart`
(20:35). In `CalKLine` the count lock nests in the bar lock, so each branch is one action.

**DayLog** - abstract: the ticks of a day are a log, a growing prefix is durable, a crash keeps a
prefix at least as long as the durable one.

**TickStore** - the caches and the file of the ticks of one option; a tick carries its serial number
and the fields printed (`ToZengTick` prints only what changed). `HandleQuote`, `PushRecent`,
`PushTick5` are the three critical sections of the quote thread; `TakeTicks`, `CompressTicks`,
`WriteTicks` those of `Save5MinTick`; then `ClearCache`, OPDRMX in its two reads, crash, `RecoverTick`.
It implements DayLog with the mapping `Log`: the log is the pieces in order, the durable part is the
file.

**Startup** - `main()`, the packet thread, the pool of recovery threads with their latch, and both
condition variables, whose waits without predicate appear as they are: a notification reaches a
thread only if it waits, and with `SpuriousWake` the wait of `main()` may end by itself at any time.

**CacheQuery** - OPCCACHE and OPTCACHE: the decision from the counts, the request, its registration
after it is sent, the response, the join; bars start meanwhile, the link breaks, `ClearCache` runs.
Bars are their times. The cache server is external: it returns the bars it has, all those before the
day and perhaps the first of the day. That counts and bars agree outside `ClearCache` is what
`KLine!CountsMatchBars` shows. A count of 0 skips the switch that sets the type and the test of the
counts, and goes to the cache server like a count it could not satisfy.

**FeedLink** - three links, each seen three ways: the application's `m_enClientState`, the state of
HPSocket's client object with its connected flag, and the worker thread. The caller is `main()`
until the port opens and the timer thread afterwards, so one program counter serves both:
`Begin`, `CheckStarting`, `Connect`/`Refused`, `Connected`, `Login`, `Drain`, `Failed` are the steps
of `StartClient`, `Check` one visit of `TimerSendHeartBeat`. The worker's steps after a break
(`WorkerStops`, `Disconnected`, `OnClose`, `Reset`) interleave with them. The streams are framed as
the code does, feeds by the delimiter and the cache link by the length in the header, and
`m_pRecvBuffer` keeps what is left across connections. `m_enClientState` of the second feed is
read uninitialised by the timer if its `StartClient` was never called: `Init` gives it any value.

**FrontEnd** - from the two feeds to the logged-in front-ends: `Deliver` (a feed), `Filter`
(`HandleHQDYDateProc` with `IsNewTick`), `HandleQuote`, `CopyFrontEnds`, `SendQuote`
(`HandledQuoteDataProc`), the steps of LGIN in the order of the code (insert the id, snapshot, send
with no lock), a refused login, and the close of a connection at any point. Both `BlockingQueue`s are
modelled with their waits. What a front-end was sent last is kept as history.

**TradeDay** - the clock from a Friday to the Monday after it, in days and a few times of day:
`GetTradeDateInt` with both delimiters, `IsInClearCacheTime`, the 23 hours between two clearings, the
kill of `restart_monitor.sh` at 20:35 on workdays, crashes; `Start`/`Serve` (a process may start on
one date and serve on the next), `TimerCompressTick` (whole, it runs on one thread), and the upload in
the steps between which it can die or fail. `AppendAliOSS` is one action: it downloads, appends and
uploads, and its answer may be failure although the object was written.

**TimerSet**, **PQTimer** - a set of deadlines of which one call of `Update` fires all that are due,
the earliest first; and the binary heap that implements it, with the place stored in each node and
callbacks that schedule and cancel inside the loop of `Update`. The program schedules only, a callback
its own successor; `Cancel` by id is modelled because it is an operation of the class.

Each `...Proofs` module holds the theorems about the module it is named after.

Some definitions come in pairs with a mutated form before them (named in each header); only tests of
the properties substitute it.

## 3. The runs

| Run | Properties | Bounds | Result |
|---|---|---|---|
| kline | TypeOK, BarsInOrder, CountsMatchBars, VolumeConserved, BarsInSession, DiskBehindMemory, FinishedBarsFrozen | times to 13, two sessions listed against time order, bars of 2 s, grace 2 s, quantity to 3 | holds |
| tickstore | TypeOK, StreamDecodes, RecentFaithful, ReplyHasNoDuplicate, DayLogSpec, TicksReachDisk | 3 ticks a day, 6 quotes, 2 recent ticks, Gap 0 | holds |
| startup | TypeOK, ServeAfterRecovery, PoolIsExact, RecoveredStays, PacketsHandled, RecoveryEnds | 2 threads, 3 tasks, queue of 2 | holds |
| cachequery | TypeOK, AnswerIsComplete, PendingIsWaiting, ResponseIsForwarded | 2 queries, 2 old bars, 2 bars of the day | holds |
| feedlink | TypeOK, StateTruthful, OnlyFirstSpoilt, FeedRestored | the first feed and the cache link break once, 2 and 1 packets a connection | holds |
| frontend | TypeOK, NoQuoteMissed, StaleOnlyIfOvertaken, RepeatNeedsWindow, QueuesDrain | 2 feeds, 1 front-end, 4 quotes of 2 contracts and 2 dates, window 2, 2 quotes queued | holds |
| tradeday | TypeOK, DateRight, AppendedOnce, NothingLeftBehind | Friday to Monday, 6 times of day, 2 contracts closing at 15:00 and 15:15, 1 crash, 1 failed upload | holds |
| pqtimer | HeapOK, TimerSetSpec | 6 timers, up to 2 units ahead, clock to 2 | holds |
| tick_reply | ReplyDecodes | as tickstore | violated |
| startup_notify | EventuallyServes | as startup | violated |
| query_answered | EveryQueryAnswered | 1 query, link up, no clearing | violated |
| feed_suffices | OneFeedSuffices | the first feed is down, no breaks | violated |

Why the bounds are enough:

* **kline** - a session can hold two bars, there is a session end inside its grace period and a gap
  outside any, and three trades make a bar continued, a bar finished and one cut off by a crash.
* **tickstore** - three ticks give one piece each in the file, the compressed ticks and the buffer;
  two quantities, and two prices in the second of the two seconds, make every field change and stay; `Gap = 0` makes an advance of the
  clock give a full tick and its absence an incremental one.
* **startup** - a thread takes a second task and both threads compete for the last.
* **cachequery** - one query ranges over every kind of request (none, one bar, more than the day has,
  an interval on both sides of the first bar of the day, an empty one) and the second is always in
  flight beside it.
* **feedlink** - one break gives two connections of one link with every step of the reconnection
  between every step of the worker; two packets are one that is spoilt and one that must not be; a
  break inside and between packets, on a delimited and on a measured stream. The second feed differs
  from the first only in how `main()` starts it.
* **frontend** - the tape has a quote newer in time with an unchanged total, one whose date starts
  the total again, and one of another contract to push a quote out of the window; one connection
  suffices because connections share only the set the broadcast copies. Each id is used once.
* **tradeday** - Friday to Monday has every branch of `GetTradeDateInt` but the plain weekday evening,
  which is that of Monday; six times of day are one each after midnight, between and after the two
  closes, in the clearing window, at the kill and in the night session. `MaxIdle` lets two of these
  times pass with the process down or busy, so that a start and the contract list, or a close and the
  end of an upload, lie on two sides of any of the times.
* **pqtimer** - six is the least number of nodes with which the last node, moved into a hole, has to
  rise.

The four violated properties quote a comment of the source, see `findings`:

* **tick_reply** - between the clearing of the 5-minute buffer and the append to the compressed ticks
  the ticks are in neither, and a reply read then has a gap.
* **startup_notify** - if the recovery ends before `main()` waits, `main()` waits forever.
* **query_answered** - a response handled before the request is registered is dropped.
* **feed_suffices** - the second server is not even tried when the first refuses
  (`StartClient(..) || StartClient(..)`), and the timer that would retry starts only with the port.

Some properties hold only with an exception that the code forces, and name it. Each exception is a
history variable set by exactly the event it names, and is as short as the code allows: a broadcast
overtook the reply to a login (`overtaken`, of that contract and until its next quote), `ClearCache`
ran beside a query (`spoiled`: bars of the day may then be missing, everything else that
`AnswerIsComplete` says still holds), the wait of `main()` ended by itself (`early`), an upload was
done but reported as failed (`doubtful`), the append to TradeDay.LIST failed (`unlisted`), a contract
list failed (`emptied`). What these exceptions leave out, the models reach, and no property catches;
the hazards concerned have a note. Some of it is not what a comment says:

* a wait of `main()` that ends by itself opens the port before the recovery, where `Util.h:18` has
  the main thread open it after the caches are initialised;
* a reply to a login may end with an older quote than the one broadcast before it, where
  `WorkerProcessor.cpp:56` speaks of the newest quote of every contract;
* the id of a connection whose login is handled after its close stays in `g_setFrontEndConnids` for
  good: the comment at `Util.cpp:1548` says that the loop goes through the set and deletes dead
  connections, the loop (1549-1550) only sends. No property of FrontEnd speaks about that set;
* the link to the cache server, if it closes between the return of `Start` and `ST_STARTED`
  (`TcpCacheClient.cpp:56`), is never restarted, where `main.cpp:232` has the timer reconnect after
  a loss. `StateTruthful` says of this link only what holds.

Deadlock is checked in kline, tickstore and startup. It is not in cachequery and frontend, where
clients and feeds may stop; in feedlink, where a server that never sends a list leaves `main()`
waiting; and in tradeday and pqtimer, whose clocks end.

**Fairness.** Startup: the operating system schedules main, the packet thread and the recovery
threads, and the feeds keep sending quotes (`OnReceive("quote")`), without which `PacketsHandled`
would fail because of lost notifications. TickStore: the quote thread and the timer thread finish
what they began and the timer keeps firing (`TimerCompressTick` schedules itself again). CacheQuery:
pool threads run and the cache server answers what it received. FeedLink: the caller and each worker
are scheduled (weak), and a server that is not down for good accepts a client that keeps trying
(strong, because each attempt may also be refused). FrontEnd: the two quote threads, the pool and the
I/O threads are scheduled; feeds and front-ends owe nothing. No fairness for crashes, restarts,
breaks or clients. KLine, TradeDay and PQTimer state safety only.

## 4. The proofs

Each theorem holds for every value of the constants that satisfies the named assumptions of its
module; the bounds of the runs appear in the models as constants and the theorems hold for each. All
invariants and action properties the passing runs check are proved, and so are both refinements.

`KLineProofs`. `TradeStampMonotone` - a later accepted quote never gets an earlier corrected stamp,
for every calendar: sessions may overlap and be listed in any order, the proof rests on the first hit
being the smallest index. With the inductive invariant `IInv` follow `TypeCorrect`, `BarsStayInOrder`,
`CountsAlwaysMatch` and `FinishedBarsNeverChange`. `BarsInOrder` alone is not inductive: a quote still
to come might be older than the running bar. `FeedAhead` says it is not: for every bar, in memory, in
the file or in the copy being saved, no time the feeds may still deliver falls into an earlier bar; it
is preserved because `HandleQuote` refuses older quotes and `TradeStampMonotone` carries the order
over to bars. `CountsMatchBars` uses the order (a new bar is the newest, so its rank is the number of
bars) and lemmas about cardinalities. The parts about a dead process, the pending quote and
`ClearCache` exclude states that would break them. `VolumeIsConserved`, `BarsStayInSession` and
`DiskStaysBehind` rest on a second invariant, `VolumeInv`: the bars in memory add up to the total of
the last quote used, file and copy to no more than the feeds have reported, and the copies are behind
memory (`CopiesBehind`), so that what a crash throws away is exactly what the next quote brings
again. That a sum over the bars grows by what one bar grows (`SumOf` is a fold over a set) is proved
by induction over the size of the set.

`TickStoreProofs`. The invariant has what is empty when (`Shape`), that memory and file agree but for
the ticks being written (`DiskInv`), that each tick of the concatenated pieces is full or the
difference to the tick before it (`ChainInv`), that the next tick continues it (`LastInv`), the list
of recent ticks (`RecentInv`) and the half of a reply already read (`PartInv`). From it follow
`ChainNeverBroken`, `RecentIsFaithful`, `NoDuplicateInReply` and `TypeCorrect`; the lemmas
`ChainDecodes` and `TradedIsFaithful` say what decoding, and the filter of a restart, make of an
unbroken chain. `ImplementsDayLog` shows the refinement step by step: `HandleQuote` is `Accept`, a
write to the file is `Flush`, a crash loses what is beyond the file, the restart at 20:35
begins a new day, and all else leaves the log as it is - `QuietKeepsStream`: the steps that carry ticks from piece to
piece change where they are and not their order.

`CacheQueryProofs`. `PendingExact` needs that ids are given once (`IdInv`). `AnswersComplete` says that
an answer has neither gap nor duplicate although counts, bars and response are looked at at different
times. Its invariant keeps for every query what was known when it was decided (`Planned`), that bars
are only added after those (`GrownTo`) until `ClearCache` has emptied them (`Fits`), and that a
response in flight is what this query asked for, from bars that continue what was known
(`ResponseInv`); ranks in ascending sequences connect counts with bars (`RankIsOnto`, `LastBarsIs`).
A query that `ClearCache` overlaps is promised the bars before the day (`Promised`,
`CompleteCleared`), and the order and the bounds as ever.

`FeedLinkProofs`. `ControlInv` relates socket object, worker thread, client state and the place of the
caller (a link marked stopped has reported its close, one marked started has not, while
`StartClient` works on a link its worker has closed it) and gives `StateIsTruthful`.
`OnlyFirstIsSpoilt` needs `StreamInv`: how the receive buffer and the packets handed over follow from
the stream of the current connection and the rest of an earlier one. It is preserved by the loop of
`OnReceive`, for every length of stream and buffer: `Descent` shows that a recursion that moves
forward in the buffer defines a function, `LoopRule` is the rule of a loop invariant for it, and
`FollowingFrames`, `ReceivedContinues` and `ReceivedMeasured` say what the loop makes of the stream of
a connection.

`StartupProofs`: the invariant `PoolInv` of the pool gives `PoolStaysExact` and `RecoveredForGood`
however `main()` was woken: the latch is the number of threads that have not ended, each task is in
exactly one of the list, a thread and the restored set, and a thread ends only when the list is
empty, so an open latch means that all is restored. `ServeInv` (a `main()` woken by a notification
means a finished recovery) gives `RecoveryPrecedesService`, except when the wait of `main()` ended
by itself; that exception is needed, as the wait has no predicate.
`TypeCorrect` adds the threads and the bound of the queue.

`FrontEndProofs`: all invariants of FrontEnd. `LoginMissesNothing` (`NoQuoteMissed`) needs to know that
the broadcast reaches a connection from the first step of its login on (`InSet`, kept by `OnClose`
because only closed connections leave the set), that the quote in the handler's hands is the newest of
its contract (`QuoteIsLast`), and that between snapshot and reply what the snapshot lacks was sent or
is about to be (`SnapshotOrSent`). `StaleNeedsOvertaking` adds what the reply will overwrite
(`ReplyOrOvertaken`) and that the next quote of the contract ends the exception. `WindowRemembers` counts the list
of `IsNewTick` from its end: the quote that passed n quotes ago is the n-th from there (`WindowInv`).
`TypeCorrect` adds the bounds of queues and of what was sent.

`TradeDayProofs`: `DateIsRight` (`DateRight`), for every set of contracts and choice of times of day.
While the process serves, its date is `GetTradeDateInt` of the present or, on a workday from 20:00
until the kill at 20:35, still the date that has ended (`Stale`): `ClearCache` runs from 19:30 on and
sets the date of that moment, and nothing but a restart corrects it. The invariant says that `Stale`
lasts no longer than until the kill; `DateIsTradeDate` shows that `GetTradeDateInt` gives the next
workday. The uploads rest on `FullInv`. `NothingTwice`: what object storage has of today came in the
afternoon, and the process that knows it is the one that sent it, or one started after 15:00, which
uploads nothing that day (`StoredInv`, `ListInv`). `UploadComplete`: an upload runs between the close of
every contract and the kill (`UploadInv`, `ClosedInv`), so the bars do not change under it, and each
contract with bars is sent, refused or still to do (`DoneInv`).

`PQTimerProofs`: `HeapStaysOK` (`HeapOK`) and `ImplementsTimerSet`. While a node sinks or rises the
places are a heap but for the edges of its place, and its children are not due before its parent
(`Bridged`, `Sinking`, `Rising`); each exchange keeps that and brings the node nearer to the end of the
loop (`SinkingStep`, `RisingStep`, `SiftDownIs`, `SiftUpIs`). After `Cancel` has moved the last node into
the hole, `siftdown` either moves it or leaves a queue of which only this node may have to rise
(`RestoreIs`); that is why the code may test the result of `siftdown` before it calls `siftup`. As the
top is due first (`RootIsFirst`), what `Update` fires is what TimerSet allows.

What recursive definitions and folds compute is proved by induction over a set of numbers
(`LeastNumber` and `SetInduction`, at the head of each module that needs them), since the library's
theorems take a predicate, which the installed provers cannot instantiate. That a recursion inside a
definition defines a function at all is proved too, from functions that agree with it up to n
(`SumExists`, `FullExists`, `KeptExists`, `Descent`, `RoundsExist`).

What the assumptions on the constants say:

* TradeTime, KLine: sessions are intervals of natural numbers that start no earlier than the length
  of a bar, which is positive.
* TickStore: a quote has integer fields; the pause, the length of the list and the bound are numbers.
* Startup: the set of threads is finite and not empty, no task has the name of a thread state, the
  bound of the queue is a number.
* CacheQuery: the times of bars are positive, the cache server's bars are finitely many and precede
  those of the day, the fields of a query are unsigned.
* FeedLink: the three links are different, bounds are numbers, and what is read as a length is not 0.
* FrontEnd: the tape is a sequence with numbers for times and totals, and the window is not empty.
* PQTimer: the bounds are numbers, and the clock starts at 1.
* TradeDay: the times of day ascend and 20:35 is among them (`EveningAssumption`), so that the kill
  cannot be skipped; every contract closes before 20:00.

Only model-checked: liveness in all modules (`TicksReachDisk`, `PacketsHandled`, `RecoveryEnds`,
`ResponseIsForwarded`, `FeedRestored`, `QueuesDrain`), which needs ENABLED and is out of the prover's
reach, and the four violated properties.

## 5. What the models assume and leave out

* KLine, TickStore: one option and one trade date at a time; prices are left out of the bars. After a
  restart the feeds resume with quotes not older than those seen before (`resume`): the newest quote
  is not recovered, the code that did it is commented out (`Util.cpp:1914`).
* The queues are empty when `ClearCache` may run (19:30), because `Parse` drops quotes from 16:00 to
  20:00; TickStore opens the window with an empty buffer for the same reason.
* A kill leaves a prefix of the lines being written. A line cut in the middle is not modelled.
* `RecoverTick` keeps the first tick of the file if its last quantity is positive; that field is left
  out and both outcomes are possible.
* Startup: only the wait of `main()` may wake by itself, the wait of the packet thread may not.
  `s_server.Start` succeeds. A full packet queue still notifies.
* CacheQuery: ids do not wrap at 2^32; one option. The day kind follows the same decisions with one
  bar, which OPTCACHE returns even if its date precedes the interval (`WorkerProcessor.cpp:565`); it
  is not modelled. `known` and `spoiled` only record history for the properties. A query that
  waits when the link breaks waits on: its entry stays until `ClearCache` runs.
* FeedLink: a connection that stays open but silent is left out, the code sends heartbeats and does
  not look for answers. `Stop` of HPSocket waits for the worker, as its source says; the rest of
  HPSocket is external. The address of a server does not change.
* FrontEnd: the framing of front-end packets is left out (the same loop as in FeedLink, with the
  buffer tied to the connection), so are the conversion of a quote and the queue of the pool. Each
  feed delivers in the order of the exchange and may leave quotes out.
* TradeDay: between two of its times of day every timer fires and every contract in session trades,
  unless the process is down or uploading. The monitor works and the supervisor starts the process
  again. No holidays: the code has none either. Of the uploads those of one bar length and of
  TradeDay.LIST are modelled, the object store answers truthfully whether an object exists, and a
  contract list fails at most once in a life of the process. `UploadTick` and `UploadNativeData`
  upload whole files and are not modelled.
* PQTimer: ids and the clock do not overflow.
* Where a comment and the code differ without a consequence the code is followed: `Util.cpp:1165`
  speaks of the new trade date where 19:30 still gives the one that ends, and `Util.cpp:1133` of
  20:00 to 20:30 where the code tests 19:30 to 20:00.

Not modelled, and why:

* `QryJingDu` locks `g_lockComodityInfo` exclusively while holding it shared when a product is unknown
  and OPHYXXJson.txt was last read more than five minutes ago (`Util.cpp:229` and `413`): the thread
  waits for itself, if in `CalKLine` with the lock of the bars held. One thread and one configuration
  decide it, there is nothing to explore.
* Torn lines (`CQuoteWriter.cpp:98`): a torn line breaks the log of the day by design, so a model needs
  a second, weaker abstract specification.
* `UploadHeyueLiebiao` rewrites the list text under a read lock (`Util.cpp:2986`): texts are data here.
* The clean-up thread (`Util.cpp:1332`) only deletes old files.
* Configuration, HTTP, SMS, text encoding, JSON rewriting, the protocols of the front-ends that return
  one string or one map entry, prices, average price and inner/outer volume: input/output and
  arithmetic without interaction.
* HPSocket, protobuf, rapidjson, libcurl, spdlog, breakpad and the OSS SDK, which are more than nine
  tenths of the repository's lines: third-party and generated code. The program itself is about 8000
  lines.

## 6. Plan

Extensions, each with its proofs: the day bar in KLine and CacheQuery, torn lines in TickStore with a
weaker abstract log, the order of all locks, the upload of ticks and native data.
