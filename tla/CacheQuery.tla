----------------------------- MODULE CacheQuery -----------------------------
(***************************************************************************)
(* K-line queries of front-ends for one option and one bar length:         *)
(* OPCCACHE (the newest bars up to a time) and OPTCACHE (the bars between  *)
(* two times).  WorkerProcessor::Parse answers from the local bars of the  *)
(* day if the counts say they suffice.  Otherwise it asks the cache server *)
(* for the older bars (SendKLineCountReq, SendKLineTimeReq), registers the *)
(* request in g_mapClientKLineCache, and CTcpCacheClient::Parse joins the  *)
(* response with the local bars.                                           *)
(*                                                                         *)
(* Requests and responses are handled by a thread pool, so any two of them *)
(* overlap, with the quote thread that starts new bars (CalKLine) and with *)
(* the timer thread (ClearCache).  The counts are those of the module      *)
(* KLine, whose CountsMatchBars says that they are the bars.               *)
(*                                                                         *)
(* SameEnd, ReusedId and Unerased are mutated forms of the definition that *)
(* follows each of them: only the tests of the properties use them.        *)
(***************************************************************************)
EXTENDS Integers, Sequences, FiniteSets, SequencesExt

CONSTANTS
    Requests,       \* queries of front-ends
    History,        \* times of the bars the cache server has, all before today
    Today,          \* times at which a bar of the day may start
    Asks,           \* bound: what each query may ask for
    LinkMayFail,    \* whether the connection to the cache server may break
    ClearMayRun     \* whether ClearCache may run

ASSUME TimesAssumption ==
    /\ History \subseteq Nat \ {0} /\ Today \subseteq Nat \ {0}
    /\ \A h \in History, t \in Today : h < t
    /\ IsFiniteSet(History)

\* The fields of a query are unsigned.
ASSUME AsksAssumption ==
    \A r \in Requests :
        Asks[r] \subseteq [kind : {"count", "time"}, total : Nat, start : Nat, end : Nat]

VARIABLES
    counts,     \* the keys of mapTimeCount
    bars,       \* mapCache and lastKLine
    clearing,   \* where ClearCache is
    link,       \* the connection to the cache server is up
    nextId,     \* s_iCacheReqId
    req,        \* each query: where it is, and the locals of its handler
    pending,    \* g_mapClientKLineCache: request id |-> query
    sent,       \* requests on their way to the cache server
    responses,  \* responses of the cache server, received and not yet handled
    answer      \* the bar times sent to the front-end

vars == <<counts, bars, clearing, link, nextId, req, pending, sent, responses, answer>>

-----------------------------------------------------------------------------
\* A query asks for the last total bars up to end, or for the bars from start to end.
CountAsk(total, end) == [kind |-> "count", total |-> total, start |-> 0, end |-> end]
TimeAsk(start, end) == [kind |-> "time", total |-> 0, start |-> start, end |-> end]
NoAsk == [kind |-> "none", total |-> 0, start |-> 0, end |-> 0]

Pcs == {"idle", "asked", "local", "remote", "sent", "waiting", "joining", "answered", "gone"}

Idle == [pc |-> "idle", ask |-> NoAsk, id |-> 0, cacheCount |-> 0, cacheEnd |-> 0,
         native |-> FALSE, older |-> <<>>, known |-> {}, spoiled |-> FALSE]

UpTo(S, end) == {t \in S : t <= end}
First(S) == CHOOSE t \in S : \A u \in S : t <= u

Ascending(S) ==
    [i \in 1..Cardinality(S) |-> CHOOSE t \in S : Cardinality(UpTo(S, t)) = i]

\* GetCountKLines and GetTimeKLines, oldest bar first.
LastBars(S, total) ==
    LET all == Ascending(S)
    IN  SubSeq(all, IF Len(all) > total THEN Len(all) - total + 1 ELSE 1, Len(all))

BarsBetween(S, start, end) == Ascending({t \in S : start <= t /\ t <= end})

Init ==
    /\ counts = {} /\ bars = {}
    /\ clearing = "no"
    /\ link = TRUE
    /\ nextId = 1
    /\ req = [r \in Requests |-> Idle]
    /\ pending = <<>>
    /\ sent = {} /\ responses = {}
    /\ answer = [r \in Requests |-> <<>>]

cache == <<counts, bars, clearing>>

-----------------------------------------------------------------------------
(* The pool threads: WorkerProcessor::Parse *)

Ask(r, ask) ==
    /\ req[r].pc = "idle"
    /\ req' = [req EXCEPT ![r] = [Idle EXCEPT !.pc = "asked", !.ask = ask,
                                              !.spoiled = clearing \in {"counts", "bars"}]]
    /\ UNCHANGED <<cache, link, nextId, pending, sent, responses, answer>>

\* The day's counts reach back far enough.
CountSuffices(ask, n) == ask.kind = "count" /\ ask.total > 0 /\ n >= ask.total
TimeSuffices(ask) == ask.kind = "time" /\ First(counts) <= ask.start

\* What to ask the cache server for if some local bars can be used: the rest, up
\* to the time before the first bar of the day.
SameEnd(ask) == ask.end
OlderEnd(ask) == First(counts) - 1
Missing(ask, n) == IF ask.kind = "count" THEN ask.total - n ELSE 0

\* Under g_lock1MinKlineCount.  OPCCACHE for no bars skips the test of the counts,
\* OPTCACHE for an empty interval is answered at once.  (known is a history
\* variable: the bars of the day at this moment.)
Decide(r) ==
    LET ask == req[r].ask
        n == Cardinality(UpTo(counts, ask.end))
    IN  /\ req[r].pc = "asked"
        /\ req' =
             IF ask.kind = "time" /\ ask.start > ask.end
             THEN [req EXCEPT ![r].pc = "answered"]   \* with no bars
             ELSE IF n = 0 \/ (ask.kind = "count" /\ ask.total = 0)
             THEN [req EXCEPT ![r].pc = "remote", ![r].cacheCount = ask.total,
                              ![r].cacheEnd = ask.end, ![r].known = counts]
             ELSE IF CountSuffices(ask, n) \/ TimeSuffices(ask)
             THEN [req EXCEPT ![r].pc = "local", ![r].known = counts]
             ELSE [req EXCEPT ![r].pc = "remote", ![r].cacheCount = Missing(ask, n),
                              ![r].cacheEnd = OlderEnd(ask), ![r].native = TRUE,
                              ![r].known = counts]
        /\ UNCHANGED <<cache, link, nextId, pending, sent, responses, answer>>

\* Under g_lock1MinKline: GetCountKLines or GetTimeKLines, then the reply, which
\* ends the handler and its locals.
Answer(r, times) ==
    /\ answer' = [answer EXCEPT ![r] = times]
    /\ req' = [req EXCEPT ![r] =
                  [Idle EXCEPT !.pc = "answered", !.ask = req[r].ask,
                               !.known = req[r].known, !.spoiled = req[r].spoiled]]

LocalBars(ask) ==
    IF ask.kind = "count" THEN LastBars(UpTo(bars, ask.end), ask.total)
    ELSE BarsBetween(bars, ask.start, ask.end)

AnswerLocally(r) ==
    /\ req[r].pc = "local"
    /\ Answer(r, LocalBars(req[r].ask))
    /\ UNCHANGED <<cache, link, nextId, pending, sent, responses>>

\* SendKLineCountReq or SendKLineTimeReq.  If the send fails nobody is answered.
ReusedId == nextId
FreshId == nextId + 1

SendRequest(r) ==
    /\ req[r].pc = "remote"
    /\ nextId' = FreshId
    /\ IF link
       THEN /\ sent' = sent \cup {[id |-> nextId, req |-> req[r]]}
            /\ req' = [req EXCEPT ![r].pc = "sent", ![r].id = nextId]
       ELSE /\ req' = [req EXCEPT ![r].pc = "gone"]
            /\ UNCHANGED sent
    /\ UNCHANGED <<cache, link, pending, responses, answer>>

\* Under g_lockClientKLineCache, after the request has been sent.
Register(r) ==
    /\ req[r].pc = "sent"
    /\ pending' = [id \in DOMAIN pending \cup {req[r].id} |->
                      IF id = req[r].id THEN r ELSE pending[id]]
    /\ req' = [req EXCEPT ![r].pc = "waiting"]
    /\ UNCHANGED <<cache, link, nextId, sent, responses, answer>>

-----------------------------------------------------------------------------
(* The cache server *)

Older(q, stored) ==
    IF q.ask.kind = "count" THEN LastBars(UpTo(stored, q.cacheEnd), q.cacheCount)
    ELSE BarsBetween(stored, q.ask.start, q.cacheEnd)

\* It may hold the first bars of the day already.
ServerResponds(m) ==
    /\ m \in sent
    /\ sent' = sent \ {m}
    /\ \E t \in {0} \cup bars :
          LET older == Older(m.req, History \cup UpTo(bars, t))
          IN  responses' = responses \cup {[id |-> m.id, older |-> older]}
    /\ UNCHANGED <<cache, link, nextId, req, pending, answer>>

Disconnect ==
    /\ LinkMayFail
    /\ link
    /\ link' = FALSE
    /\ sent' = {}
    /\ UNCHANGED <<cache, nextId, req, pending, responses, answer>>

\* TimerSendHeartBeat.
Reconnect ==
    /\ ~link
    /\ link' = TRUE
    /\ UNCHANGED <<cache, nextId, req, pending, sent, responses, answer>>

-----------------------------------------------------------------------------
(* The pool threads: CTcpCacheClient::Parse *)

\* Under g_lockClientKLineCache: find and erase.
Unerased(id) == pending
Erased(id) == [i \in DOMAIN pending \ {id} |-> pending[i]]

TakeResponse(m) ==
    /\ m \in responses
    /\ m.id \in DOMAIN pending
    /\ responses' = responses \ {m}
    /\ req' = [req EXCEPT ![pending[m.id]].pc = "joining", ![pending[m.id]].older = m.older]
    /\ pending' = Erased(m.id)
    /\ UNCHANGED <<cache, link, nextId, sent, answer>>

DropResponse(m) ==
    /\ m \in responses
    /\ m.id \notin DOMAIN pending
    /\ responses' = responses \ {m}
    /\ UNCHANGED <<cache, link, nextId, req, pending, sent, answer>>

\* Under g_lock1MinKline: the local bars up to end follow the older ones.
NativeBars(q) == IF q.native THEN Ascending(UpTo(bars, q.ask.end)) ELSE <<>>

Join(r) ==
    /\ req[r].pc = "joining"
    /\ Answer(r, req[r].older \o NativeBars(req[r]))
    /\ UNCHANGED <<cache, link, nextId, pending, sent, responses>>

-----------------------------------------------------------------------------
(* The quote thread and the timer thread *)

\* CalKLine starts the bar t.
NewBar(t) ==
    /\ clearing = "no"
    /\ \A u \in bars : u < t
    /\ bars' = bars \cup {t}
    /\ counts' = counts \cup {t}
    /\ UNCHANGED <<clearing, link, nextId, req, pending, sent, responses, answer>>

\* ClearCache in the order of its critical sections.
\* A query that it overlaps gets what is left, which req[r].spoiled records.
SpoilAll == req' = [r \in Requests |-> [req[r] EXCEPT !.spoiled = TRUE]]

ClearCounts ==
    /\ ClearMayRun
    /\ clearing = "no"
    /\ counts' = {}
    /\ clearing' = "counts"
    /\ SpoilAll
    /\ UNCHANGED <<bars, link, nextId, pending, sent, responses, answer>>

ClearBars ==
    /\ clearing = "counts"
    /\ bars' = {}
    /\ clearing' = "bars"
    /\ UNCHANGED <<counts, link, nextId, req, pending, sent, responses, answer>>

ClearPending ==
    /\ clearing = "bars"
    /\ pending' = <<>>
    /\ clearing' = "done"
    /\ UNCHANGED <<counts, bars, link, nextId, req, sent, responses, answer>>

-----------------------------------------------------------------------------
Worker(r) == Decide(r) \/ AnswerLocally(r) \/ SendRequest(r) \/ Register(r) \/ Join(r)

OnResponse == \E m \in responses : TakeResponse(m) \/ DropResponse(m)

Next ==
    \/ \E r \in Requests : Worker(r) \/ \E ask \in Asks[r] : Ask(r, ask)
    \/ \E m \in sent : ServerResponds(m)
    \/ OnResponse
    \/ Disconnect \/ Reconnect
    \/ \E t \in Today : NewBar(t)
    \/ ClearCounts \/ ClearBars \/ ClearPending

\* The pool threads run, and the cache server responds.
Fairness ==
    /\ \A r \in Requests : WF_vars(Worker(r))
    /\ WF_vars(OnResponse)
    /\ WF_vars(\E m \in sent : ServerResponds(m))

Spec == Init /\ [][Next]_vars /\ Fairness

-----------------------------------------------------------------------------
(* Properties *)

\* Type invariant.
TypeOK ==
    /\ counts \subseteq Today /\ bars \subseteq Today
    /\ clearing \in {"no", "counts", "bars", "done"}
    /\ link \in BOOLEAN /\ nextId \in Nat
    /\ \A r \in Requests : req[r].pc \in Pcs /\ req[r].ask \in Asks[r] \cup {NoAsk}
    /\ \A id \in DOMAIN pending : id < nextId /\ pending[id] \in Requests
    /\ \A m \in sent \cup responses : m.id < nextId

\* The bars a complete answer to a query begins with.
Wanted(q, world) ==
    IF q.ask.kind = "count" THEN ToSet(LastBars(UpTo(world, q.ask.end), q.ask.total))
    ELSE {t \in UpTo(world, q.ask.end) : q.ask.start <= t}

\* ClearCache can take the bars of the day from an answer, and only those.
Promised(q, world) == IF q.spoiled THEN Wanted(q, world) \ Today ELSE Wanted(q, world)

\* An answer is one uninterrupted run of bars, oldest first, whether it comes from
\* memory or is joined from the cache server's bars and those of the day at two
\* different moments: it holds every bar asked for that existed when the query was
\* looked at, no bar twice and none after the end, and what is more are bars
\* started since.  If ClearCache empties counts and bars, in two steps, while the
\* query is on its way, bars of the day may be missing, but the order is kept and
\* every older bar is there.
AnswerIsComplete ==
    \A r \in Requests :
        req[r].pc = "answered" =>
            LET a == answer[r]
                old == History \cup req[r].known
                promised == Promised(req[r], old)
            IN  /\ \A i, j \in DOMAIN a : i < j => a[i] < a[j]
                /\ ToSet(a) \subseteq UpTo(History \cup Today, req[r].ask.end)
                /\ ToSet(a) \cap old \subseteq Wanted(req[r], old)
                /\ \/ promised \subseteq ToSet(a)
                   \/ /\ req[r].ask.kind = "count" /\ Len(a) >= req[r].ask.total
                      /\ {t \in promised : a[1] <= t} \subseteq ToSet(a)

\* g_mapClientKLineCache holds exactly the queries that wait for a response, each
\* under the id its request was sent with.
PendingIsWaiting ==
    /\ \A id \in DOMAIN pending :
          req[pending[id]].pc = "waiting" /\ req[pending[id]].id = id
    /\ clearing # "done" =>
          \A r \in Requests : req[r].pc = "waiting" => req[r].id \in DOMAIN pending

\* A response that finds its query registered is forwarded to the front-end,
\* unless ClearCache drops the query first.
ResponseIsForwarded ==
    \A r \in Requests :
        (req[r].pc = "waiting" /\ \E m \in responses : m.id = req[r].id)
            ~> (req[r].pc = "answered" \/ req[r].spoiled)

\* Every query is answered, while the connection to the cache server is up and
\* ClearCache does not run.
EveryQueryAnswered ==
    \A r \in Requests : (req[r].pc = "asked") ~> (req[r].pc = "answered")
=============================================================================
