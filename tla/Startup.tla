------------------------------ MODULE Startup ------------------------------
(***************************************************************************)
(* From the start of the process to the open port: main() connects the two *)
(* feeds, starts the thread that handles their packets (HandleTCPDateProc) *)
(* and waits on g_cvInitCache; the first contract list (HYLB) makes that   *)
(* thread run the recovery of the caches on a pool of detached threads     *)
(* (InitHeYueLieBiao, RecoverCache, RecoverThreadProc, CountDownLatch) and *)
(* signal main(), which only then opens the port and starts the threads    *)
(* that handle quotes (OnCmdStart).                                        *)
(*                                                                         *)
(* Both condition variables are waited on without a predicate, so a        *)
(* notification with nobody waiting is lost and a spurious wakeup counts.  *)
(*                                                                         *)
(* Unnotified, Always, PerTask, Unpopped and AnyEnded are mutated forms of *)
(* the definition that follows each of them: nothing uses them but the     *)
(* tests of the properties.                                                *)
(***************************************************************************)
EXTENDS Naturals, Sequences, FiniteSets

CONSTANTS
    Workers,            \* the recovery threads (8)
    Tasks,              \* one per option and kind of cache to recover
    MaxQueue            \* bound: packets received and not yet taken

ASSUME WorkersAssumption == IsFiniteSet(Workers) /\ Workers # {}

ASSUME TasksAssumption == Tasks \cap {"none", "idle", "ended"} = {}

ASSUME QueueAssumption == MaxQueue \in Nat

VARIABLES
    main,       \* where main() is
    data,       \* where HandleTCPDateProc is
    received,   \* s_queueTCPData
    batch,      \* queueDatas, the packets HandleTCPDateProc swapped out
    throttled,  \* the last HYLB is less than 60 seconds old (tInitTime)
    listed,     \* g_mapOptionIDs holds the contract list
    started,    \* g_bRecoverCache
    tasks,      \* s_listRecoverFunctors
    worker,     \* what each RecoverThreadProc is doing
    latch,      \* count_ of the CountDownLatch
    restored,   \* the tasks that have run
    quotes,     \* g_queueHQDYData is not empty
    early       \* the wait of main() ended by itself (history)

vars == <<main, data, received, batch, throttled, listed, started, tasks, worker,
          latch, restored, quotes, early>>

-----------------------------------------------------------------------------
\* A contract list that parses, one that does not, a quote.
Packets == {"list", "badList", "quote"}

MainPcs == {"init", "connected", "spawned", "waiting", "woken", "serving"}
DataPcs == {"none", "ready", "waiting", "woken", "handling", "recovering"}

\* A worker has no thread, is between tasks, has ended, or runs a task.
WorkerPcs == {"none", "idle", "ended"} \cup Tasks

Running == {w \in Workers : worker[w] \in Tasks}

Init ==
    /\ main = "init"
    /\ data = "none"
    /\ received = <<>> /\ batch = <<>>
    /\ throttled = FALSE /\ listed = FALSE /\ started = FALSE
    /\ tasks = {} /\ worker = [w \in Workers |-> "none"] /\ latch = 0
    /\ restored = {}
    /\ quotes = FALSE /\ early = FALSE

recovery == <<tasks, worker, latch, restored>>

-----------------------------------------------------------------------------
(* main *)

\* StartClient on both feeds: packets may arrive from now on.
Connect ==
    /\ main = "init"
    /\ main' = "connected"
    /\ UNCHANGED <<data, received, batch, throttled, listed, started, recovery, quotes, early>>

SpawnDataThread ==
    /\ main = "connected"
    /\ main' = "spawned"
    /\ data' = "ready"
    /\ UNCHANGED <<received, batch, throttled, listed, started, recovery, quotes, early>>

\* g_lockInitCache is taken and released by the wait.
WaitForCache ==
    /\ main = "spawned"
    /\ main' = "waiting"
    /\ UNCHANGED <<data, received, batch, throttled, listed, started, recovery, quotes, early>>

SpuriousWake ==
    /\ main = "waiting"
    /\ main' = "woken"
    /\ early' = TRUE
    /\ UNCHANGED <<data, received, batch, throttled, listed, started, recovery, quotes>>

\* OnCmdStart: the port is open, the quote threads run.
Serve ==
    /\ main = "woken"
    /\ main' = "serving"
    /\ UNCHANGED <<data, received, batch, throttled, listed, started, recovery, quotes, early>>

\* HandleHQDYDateProc, started by OnCmdStart, takes the quotes.
TakeQuotes ==
    /\ main = "serving"
    /\ quotes
    /\ quotes' = FALSE
    /\ UNCHANGED <<main, data, received, batch, throttled, listed, started, recovery, early>>

-----------------------------------------------------------------------------
(* The feeds and the thread that handles their packets *)

\* notify_one of s_cvTCPData.
Unnotified == data
Notified == IF data = "waiting" THEN "woken" ELSE data

\* CTcpPullClientImpl::OnReceive under s_lockTCPData.  The bound: in a queue of
\* MaxQueue packets one more quote changes nothing, but it notifies.
OnReceive(packet) ==
    /\ main # "init"
    /\ \/ Len(received) < MaxQueue /\ received' = Append(received, packet)
       \/ Len(received) = MaxQueue /\ packet = "quote" /\ UNCHANGED received
    /\ data' = Notified
    /\ UNCHANGED <<main, batch, throttled, listed, started, recovery, quotes, early>>

DataWait ==
    /\ data = "ready"
    /\ data' = "waiting"
    /\ UNCHANGED <<main, received, batch, throttled, listed, started, recovery, quotes, early>>

SwapQueue ==
    /\ data = "woken"
    /\ batch' = received
    /\ received' = <<>>
    /\ data' = "handling"
    /\ UNCHANGED <<main, throttled, listed, started, recovery, quotes, early>>

\* Parse of a quote: queued, or dropped between 16:00 and 20:00.
ParseQuote ==
    /\ data = "handling"
    /\ batch # <<>> /\ Head(batch) = "quote"
    /\ batch' = Tail(batch)
    /\ quotes' \in {quotes, TRUE}
    /\ UNCHANGED <<main, data, received, throttled, listed, started, recovery, early>>

\* Parse of a contract list: InitHeYueLieBiao returns at once ...
SkipList ==
    /\ data = "handling"
    /\ batch # <<>> /\ Head(batch) # "quote"
    /\ throttled
    /\ batch' = Tail(batch)
    /\ UNCHANGED <<main, data, received, throttled, listed, started, recovery, quotes, early>>

\* ... or clears the list and fails to parse the new one ...
RejectList ==
    /\ data = "handling"
    /\ batch # <<>> /\ Head(batch) = "badList"
    /\ ~throttled
    /\ throttled' = TRUE
    /\ listed' = FALSE
    /\ batch' = Tail(batch)
    /\ UNCHANGED <<main, data, received, started, recovery, quotes, early>>

\* ... or replaces it, and starts the recovery unless that was done before.
Always == TRUE
RecoveryDue == ~started

\* The pool has one thread for each count of the latch.
PerTask == Cardinality(Tasks)
LatchSize == Cardinality(Workers)

AcceptList ==
    /\ data = "handling"
    /\ batch # <<>> /\ Head(batch) = "list"
    /\ ~throttled
    /\ throttled' = TRUE
    /\ listed' = TRUE
    /\ batch' = Tail(batch)
    /\ started' = TRUE
    /\ IF RecoveryDue
       THEN /\ tasks' = Tasks
            /\ worker' = [w \in Workers |-> "idle"]
            /\ latch' = LatchSize
            /\ data' = "recovering"
       ELSE UNCHANGED <<tasks, worker, latch, data>>
    /\ UNCHANGED <<main, received, restored, quotes, early>>

ThrottleExpires ==
    /\ throttled
    /\ throttled' = FALSE
    /\ UNCHANGED <<main, data, received, batch, listed, started, recovery, quotes, early>>

BatchDone ==
    /\ data = "handling"
    /\ batch = <<>>
    /\ data' = "ready"
    /\ UNCHANGED <<main, received, batch, throttled, listed, started, recovery, quotes, early>>

-----------------------------------------------------------------------------
(* RecoverThreadProc *)

\* Under s_lockRecoverFunctors.
Unpopped(task) == tasks
Popped(task) == tasks \ {task}

TakeTask(w, task) ==
    /\ worker[w] = "idle"
    /\ task \in tasks
    /\ tasks' = Popped(task)
    /\ worker' = [worker EXCEPT ![w] = task]
    /\ UNCHANGED <<main, data, received, batch, throttled, listed, started, latch,
                   restored, quotes, early>>

RunTask(w) ==
    /\ worker[w] \in Tasks
    /\ restored' = restored \cup {worker[w]}
    /\ worker' = [worker EXCEPT ![w] = "idle"]
    /\ UNCHANGED <<main, data, received, batch, throttled, listed, started, tasks, latch,
                   quotes, early>>

\* No task is left: CountDownLatch::countDown.
CountDown(w) ==
    /\ worker[w] = "idle"
    /\ tasks = {}
    /\ worker' = [worker EXCEPT ![w] = "ended"]
    /\ latch' = latch - 1
    /\ UNCHANGED <<main, data, received, batch, throttled, listed, started, tasks,
                   restored, quotes, early>>

\* CountDownLatch::wait tests the count in a loop.
AnyEnded == latch < Cardinality(Workers)
LatchOpen == latch = 0

\* The end of RecoverCache: notify_one of g_cvInitCache under g_lockInitCache.
FinishRecovery ==
    /\ data = "recovering"
    /\ LatchOpen
    /\ data' = "handling"
    /\ main' = IF main = "waiting" THEN "woken" ELSE main
    /\ UNCHANGED <<received, batch, throttled, listed, started, recovery, quotes, early>>

-----------------------------------------------------------------------------
MainStep == Connect \/ SpawnDataThread \/ WaitForCache \/ Serve
DataStep ==
    \/ DataWait \/ SwapQueue \/ ParseQuote
    \/ SkipList \/ RejectList \/ AcceptList \/ BatchDone \/ FinishRecovery
WorkerStep(w) == (\E task \in Tasks : TakeTask(w, task)) \/ RunTask(w) \/ CountDown(w)

Next ==
    \/ MainStep \/ SpuriousWake \/ TakeQuotes
    \/ \E packet \in Packets : OnReceive(packet)
    \/ DataStep \/ ThrottleExpires
    \/ \E w \in Workers : WorkerStep(w)

\* Every thread is scheduled, and the feeds keep sending quotes.
Fairness ==
    /\ WF_vars(MainStep) /\ WF_vars(TakeQuotes) /\ WF_vars(DataStep)
    /\ \A w \in Workers : WF_vars(WorkerStep(w))
    /\ WF_vars(OnReceive("quote"))

Spec == Init /\ [][Next]_vars /\ Fairness

-----------------------------------------------------------------------------
(* Properties *)

\* Type invariant.
TypeOK ==
    /\ main \in MainPcs /\ data \in DataPcs
    /\ received \in Seq(Packets) /\ Len(received) <= MaxQueue /\ batch \in Seq(Packets)
    /\ {throttled, listed, started, quotes, early} \subseteq BOOLEAN
    /\ tasks \subseteq Tasks /\ restored \subseteq Tasks
    /\ worker \in [Workers -> WorkerPcs]
    /\ latch \in 0..Cardinality(Workers)

\* main() opens the port, and the quote threads start, only when every cache has
\* been recovered, unless its wait ended by itself: no quote is merged into a
\* half-recovered cache.
ServeAfterRecovery == main \in {"woken", "serving"} /\ ~early => restored = Tasks

\* While the pool works no task is lost or handed to two threads, and when
\* RecoverCache has returned no thread of the pool still uses the latch.
PoolIsExact ==
    /\ started => Tasks = tasks \cup restored \cup {worker[w] : w \in Running}
    /\ \A w \in Running : worker[w] \notin tasks \cup restored
    /\ \A v, w \in Running : v # w => worker[v] # worker[w]
    /\ started /\ data # "recovering" => \A w \in Workers : worker[w] = "ended"

\* The contract lists that keep arriving from both feeds never start the recovery
\* again: it would overwrite the caches while quotes are handled.  Once the last
\* thread has counted down nothing of it changes, however main() was woken.
RecoveredStays == [][started /\ latch = 0 => UNCHANGED recovery]_vars

\* As long as quotes arrive, packets do not stay in the queue, although the
\* notification for a packet is lost when the thread is not waiting.
PacketsHandled == (received # <<>>) ~> (received = <<>>)

\* A recovery that was started ends.
RecoveryEnds == started ~> (restored = Tasks /\ data # "recovering")

\* "notifies the main thread that the caches are initialised": the port opens once
\* the recovery has started.
EventuallyServes == started ~> (main = "serving")
=============================================================================
