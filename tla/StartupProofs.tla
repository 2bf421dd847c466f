--------------------------- MODULE StartupProofs ---------------------------
(***************************************************************************)
(* Proofs about Startup for every number of recovery threads and every set *)
(* of tasks: the pool restores each task exactly once, RecoverCache        *)
(* returns only when all is restored, and main() serves only after that    *)
(* unless its wait ended by itself.                                        *)
(***************************************************************************)
EXTENDS Startup, FiniteSetTheorems, SequenceTheorems, TLAPS

\* The threads that have not counted down.
Busy == {w \in Workers : worker[w] # "ended"}

PoolTypes ==
    /\ tasks \subseteq Tasks /\ restored \subseteq Tasks
    /\ worker \in [Workers -> WorkerPcs]

\* g_bRecoverCache is set before anything of the pool exists.
BeforeStart ==
    ~started =>
        /\ tasks = {} /\ restored = {} /\ data # "recovering"
        /\ \A w \in Workers : worker[w] = "none"

LatchCounts == started => latch = Cardinality(Busy)

\* No task is lost ...
Covered ==
    started => \A t \in Tasks : t \in tasks \cup restored \/ \E w \in Workers : worker[w] = t

\* ... or in two places.
Disjoint ==
    /\ tasks \cap restored = {}
    /\ \A w \in Workers : worker[w] \notin tasks \cup restored
    /\ \A v, w \in Workers : worker[v] \in Tasks /\ v # w => worker[v] # worker[w]

EndedLast == (\E w \in Workers : worker[w] = "ended") => tasks = {}

Returned == started /\ data # "recovering" => \A w \in Workers : worker[w] = "ended"

\* The inductive invariant of the pool.
PoolInv ==
    /\ PoolTypes
    /\ BeforeStart
    /\ LatchCounts
    /\ Covered
    /\ Disjoint
    /\ EndedLast
    /\ Returned

\* The packet thread does not exist before main() starts it.
NoThread == main \in {"init", "connected"} => data = "none"

\* What main() knows when it has been woken by a notification.
ServeInv == main \in {"woken", "serving"} /\ ~early => started /\ data # "recovering"

-----------------------------------------------------------------------------
LEMMA BusyFinite == IsFiniteSet(Busy) /\ Cardinality(Busy) \in Nat
<1>1. Busy \subseteq Workers
  BY DEF Busy
<1>2. IsFiniteSet(Busy)
  BY <1>1, WorkersAssumption, FS_Subset
<1> QED BY <1>2, FS_CardinalityType

\* A task is none of the other values of a worker.
LEMMA TaskIsTask ==
    ASSUME NEW t \in Tasks
    PROVE  t # "none" /\ t # "idle" /\ t # "ended"
BY TasksAssumption

\* When all threads have ended every task is restored.
LEMMA AllEnded ==
    ASSUME PoolInv, started, \A w \in Workers : worker[w] = "ended"
    PROVE  tasks = {} /\ restored = Tasks
<1>1. PICK w \in Workers : TRUE
  BY WorkersAssumption
<1>2. tasks = {}
  BY <1>1 DEF PoolInv, EndedLast
<1>3. ASSUME NEW t \in Tasks PROVE t \in restored
  BY <1>2, <1>3, TaskIsTask DEF PoolInv, Covered
<1> QED BY <1>2, <1>3 DEF PoolInv, PoolTypes

LEMMA PoolInit == Init => PoolInv
<1> SUFFICES ASSUME Init PROVE PoolInv
  OBVIOUS
<1> USE DEF Init
<1>1. PoolTypes
  BY DEF PoolTypes, WorkerPcs
<1>2. BeforeStart /\ EndedLast /\ Returned /\ LatchCounts /\ Covered
  BY DEF BeforeStart, EndedLast, Returned, LatchCounts, Covered
<1>3. Disjoint
  BY TaskIsTask DEF Disjoint
<1> QED BY <1>1, <1>2, <1>3 DEF PoolInv

-----------------------------------------------------------------------------
\* AcceptList starts the pool, once.
LEMMA StartPool ==
    ASSUME PoolInv, AcceptList PROVE PoolInv'
<1>1. CASE started
  <2>1. UNCHANGED <<started, recovery>> /\ data # "recovering" /\ data' = data
    BY <1>1 DEF AcceptList, RecoveryDue, recovery
  <2> QED
    BY <2>1 DEF recovery, PoolInv, PoolTypes, BeforeStart, LatchCounts, Busy, Covered, Disjoint,
       EndedLast, Returned
<1>2. CASE ~started
  <2>1. /\ tasks' = Tasks /\ restored' = {} /\ started' /\ data' = "recovering"
        /\ latch' = Cardinality(Workers)
        /\ worker' = [w \in Workers |-> "idle"]
    BY <1>2 DEF AcceptList, RecoveryDue, LatchSize, PoolInv, BeforeStart
  <2>2. Busy' = Workers
    BY <2>1 DEF Busy
  <2>3. PoolTypes'
    BY <2>1 DEF PoolTypes, WorkerPcs
  <2>4. Disjoint'
    BY <2>1, TaskIsTask DEF Disjoint
  <2>5. LatchCounts'
    BY <2>1, <2>2 DEF LatchCounts
  <2>6. BeforeStart' /\ Covered' /\ EndedLast' /\ Returned'
    BY <2>1 DEF BeforeStart, Covered, EndedLast, Returned
  <2> QED BY <2>3, <2>4, <2>5, <2>6 DEF PoolInv
<1> QED BY <1>1, <1>2

\* A thread takes a task.
LEMMA TakeKeeps ==
    ASSUME PoolInv, NEW w \in Workers, NEW task \in Tasks, TakeTask(w, task)
    PROVE  PoolInv'
<1>1. /\ worker[w] = "idle" /\ task \in tasks /\ tasks' = tasks \ {task}
      /\ worker' = [worker EXCEPT ![w] = task]
      /\ UNCHANGED <<data, started, latch, restored>>
  BY DEF TakeTask, Popped
<1>2. worker \in [Workers -> WorkerPcs] /\ tasks \subseteq Tasks /\ restored \subseteq Tasks
  BY DEF PoolInv, PoolTypes
<1>3. /\ worker'[w] = task
      /\ \A v \in Workers : v # w => worker'[v] = worker[v]
      /\ worker' \in [Workers -> WorkerPcs]
  BY <1>1, <1>2 DEF WorkerPcs
<1>4. Busy' = Busy
  BY <1>1, <1>3, TaskIsTask DEF Busy
<1>5. LatchCounts'
  BY <1>1, <1>4 DEF LatchCounts, PoolInv
<1>6. Covered'
  <2> SUFFICES ASSUME started, NEW t \in Tasks
               PROVE  t \in tasks' \cup restored' \/ \E v \in Workers : worker'[v] = t
    BY <1>1 DEF Covered
  <2>1. t \in tasks \cup restored \/ \E v \in Workers : worker[v] = t
    BY DEF PoolInv, Covered
  <2>2. CASE t = task
    BY <2>2, <1>3
  <2>3. CASE t # task /\ t \in tasks \cup restored
    BY <2>3, <1>1
  <2>4. CASE \E v \in Workers : worker[v] = t
    BY <2>4, <1>1, <1>3, TaskIsTask
  <2> QED BY <2>1, <2>2, <2>3, <2>4
<1>7. Disjoint'
  <2>1. tasks' \cap restored' = {}
    BY <1>1 DEF PoolInv, Disjoint
  <2>2. \A v \in Workers : worker'[v] \notin tasks' \cup restored'
    BY <1>1, <1>3 DEF PoolInv, Disjoint
  <2>3. \A v \in Workers : v # w => worker[v] # task
    BY <1>1 DEF PoolInv, Disjoint
  <2>4. ASSUME NEW u \in Workers, NEW v \in Workers, worker'[u] \in Tasks, u # v
        PROVE  worker'[u] # worker'[v]
    BY <2>3, <2>4, <1>3 DEF PoolInv, Disjoint
  <2> QED BY <2>1, <2>2, <2>4 DEF Disjoint
<1>8. EndedLast'
  BY <1>1, <1>3, TaskIsTask DEF PoolInv, EndedLast
<1>9. BeforeStart' /\ Returned'
  BY <1>1 DEF PoolInv, BeforeStart, Returned
<1> QED BY <1>1, <1>2, <1>3, <1>5, <1>6, <1>7, <1>8, <1>9 DEF PoolInv, PoolTypes

\* A thread runs its task.
LEMMA RunKeeps ==
    ASSUME PoolInv, NEW w \in Workers, RunTask(w)
    PROVE  PoolInv'
<1> DEFINE task == worker[w]
<1>1. /\ task \in Tasks /\ restored' = restored \cup {task}
      /\ worker' = [worker EXCEPT ![w] = "idle"]
      /\ UNCHANGED <<data, started, latch, tasks>>
  BY DEF RunTask
<1>2. worker \in [Workers -> WorkerPcs] /\ tasks \subseteq Tasks /\ restored \subseteq Tasks
  BY DEF PoolInv, PoolTypes
<1>3. /\ worker'[w] = "idle"
      /\ \A v \in Workers : v # w => worker'[v] = worker[v]
      /\ worker' \in [Workers -> WorkerPcs]
  BY <1>1, <1>2 DEF WorkerPcs
<1>4. Busy' = Busy
  BY <1>1, <1>3, TaskIsTask DEF Busy
<1>5. LatchCounts'
  BY <1>1, <1>4 DEF LatchCounts, PoolInv
<1>6. Covered'
  BY <1>1, <1>3 DEF PoolInv, Covered
<1>7. Disjoint'
  <2>1. tasks' \cap restored' = {}
    BY <1>1 DEF PoolInv, Disjoint
  <2>2. ASSUME NEW v \in Workers PROVE worker'[v] \notin tasks' \cup restored'
    <3>1. CASE v = w
      BY <3>1, <1>1, <1>2, <1>3, TaskIsTask
    <3>2. CASE v # w
      BY <3>2, <1>1, <1>3 DEF PoolInv, Disjoint
    <3> QED BY <3>1, <3>2
  <2>3. ASSUME NEW u \in Workers, NEW v \in Workers, worker'[u] \in Tasks, u # v
        PROVE  worker'[u] # worker'[v]
    BY <2>3, <1>3, TaskIsTask DEF PoolInv, Disjoint
  <2> QED BY <2>1, <2>2, <2>3 DEF Disjoint
<1>8. EndedLast'
  BY <1>1, <1>3 DEF PoolInv, EndedLast
<1>9. BeforeStart' /\ Returned'
  BY <1>1, TaskIsTask DEF PoolInv, BeforeStart, Returned
<1> QED BY <1>1, <1>2, <1>3, <1>5, <1>6, <1>7, <1>8, <1>9 DEF PoolInv, PoolTypes

\* A thread finds no task and counts down.
LEMMA CountDownKeeps ==
    ASSUME PoolInv, NEW w \in Workers, CountDown(w)
    PROVE  PoolInv'
<1>1. /\ worker[w] = "idle" /\ tasks = {} /\ latch' = latch - 1
      /\ worker' = [worker EXCEPT ![w] = "ended"]
      /\ UNCHANGED <<data, started, tasks, restored>>
  BY DEF CountDown
<1>2. worker \in [Workers -> WorkerPcs] /\ tasks \subseteq Tasks /\ restored \subseteq Tasks
  BY DEF PoolInv, PoolTypes
<1>3. /\ worker'[w] = "ended"
      /\ \A v \in Workers : v # w => worker'[v] = worker[v]
      /\ worker' \in [Workers -> WorkerPcs]
  BY <1>1, <1>2 DEF WorkerPcs
<1>4. Busy' = Busy \ {w} /\ w \in Busy
  BY <1>1, <1>3 DEF Busy
<1>5. Cardinality(Busy') = Cardinality(Busy) - 1
  BY <1>4, BusyFinite, FS_RemoveElement
<1>6. LatchCounts'
  BY <1>1, <1>5 DEF LatchCounts, PoolInv
<1>7. Covered'
  BY <1>1, <1>3, TaskIsTask DEF PoolInv, Covered
<1>8. Disjoint'
  BY <1>1, <1>2, <1>3, TaskIsTask DEF PoolInv, Disjoint
<1>9. EndedLast'
  BY <1>1 DEF PoolInv, EndedLast
<1>10. BeforeStart' /\ Returned'
  BY <1>1, <1>3 DEF PoolInv, BeforeStart, Returned
<1> QED BY <1>1, <1>2, <1>3, <1>6, <1>7, <1>8, <1>9, <1>10 DEF PoolInv, PoolTypes

\* An open latch: all threads have ended.
LEMMA OpenLatch ==
    ASSUME PoolInv, started, latch = 0
    PROVE  \A w \in Workers : worker[w] = "ended"
<1>1. Cardinality(Busy) = 0
  BY DEF PoolInv, LatchCounts
<1>2. Busy = {}
  BY <1>1, BusyFinite, FS_EmptySet
<1> QED BY <1>2 DEF Busy

\* RecoverCache returns when the latch is open.
LEMMA FinishKeeps ==
    ASSUME PoolInv, FinishRecovery
    PROVE  PoolInv' /\ started
<1>1. /\ data = "recovering" /\ latch = 0
      /\ UNCHANGED <<started, tasks, worker, latch, restored>>
  BY DEF FinishRecovery, LatchOpen, recovery
<1>2. started
  BY <1>1 DEF PoolInv, BeforeStart
<1>5. \A w \in Workers : worker[w] = "ended"
  BY <1>1, <1>2, OpenLatch
<1>6. Returned'
  BY <1>1, <1>5 DEF Returned
<1>7. Busy' = Busy
  BY <1>1 DEF Busy
<1> QED
  BY <1>1, <1>2, <1>6, <1>7 DEF PoolInv, PoolTypes, BeforeStart, LatchCounts, Covered, Disjoint,
     EndedLast

\* The steps of main(), of the feeds and of the packet thread that leave the pool alone.
Elsewhere ==
    \/ Connect \/ SpawnDataThread \/ WaitForCache \/ Serve \/ SpuriousWake \/ TakeQuotes
    \/ \E packet \in Packets : OnReceive(packet)
    \/ DataWait \/ SwapQueue \/ ParseQuote \/ SkipList \/ RejectList \/ BatchDone
    \/ ThrottleExpires
    \/ UNCHANGED vars

\* None of them starts or ends a recovery; a thread that is recovering waits for
\* the latch, not for packets.
LEMMA ElsewhereFrame ==
    ASSUME NoThread, Elsewhere
    PROVE  UNCHANGED <<started, recovery>> /\ (data' = "recovering" <=> data = "recovering")
BY DEF NoThread, Notified, Elsewhere, Connect, SpawnDataThread, WaitForCache, Serve, SpuriousWake, TakeQuotes,
   OnReceive, DataWait, SwapQueue, ParseQuote, SkipList, RejectList, BatchDone, ThrottleExpires,
   vars, recovery

LEMMA ElsewhereKeeps ==
    ASSUME PoolInv, NoThread, Elsewhere
    PROVE  PoolInv'
<1>1. UNCHANGED <<started, tasks, worker, latch, restored>>
      /\ (data' = "recovering" <=> data = "recovering")
  BY ElsewhereFrame DEF recovery
<1>2. Busy' = Busy
  BY <1>1 DEF Busy
<1> QED
  BY <1>1, <1>2 DEF PoolInv, PoolTypes, BeforeStart, LatchCounts, Covered, Disjoint, EndedLast,
     Returned

-----------------------------------------------------------------------------
\* The disjuncts of Next as the lemmas above group them.
LEMMA NextCases ==
    ASSUME [Next]_vars
    PROVE  \/ Elsewhere \/ AcceptList \/ FinishRecovery
           \/ \E w \in Workers : \E task \in Tasks : TakeTask(w, task)
           \/ \E w \in Workers : RunTask(w)
           \/ \E w \in Workers : CountDown(w)
BY DEF Next, MainStep, DataStep, WorkerStep, Elsewhere

LEMMA PoolStep ==
    ASSUME PoolInv, NoThread, [Next]_vars
    PROVE  PoolInv'
<1>1. CASE Elsewhere
  BY <1>1, ElsewhereKeeps
<1>2. CASE AcceptList
  BY <1>2, StartPool
<1>3. CASE FinishRecovery
  BY <1>3, FinishKeeps
<1>4. CASE \E w \in Workers : \E task \in Tasks : TakeTask(w, task)
  BY <1>4, TakeKeeps
<1>5. CASE \E w \in Workers : RunTask(w)
  BY <1>5, RunKeeps
<1>6. CASE \E w \in Workers : CountDown(w)
  BY <1>6, CountDownKeeps
<1> QED BY <1>1, <1>2, <1>3, <1>4, <1>5, <1>6, NextCases

LEMMA NoThreadStep ==
    ASSUME NoThread, [Next]_vars
    PROVE  NoThread'
<1> USE DEF NoThread
<1>1. CASE Elsewhere
  BY <1>1 DEF Elsewhere, Connect, SpawnDataThread, WaitForCache, Serve, SpuriousWake, TakeQuotes,
     OnReceive, DataWait, SwapQueue, ParseQuote, SkipList, RejectList, BatchDone,
     ThrottleExpires, vars, Notified
<1>2. CASE AcceptList
  BY <1>2 DEF AcceptList
<1>3. CASE FinishRecovery
  BY <1>3 DEF FinishRecovery
<1>4. CASE \E w \in Workers : \E task \in Tasks : TakeTask(w, task)
  BY <1>4 DEF TakeTask
<1>5. CASE \E w \in Workers : RunTask(w)
  BY <1>5 DEF RunTask
<1>6. CASE \E w \in Workers : CountDown(w)
  BY <1>6 DEF CountDown
<1> QED BY <1>1, <1>2, <1>3, <1>4, <1>5, <1>6, NextCases

\* Only FinishRecovery notifies main(), after which a recovery is not started again.
LEMMA ServeStep ==
    ASSUME PoolInv, NoThread, ServeInv, [Next]_vars
    PROVE  ServeInv'
<1> USE DEF ServeInv
<1>1. CASE Elsewhere
  <2>1. UNCHANGED started /\ (data' = "recovering" <=> data = "recovering")
    BY <1>1, ElsewhereFrame
  <2>2. main' \in {"woken", "serving"} /\ ~early' => main \in {"woken", "serving"} /\ ~early
    BY <1>1 DEF Elsewhere, Connect, SpawnDataThread, WaitForCache, Serve, SpuriousWake,
       TakeQuotes, OnReceive, DataWait, SwapQueue, ParseQuote, SkipList, RejectList, BatchDone,
       ThrottleExpires, vars
  <2> QED BY <2>1, <2>2
<1>2. CASE AcceptList
  BY <1>2 DEF AcceptList, RecoveryDue
<1>3. CASE FinishRecovery
  BY <1>3, FinishKeeps DEF FinishRecovery
<1>4. CASE \E w \in Workers : \E task \in Tasks : TakeTask(w, task)
  BY <1>4 DEF TakeTask
<1>5. CASE \E w \in Workers : RunTask(w)
  BY <1>5 DEF RunTask
<1>6. CASE \E w \in Workers : CountDown(w)
  BY <1>6 DEF CountDown
<1> QED BY <1>1, <1>2, <1>3, <1>4, <1>5, <1>6, NextCases

\* When all threads have ended no step changes anything of the recovery.
LEMMA EndedFrame ==
    ASSUME NoThread, started, \A w \in Workers : worker[w] = "ended", [Next]_vars
    PROVE  UNCHANGED recovery
<1>1. CASE Elsewhere
  BY <1>1, ElsewhereFrame
<1>2. CASE AcceptList
  BY <1>2 DEF AcceptList, RecoveryDue, recovery
<1>3. CASE FinishRecovery
  BY <1>3 DEF FinishRecovery
<1>4. CASE \E w \in Workers : \E task \in Tasks : TakeTask(w, task)
  BY <1>4 DEF TakeTask
<1>5. CASE \E w \in Workers : RunTask(w)
  BY <1>5, TaskIsTask DEF RunTask
<1>6. CASE \E w \in Workers : CountDown(w)
  BY <1>6 DEF CountDown
<1> QED BY <1>1, <1>2, <1>3, <1>4, <1>5, <1>6, NextCases

-----------------------------------------------------------------------------
(* Types *)

\* What the steps of main(), of the feeds and of the packet thread keep; the rest
\* of TypeOK follows from the invariant of the pool.
ThreadTypes ==
    /\ main \in MainPcs /\ data \in DataPcs
    /\ received \in Seq(Packets) /\ Len(received) <= MaxQueue /\ batch \in Seq(Packets)
    /\ throttled \in BOOLEAN /\ listed \in BOOLEAN /\ started \in BOOLEAN
    /\ quotes \in BOOLEAN /\ early \in BOOLEAN
    /\ ~started => latch = 0

LEMMA TypesInit == Init => ThreadTypes
<1> SUFFICES ASSUME Init PROVE ThreadTypes
  OBVIOUS
<1>1. received \in Seq(Packets) /\ batch \in Seq(Packets) /\ Len(received) = 0
  BY DEF Init
<1>2. Len(received) <= MaxQueue
  BY <1>1, QueueAssumption
<1> QED BY <1>1, <1>2, QueueAssumption DEF Init, ThreadTypes, MainPcs, DataPcs

LEMMA TypesStep ==
    ASSUME PoolInv, ThreadTypes, [Next]_vars
    PROVE  ThreadTypes'
<1> USE DEF ThreadTypes
<1>1. CASE Connect \/ SpawnDataThread \/ WaitForCache \/ Serve \/ SpuriousWake \/ TakeQuotes
           \/ UNCHANGED vars
  BY <1>1 DEF Connect, SpawnDataThread, WaitForCache, Serve, SpuriousWake, TakeQuotes, vars,
     recovery, MainPcs, DataPcs
<1>2. ASSUME NEW packet \in Packets, OnReceive(packet)
      PROVE  ThreadTypes'
  <2>1. data' \in DataPcs
    BY <1>2 DEF OnReceive, Notified, DataPcs
  <2>2. received' \in Seq(Packets) /\ Len(received') <= MaxQueue
    <3>1. CASE Len(received) < MaxQueue /\ received' = Append(received, packet)
      <4>1. received' \in Seq(Packets) /\ Len(received') = Len(received) + 1
            /\ Len(received) \in Nat
        BY <3>1, AppendProperties
      <4> QED BY <3>1, <4>1, QueueAssumption
    <3>2. CASE UNCHANGED received
      BY <3>2
    <3> QED BY <1>2, <3>1, <3>2 DEF OnReceive
  <2> QED BY <1>2, <2>1, <2>2 DEF OnReceive, recovery
<1>3. CASE DataWait \/ BatchDone
  BY <1>3 DEF DataWait, BatchDone, recovery, DataPcs
<1>4. CASE SwapQueue
  <2>1. <<>> \in Seq(Packets) /\ Len(<<>>) = 0
    OBVIOUS
  <2> QED BY <1>4, <2>1, QueueAssumption DEF SwapQueue, recovery, DataPcs
<1>5. CASE ParseQuote \/ SkipList \/ RejectList
  <2>1. batch # <<>> /\ batch' = Tail(batch)
    BY <1>5 DEF ParseQuote, SkipList, RejectList
  <2>2. batch' \in Seq(Packets)
    BY <2>1, HeadTailProperties
  <2> QED BY <1>5, <2>2 DEF ParseQuote, SkipList, RejectList, recovery
<1>6. CASE AcceptList
  <2>1. batch # <<>> /\ batch' = Tail(batch)
    BY <1>6 DEF AcceptList
  <2>2. batch' \in Seq(Packets)
    BY <2>1, HeadTailProperties
  <2>3. data' \in DataPcs
    BY <1>6 DEF AcceptList, DataPcs
  <2> QED BY <1>6, <2>2, <2>3 DEF AcceptList
<1>7. CASE ThrottleExpires
  BY <1>7 DEF ThrottleExpires, recovery
<1>8. CASE FinishRecovery
  <2>1. started
    BY <1>8, FinishKeeps
  <2> QED BY <1>8, <2>1 DEF FinishRecovery, recovery, MainPcs, DataPcs
<1>9. ASSUME NEW w \in Workers, WorkerStep(w)
      PROVE  ThreadTypes'
  <2>1. worker[w] # "none"
    BY <1>9, TaskIsTask DEF WorkerStep, TakeTask, RunTask, CountDown
  <2>2. started
    BY <2>1 DEF PoolInv, BeforeStart
  <2> QED BY <1>9, <2>2 DEF WorkerStep, TakeTask, RunTask, CountDown
<1> QED
  BY <1>1, <1>2, <1>3, <1>4, <1>5, <1>6, <1>7, <1>8, <1>9 DEF Next, MainStep, DataStep

-----------------------------------------------------------------------------
\* The invariant of the pool holds, however main() was woken.
THEOREM PoolInvariant == Spec => [](PoolInv /\ NoThread)
<1>1. Init => PoolInv /\ NoThread
  BY PoolInit DEF Init, NoThread
<1>2. PoolInv /\ NoThread /\ [Next]_vars => (PoolInv /\ NoThread)'
  BY PoolStep, NoThreadStep
<1> QED BY <1>1, <1>2, PTL DEF Spec

\* Every variable keeps its type; in particular the latch never counts below 0 or
\* above the number of threads.
THEOREM TypeCorrect == Spec => []TypeOK
<1>1. Init => PoolInv /\ NoThread /\ ThreadTypes
  BY PoolInit, TypesInit DEF Init, NoThread
<1>2. PoolInv /\ NoThread /\ ThreadTypes /\ [Next]_vars => (PoolInv /\ NoThread /\ ThreadTypes)'
  BY PoolStep, NoThreadStep, TypesStep
<1>3. PoolInv /\ ThreadTypes => TypeOK
  <2> SUFFICES ASSUME PoolInv, ThreadTypes PROVE TypeOK
    OBVIOUS
  <2>1. Cardinality(Workers) \in Nat
    BY WorkersAssumption, FS_CardinalityType
  <2>2. latch \in 0..Cardinality(Workers)
    <3>1. CASE started
      <4>1. Busy \subseteq Workers
        BY DEF Busy
      <4>2. Cardinality(Busy) <= Cardinality(Workers)
        BY <4>1, WorkersAssumption, FS_Subset
      <4> QED BY <2>1, <3>1, <4>2, BusyFinite DEF PoolInv, LatchCounts
    <3>2. CASE ~started
      BY <2>1, <3>2 DEF ThreadTypes
    <3> QED BY <3>1, <3>2
  <2> QED BY <2>2 DEF ThreadTypes, PoolInv, PoolTypes, TypeOK
<1> QED BY <1>1, <1>2, <1>3, PTL DEF Spec

\* No task of the recovery is lost, done twice or left running when RecoverCache
\* (Util.cpp) returns.
THEOREM PoolStaysExact == Spec => []PoolIsExact
<1>1. PoolInv => PoolIsExact
  <2> SUFFICES ASSUME PoolInv PROVE PoolIsExact
    OBVIOUS
  <2>1. ASSUME started PROVE Tasks = tasks \cup restored \cup {worker[w] : w \in Running}
    BY <2>1 DEF PoolInv, PoolTypes, Covered, Running
  <2>2. /\ \A w \in Running : worker[w] \notin tasks \cup restored
        /\ \A v, w \in Running : v # w => worker[v] # worker[w]
    BY DEF PoolInv, Disjoint, Running
  <2>3. started /\ data # "recovering" => \A w \in Workers : worker[w] = "ended"
    BY DEF PoolInv, Returned
  <2> QED BY <2>1, <2>2, <2>3 DEF PoolIsExact
<1> QED BY <1>1, PoolInvariant, PTL

\* main() opens the port (OnCmdStart) only when every cache has been recovered,
\* unless its wait ended by itself.
THEOREM RecoveryPrecedesService == Spec => []ServeAfterRecovery
<1>1. Init => PoolInv /\ NoThread /\ ServeInv
  BY PoolInit DEF Init, NoThread, ServeInv
<1>2. PoolInv /\ NoThread /\ ServeInv /\ [Next]_vars => (PoolInv /\ NoThread /\ ServeInv)'
  BY PoolStep, NoThreadStep, ServeStep
<1>3. PoolInv /\ ServeInv => ServeAfterRecovery
  BY AllEnded DEF ServeAfterRecovery, ServeInv, PoolInv, Returned
<1> QED BY <1>1, <1>2, <1>3, PTL DEF Spec

\* However main() was woken, once the last thread of the pool has counted down no
\* contract list starts the recovery again (g_bRecoverCache).
THEOREM RecoveredForGood == Spec => RecoveredStays
<1>1. PoolInv /\ NoThread /\ [Next]_vars => [started /\ latch = 0 => UNCHANGED recovery]_vars
  BY OpenLatch, EndedFrame
<1> QED BY <1>1, PoolInvariant, PTL DEF Spec, RecoveredStays
=============================================================================
