------------------------------ MODULE FrontEnd ------------------------------
(***************************************************************************)
(* The way of a quote from the two feeds to the logged-in front-ends:      *)
(* HandleHQDYDateProc drops what the other feed delivered already          *)
(* (IsNewTick), HandledQuoteDataProc keeps the newest quote of a contract  *)
(* (HandleQuote) and sends it to a copy of g_setFrontEndConnids, while     *)
(* threads of the pool log front-ends in (LGIN) and I/O threads close      *)
(* connections.                                                            *)
(*                                                                         *)
(* A login locks the set of front-ends and the map of quotes one after the *)
(* other and sends its reply with no lock, so a broadcast may fall between *)
(* any two of its steps, and a close as well.                              *)
(*                                                                         *)
(* Unsignalled, OneTooMany, EvictNewest, PublishAll and SnapshotFirst are  *)
(* mutated forms used by the tests of the properties only.                 *)
(***************************************************************************)
EXTENDS Naturals, Sequences, FiniteSets, SequencesExt

CONSTANTS
    Feeds,          \* the connections to the forwarding servers
    Conns,          \* ids of front-end connections; an id is used once
    Tape,           \* what the exchange publishes: [contract, date, time, total]
    Window,         \* g_iUinqueLen (5000)
    MaxQueue        \* bound: quotes received and not yet handled

Quotes == DOMAIN Tape
Contracts == {Tape[q].contract : q \in Quotes}

ASSUME TapeAssumption ==
    /\ Tape \in Seq(Range(Tape))
    /\ \A q \in Quotes : Tape[q].time \in Nat /\ Tape[q].total \in Nat

ASSUME WindowAssumption == Window \in Nat \ {0} /\ MaxQueue \in Nat

VARIABLES
    delivered,  \* the newest quote each feed has delivered
    raw,        \* g_queueHQDYData
    unique,     \* g_listUniqueTick; g_setUniqueTick holds the same quotes
    handled,    \* g_queueHandledData
    thread,     \* where HandleHQDYDateProc and HandledQuoteDataProc are
    last,       \* g_mapLastQuote, 0 for a contract without a quote
    quote,      \* the quote HandleQuoteProc is busy with
    targets,    \* setConnids, the connections still to be sent the quote
    clients,    \* g_setFrontEndConnids
    conn,       \* the connections
    login,      \* where the LGIN of a connection is
    reply,      \* resultBuffer: the quotes the reply to LGIN will carry
    shown,      \* the last quote of a contract sent to a connection (history)
    fresh,      \* whether a connection was sent last[k] (history)
    overtaken,  \* the last quote sent came between snapshot and reply (history)
    since       \* how many quotes passed IsNewTick since a quote did (history)

queues == <<delivered, raw, unique, handled, since>>
broadcast == <<last, quote, targets>>
sent == <<shown, fresh, overtaken>>
logins == <<clients, conn, login, reply>>
vars == <<queues, thread, broadcast, sent, logins>>

Least(m, n) == IF m < n THEN m ELSE n
None == [k \in Contracts |-> 0]

Init ==
    /\ delivered = [f \in Feeds |-> 0]
    /\ raw = <<>> /\ unique = <<>> /\ handled = <<>>
    /\ thread = [filter |-> "ready", handler |-> "ready"]
    /\ last = None /\ quote = 0 /\ targets = {}
    /\ clients = {} /\ conn = [c \in Conns |-> "none"]
    /\ login = [c \in Conns |-> "none"] /\ reply = [c \in Conns |-> None]
    /\ shown = [c \in Conns |-> None] /\ fresh = {}
    /\ overtaken = {}
    /\ since = [q \in Quotes |-> Window]   \* Window and more

-----------------------------------------------------------------------------
(* BlockingQueue: wait_dequeue tests the queue again after a wakeup *)

Waits(t, queue) ==
    /\ thread[t] = "ready" /\ queue = <<>>
    /\ thread' = [thread EXCEPT ![t] = "waiting"]

Unsignalled(t) == thread[t]
Notified(t) == IF thread[t] = "waiting" THEN "ready" ELSE thread[t]

-----------------------------------------------------------------------------
(* The feeds and HandleHQDYDateProc *)

\* Each feed delivers in the order of the tape; a lost packet is skipped.
Deliver(f) ==
    /\ Len(raw) + Len(handled) < MaxQueue
    /\ \E q \in (delivered[f] + 1)..Len(Tape) :
        /\ delivered' = [delivered EXCEPT ![f] = q]
        /\ raw' = Append(raw, q)
        /\ thread' = [thread EXCEPT !.filter = Notified("filter")]
    /\ UNCHANGED <<unique, handled, since, broadcast, sent, logins>>

OneTooMany(list) == IF Len(list) > Window THEN Tail(list) ELSE list
EvictNewest(list) == IF Len(list) >= Window THEN Front(list) ELSE list
Evict(list) == IF Len(list) >= Window THEN Tail(list) ELSE list
IsNewTick(q) == q \notin Range(unique)

FilterWaits == Waits("filter", raw) /\ UNCHANGED <<queues, broadcast, sent, logins>>

\* Only this thread reads raw and unique and writes handled.
Filter ==
    /\ thread.filter = "ready" /\ raw # <<>>
    /\ raw' = Tail(raw)
    /\ LET q == Head(raw) IN
       IF IsNewTick(q)
       THEN /\ unique' = Evict(Append(unique, q))
            /\ since' = [p \in Quotes |-> IF p = q THEN 0 ELSE Least(since[p] + 1, Window)]
            /\ handled' = Append(handled, q)
            /\ thread' = [thread EXCEPT !.handler = Notified("handler")]
       ELSE UNCHANGED <<unique, since, handled, thread>>
    /\ UNCHANGED <<delivered, broadcast, sent, logins>>

-----------------------------------------------------------------------------
(* HandledQuoteDataProc *)

HandlerWaits == Waits("handler", handled) /\ UNCHANGED <<queues, broadcast, sent, logins>>

\* HandleQuote drops a quote older than the last one of its trading day.
Older(q, p) == Tape[q].time < Tape[p].time \/ Tape[q].total < Tape[p].total
Refused(q) ==
    LET p == last[Tape[q].contract]
    IN  p # 0 /\ Tape[p].date = Tape[q].date /\ Older(q, p)

PublishAll(q) == "copy"
AfterHandleQuote(q) == IF Refused(q) THEN "ready" ELSE "copy"

HandleQuote ==
    /\ thread.handler = "ready" /\ handled # <<>>
    /\ LET q == Head(handled) IN
        /\ handled' = Tail(handled)
        /\ thread' = [thread EXCEPT !.handler = AfterHandleQuote(q)]
        /\ quote' = IF AfterHandleQuote(q) = "copy" THEN q ELSE 0
        /\ IF Refused(q)
           THEN UNCHANGED <<last, fresh>>
           ELSE /\ last' = [last EXCEPT ![Tape[q].contract] = q]
                /\ fresh' = {f \in fresh : f[2] # Tape[q].contract}
    /\ UNCHANGED <<delivered, raw, unique, since, targets, shown, overtaken, logins>>

\* HandleQuoteProc copies the set of front-ends ...
CopyFrontEnds ==
    /\ thread.handler = "copy"
    /\ targets' = clients
    /\ thread' = [thread EXCEPT !.handler = "send"]
    /\ UNCHANGED <<queues, last, quote, sent, logins>>

Send(c, k) ==
    /\ shown' = [shown EXCEPT ![c][k] = quote]
    /\ fresh' = IF quote = last[k] THEN fresh \cup {<<c, k>>} ELSE fresh
    /\ overtaken' = IF login[c] = "reply" THEN overtaken \cup {<<c, k>>}
                  ELSE overtaken \ {<<c, k>>}

\* ... and sends to each; Send on a connection that is closing fails unnoticed.
\* The bars it computes then are the subject of KLine.
SendQuote ==
    /\ thread.handler = "send"
    /\ IF targets = {}
       THEN /\ thread' = [thread EXCEPT !.handler = "ready"]
            /\ quote' = 0
            /\ UNCHANGED <<targets, sent>>
       ELSE \E c \in targets :
            /\ targets' = targets \ {c}
            /\ IF conn[c] = "open" THEN Send(c, Tape[quote].contract) ELSE UNCHANGED sent
            /\ UNCHANGED <<thread, quote>>
    /\ UNCHANGED <<queues, last, logins>>

-----------------------------------------------------------------------------
(* Front-ends *)

Accept(c) ==
    /\ conn[c] = "none"
    /\ conn' = [conn EXCEPT ![c] = "open"]
    /\ UNCHANGED <<queues, thread, broadcast, sent, clients, login, reply>>

\* The order of the steps of LGIN with the right password.
SnapshotFirst == <<"snapshot", "insert", "reply", "done">>
LoginSteps == <<"insert", "snapshot", "reply", "done">>
NextStep(step) ==
    LoginSteps[1 + CHOOSE i \in DOMAIN LoginSteps : LoginSteps[i] = step]

\* OnReceive submits the packet to the pool.
SubmitLogin(c) ==
    /\ conn[c] = "open" /\ login[c] = "none"
    /\ \E step \in {LoginSteps[1], "refuse"} : login' = [login EXCEPT ![c] = step]
    /\ UNCHANGED <<queues, thread, broadcast, sent, clients, conn, reply>>

Step(c, step) == login[c] = step /\ login' = [login EXCEPT ![c] = NextStep(step)]

InsertId(c) ==
    /\ Step(c, "insert")
    /\ clients' = clients \cup {c}
    /\ UNCHANGED <<queues, thread, broadcast, sent, conn, reply>>

TakeSnapshot(c) ==
    /\ Step(c, "snapshot")
    /\ reply' = [reply EXCEPT ![c] = last]
    /\ UNCHANGED <<queues, thread, broadcast, sent, clients, conn>>

\* HandleWorkerData sends the reply if it is not empty.
SendReply(c) ==
    /\ Step(c, "reply")
    /\ IF conn[c] = "open"
       THEN /\ shown' = [shown EXCEPT ![c] =
                   [k \in Contracts |-> IF reply[c][k] # 0 THEN reply[c][k] ELSE @[k]]]
            /\ fresh' = fresh \cup {<<c, k>> : k \in {k \in Contracts : reply[c][k] = last[k]}}
       ELSE UNCHANGED <<shown, fresh>>
    /\ reply' = [reply EXCEPT ![c] = None]
    /\ UNCHANGED <<queues, thread, broadcast, overtaken, clients, conn>>

\* A wrong password: bForceDisconnect, and HandleWorkerData disconnects.
RefuseLogin(c) ==
    /\ login[c] = "refuse"
    /\ login' = [login EXCEPT ![c] = "refused"]
    /\ conn' = [conn EXCEPT ![c] = IF @ = "open" THEN "closing" ELSE @]
    /\ UNCHANGED <<queues, thread, broadcast, sent, clients, reply>>

\* The front-end closes the connection.
Hangup(c) ==
    /\ conn[c] = "open"
    /\ conn' = [conn EXCEPT ![c] = "closing"]
    /\ UNCHANGED <<queues, thread, broadcast, sent, clients, login, reply>>

WithoutId(c) == clients \ {c}
OnClose(c) ==
    /\ conn[c] = "closing"
    /\ conn' = [conn EXCEPT ![c] = "closed"]
    /\ clients' = WithoutId(c)
    /\ UNCHANGED <<queues, thread, broadcast, sent, login, reply>>

-----------------------------------------------------------------------------
FilterThread == FilterWaits \/ Filter
HandlerThread == HandlerWaits \/ HandleQuote \/ CopyFrontEnds \/ SendQuote
PoolThread(c) == InsertId(c) \/ TakeSnapshot(c) \/ SendReply(c) \/ RefuseLogin(c)

Next ==
    \/ \E f \in Feeds : Deliver(f)
    \/ FilterThread
    \/ HandlerThread
    \/ \E c \in Conns : Accept(c) \/ SubmitLogin(c) \/ Hangup(c) \/ OnClose(c)
    \/ \E c \in Conns : PoolThread(c)

\* The threads are scheduled; nothing obliges a feed or a front-end to act.
Fairness ==
    /\ WF_vars(FilterThread) /\ WF_vars(HandlerThread)
    /\ \A c \in Conns : WF_vars(PoolThread(c)) /\ WF_vars(OnClose(c))

Spec == Init /\ [][Next]_vars /\ Fairness

-----------------------------------------------------------------------------
(* Properties *)

\* Type invariant; the window of IsNewTick stays one below its length.
TypeOK ==
    /\ delivered \in [Feeds -> 0..Len(Tape)]
    /\ {raw, unique, handled} \subseteq Seq(Quotes)
    /\ Len(raw) + Len(handled) <= MaxQueue /\ Len(unique) < Window
    /\ thread.filter \in {"ready", "waiting"}
    /\ thread.handler \in {"ready", "waiting", "copy", "send"}
    /\ last \in [Contracts -> 0..Len(Tape)] /\ quote \in 0..Len(Tape)
    /\ targets \subseteq Conns /\ clients \subseteq Conns
    /\ conn \in [Conns -> {"none", "open", "closing", "closed"}]
    /\ login \in [Conns -> Range(LoginSteps) \cup {"none", "refuse", "refused"}]
    /\ reply \in [Conns -> [Contracts -> 0..Len(Tape)]]
    /\ shown \in [Conns -> [Contracts -> 0..Len(Tape)]]
    /\ fresh \cup overtaken \subseteq Conns \X Contracts /\ since \in [Quotes -> 0..Window]

\* HandleQuoteProc has accepted a quote of contract k it has still to send to c.
Underway(c, k) ==
    /\ quote # 0 /\ Tape[quote].contract = k
    /\ thread.handler = "copy" \/ (thread.handler = "send" /\ c \in targets)

LoggedIn(c) == conn[c] = "open" /\ login[c] = "done"

\* A front-end whose login is through was sent the newest quote of every contract,
\* by the broadcast or in the reply: none falls between the two.
NoQuoteMissed ==
    \A c \in Conns, k \in Contracts :
        LoggedIn(c) /\ last[k] # 0 /\ ~Underway(c, k) => <<c, k>> \in fresh

\* The last quote it was sent is the newest one as well. When a broadcast overtook
\* the reply it may be older, but only until the next quote of that contract is sent.
StaleOnlyIfOvertaken ==
    \A c \in Conns, k \in Contracts :
        LoggedIn(c) /\ ~Underway(c, k) => shown[c][k] = last[k] \/ <<c, k>> \in overtaken

\* What both feeds deliver is handled once: the last Window - 1 quotes that passed
\* IsNewTick are recognised, however the feeds lag and whatever passes again.
RepeatNeedsWindow == \A q \in Quotes : since[q] < Window - 1 => ~IsNewTick(q)

\* No notification is lost: the queues are emptied for good.
QueuesDrain == []<>(raw = <<>>) /\ []<>(handled = <<>> /\ thread.handler = "waiting")
=============================================================================
