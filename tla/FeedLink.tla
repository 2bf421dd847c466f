------------------------------ MODULE FeedLink ------------------------------
(***************************************************************************)
(* The connections to the two forwarding servers (CTcpPullClientImpl) and  *)
(* to the cache server (CTcpCacheClient) on top of HPSocket's CTcpClient:  *)
(* main() starts them, the heartbeat timer restarts those it believes      *)
(* stopped, the worker thread of a connection cuts the stream into packets *)
(* and reports the close.                                                  *)
(*                                                                         *)
(* Three views of one connection must agree: what the application believes *)
(* (m_enClientState), the state of the socket object (m_enState) and the   *)
(* worker thread.  m_pRecvBuffer is never cleared, so half a packet of one *)
(* connection meets the first bytes of the next.                           *)
(*                                                                         *)
(* Glued, Untrimmed, Unasked and NoRetry are mutated forms used by the     *)
(* tests of the properties only.                                           *)
(***************************************************************************)
EXTENDS Naturals, Sequences

CONSTANTS
    Feed1, Feed2, Cache,    \* g_pClient1, g_pClient2, g_pCacheClient
    Down,                   \* the links whose server never accepts
    MaxBreaks,              \* bound: connections of a link that may break
    MaxPackets,             \* bound: packets the peer sends on one connection
    GarbageLength           \* how long a packet looks whose header is no header

Feeds == {Feed1, Feed2}
Links == Feeds \cup {Cache}

ASSUME LinksAssumption == Feed1 # Feed2 /\ Cache \notin Feeds

ASSUME BoundsAssumption ==
    /\ MaxBreaks \in [Links -> Nat] /\ MaxPackets \in [Links -> Nat]
    /\ GarbageLength \in Nat \ {0}

VARIABLES
    phase,      \* main() boots and waits for the caches, then the timer runs
    at, pc,     \* the link StartClient or the timer is busy with, and where
    begun,      \* the links whose StartClient was called (history)
    app,        \* m_enClientState
    sock,       \* CTcpClient::m_enState
    conn,       \* CTcpClient::m_bConnected
    worker,     \* the worker thread of the current connection
    cut,        \* the current connection is broken
    number,     \* how many connections there have been
    pos,        \* how much of the current connection's stream was read
    buffer,     \* m_pRecvBuffer
    frames,     \* how many packets the current connection handed over (history)
    wrong,      \* which of them, counted per connection, the peer never sent (history)
    torn,       \* a connection ended inside a packet (history)
    listed      \* a packet of a feed was handed over intact: the contract list

control == <<phase, at, pc, begun>>
network == <<cut, number>>
data == <<pos, buffer, frames, wrong, torn, listed>>
vars == <<control, app, sock, conn, worker, network, data>>

AppStates == {"starting", "started", "stopped"}
SockStates == {"starting", "started", "stopping", "stopped"}
WorkerPcs == {"none", "running", "stopping", "disconnected", "closed"}
Pcs == {"begin", "start", "connect", "failed", "connected", "login", "drain", "check", "idle"}

\* CTcpPullClientImpl() leaves m_enClientState uninitialised; only that of the
\* second feed may be read before StartClient writes it.
Init ==
    /\ phase = "boot" /\ at = Cache /\ pc = "begin" /\ begun = {}
    /\ app \in {s \in [Links -> AppStates] : \A l \in Links \ {Feed2} : s[l] = "starting"}
    /\ sock = [l \in Links |-> "stopped"]
    /\ conn = [l \in Links |-> FALSE]
    /\ worker = [l \in Links |-> "none"]
    /\ cut = [l \in Links |-> FALSE]
    /\ number = [l \in Links |-> 0]
    /\ pos = [l \in Links |-> 0]
    /\ buffer = [l \in Links |-> <<>>]
    /\ frames = [l \in Links |-> 0]
    /\ wrong = [l \in Links |-> {}]
    /\ torn = [l \in Links |-> FALSE]
    /\ listed = FALSE

-----------------------------------------------------------------------------
(* The stream of a connection and its framing *)

\* Packet k of connection n arrives as two pieces.  On a feed the second piece
\* ends with the delimiter, on the cache link the first one is the header.
Piece(n, i) == [conn |-> n, packet |-> (i + 1) \div 2, part |-> IF i % 2 = 1 THEN 1 ELSE 2]
Packet(n, k) == <<Piece(n, 2 * k - 1), Piece(n, 2 * k)>>

\* get_length at the start of s: the pieces of the first packet, 0 if incomplete.
Glued(s) ==
    IF \E i \in DOMAIN s : s[i].part = 2
    THEN CHOOSE i \in DOMAIN s : s[i].part = 2 /\ \A j \in (i + 1)..Len(s) : s[j].part # 2
    ELSE 0
Delimited(s) ==
    IF \E i \in DOMAIN s : s[i].part = 2
    THEN CHOOSE i \in DOMAIN s : s[i].part = 2 /\ \A j \in 1..(i - 1) : s[j].part # 2
    ELSE 0
Measured(s) ==
    LET length == IF s # <<>> /\ s[1].part = 1 THEN 2 ELSE GarbageLength
    IN  IF s # <<>> /\ Len(s) >= length THEN length ELSE 0
FrameLength(l, s) == IF l \in Feeds THEN Delimited(s) ELSE Measured(s)

\* The loop of OnReceive: where it stops in s, and the packets it hands over.
StopsAt(l, s) ==
    LET stop[i \in 1..(Len(s) + 1)] ==
            LET n == FrameLength(l, SubSeq(s, i, Len(s))) IN IF n = 0 THEN i ELSE stop[i + n]
    IN  stop[1]
Handed(l, s) ==
    LET from[i \in 1..(Len(s) + 1)] ==
            LET n == FrameLength(l, SubSeq(s, i, Len(s)))
            IN  IF n = 0 THEN <<>> ELSE <<SubSeq(s, i, i + n - 1)>> \o from[i + n]
    IN  from[1]

\* What stays in m_pRecvBuffer.
Untrimmed(l, s) == s
Rest(l, s) == SubSeq(s, StopsAt(l, s), Len(s))

-----------------------------------------------------------------------------
(* StartClient, called by main() and by the timer, which never overlap *)

NextLink ==
    [l \in Links |-> CASE l = Feed1 -> Feed2 [] l = Feed2 -> Cache [] l = Cache -> Feed1]

\* main() connects the cache, then the feeds, the second only if the first
\* succeeded; TimerSendHeartBeat visits the feeds, then the cache.
Return(ok) ==
    IF phase = "serving"
    THEN at' = NextLink[at] /\ pc' = "check" /\ UNCHANGED phase
    ELSE IF at = Cache \/ (at = Feed1 /\ ok)
    THEN at' = NextLink[at] /\ pc' = "begin" /\ UNCHANGED phase
    ELSE phase' = "waiting" /\ at' = Feed1 /\ pc' = "idle"

SetClientState(state) == app' = [app EXCEPT ![at] = state]

Begin ==
    /\ pc = "begin"
    /\ SetClientState("starting")
    /\ begun' = begun \cup {at}
    /\ pc' = "start"
    /\ UNCHANGED <<phase, at, sock, conn, worker, network, data>>

\* CheckStarting: the socket object must be stopped.
CheckStarting ==
    /\ pc = "start"
    /\ IF sock[at] = "stopped"
       THEN sock' = [sock EXCEPT ![at] = "starting"] /\ pc' = "connect"
       ELSE pc' = "failed" /\ UNCHANGED sock
    /\ UNCHANGED <<phase, at, begun, app, conn, worker, network, data>>

\* ConnectToServer and CreateWorkerThread; nothing else uses the link meanwhile.
Connect ==
    /\ pc = "connect"
    /\ at \notin Down
    /\ sock' = [sock EXCEPT ![at] = "started"]
    /\ conn' = [conn EXCEPT ![at] = TRUE]
    /\ worker' = [worker EXCEPT ![at] = "running"]
    /\ number' = [number EXCEPT ![at] = @ + 1]
    /\ pos' = [pos EXCEPT ![at] = 0]
    /\ frames' = [frames EXCEPT ![at] = 0]
    /\ pc' = "connected"
    /\ UNCHANGED <<phase, at, begun, app, cut, buffer, wrong, torn, listed>>

\* The server does not accept.  Start undoes itself with Stop, without OnClose.
Refused ==
    /\ pc = "connect"
    /\ sock' = [sock EXCEPT ![at] = "stopped"]
    /\ pc' = "failed"
    /\ UNCHANGED <<phase, at, begun, app, conn, worker, network, data>>

Connected ==
    /\ pc = "connected"
    /\ SetClientState("started")
    /\ IF at \in Feeds THEN pc' = "login" /\ UNCHANGED <<phase, at>> ELSE Return(TRUE)
    /\ UNCHANGED <<begun, sock, conn, worker, network, data>>

\* A feed sends LGIN; Send fails if the connection is gone.
Unasked == TRUE
LoginSent == conn[at]
Login ==
    /\ pc = "login"
    /\ IF LoginSent THEN Return(TRUE) ELSE pc' = "drain" /\ UNCHANGED <<phase, at>>
    /\ UNCHANGED <<begun, app, sock, conn, worker, network, data>>

\* m_Client->Stop() waits until the worker has stopped the socket object.
Drain ==
    /\ pc = "drain"
    /\ sock[at] = "stopped"
    /\ pc' = "failed"
    /\ UNCHANGED <<phase, at, begun, app, sock, conn, worker, network, data>>

Failed ==
    /\ pc = "failed"
    /\ SetClientState("stopped")
    /\ Return(FALSE)
    /\ UNCHANGED <<begun, sock, conn, worker, network, data>>

\* The contract list lets the recovery run and main() opens the port and starts
\* the timer (see Startup).
Serve ==
    /\ phase = "waiting"
    /\ listed
    /\ phase' = "serving"
    /\ pc' = "check"
    /\ UNCHANGED <<at, begun, app, sock, conn, worker, network, data>>

\* TimerSendHeartBeat: a heartbeat that cannot be sent is only logged.
NoRetry == FALSE
RestartDue == app[at] = "stopped"
Check ==
    /\ pc = "check"
    /\ IF RestartDue THEN pc' = "begin" /\ UNCHANGED at ELSE at' = NextLink[at] /\ UNCHANGED pc
    /\ UNCHANGED <<phase, begun, app, sock, conn, worker, network, data>>

Caller == Begin \/ CheckStarting \/ Connect \/ Refused \/ Connected \/ Login \/ Drain
          \/ Failed \/ Serve \/ Check

-----------------------------------------------------------------------------
(* The worker thread of link l *)

\* Whether the current connection of l is inside a packet.
InPacket(l) == pos[l] % 2 = 1

\* ReadData and OnReceive; the pieces come in any portions.
Receive(l) ==
    /\ worker[l] = "running"
    /\ \E n \in 1..(2 * MaxPackets[l] - pos[l]) :
        LET s == buffer[l] \o [i \in 1..n |-> Piece(number[l], pos[l] + i)]
            packets == Handed(l, s)
            Intact(j) == packets[j] = Packet(number[l], frames[l] + j)
        IN  /\ pos' = [pos EXCEPT ![l] = @ + n]
            /\ buffer' = [buffer EXCEPT ![l] = Rest(l, s)]
            /\ frames' = [frames EXCEPT ![l] = @ + Len(packets)]
            /\ wrong' = [wrong EXCEPT ![l] =
                   @ \cup {frames[l] + j : j \in {i \in DOMAIN packets : ~Intact(i)}}]
            /\ listed' = (listed \/ (l \in Feeds /\ \E j \in DOMAIN packets : Intact(j)))
    /\ UNCHANGED <<control, app, sock, conn, worker, network, torn>>

\* The worker notices the close, or its poll fails: CheckStoping ...
WorkerStops(l) ==
    /\ worker[l] = "running"
    /\ cut[l]
    /\ sock' = [sock EXCEPT ![l] = "stopping"]
    /\ worker' = [worker EXCEPT ![l] = "stopping"]
    /\ torn' = [torn EXCEPT ![l] = @ \/ InPacket(l)]
    /\ UNCHANGED <<control, app, conn, network, pos, buffer, frames, wrong, listed>>

\* ... SetConnected(FALSE) ...
Disconnected(l) ==
    /\ worker[l] = "stopping"
    /\ conn' = [conn EXCEPT ![l] = FALSE]
    /\ worker' = [worker EXCEPT ![l] = "disconnected"]
    /\ UNCHANGED <<control, app, sock, network, data>>

\* ... FireClose ...
OnClose(l) ==
    /\ worker[l] = "disconnected"
    /\ app' = [app EXCEPT ![l] = "stopped"]
    /\ worker' = [worker EXCEPT ![l] = "closed"]
    /\ UNCHANGED <<control, sock, conn, network, data>>

\* ... and Reset, after which the object may be started again.
Reset(l) ==
    /\ worker[l] = "closed"
    /\ sock' = [sock EXCEPT ![l] = "stopped"]
    /\ worker' = [worker EXCEPT ![l] = "none"]
    /\ cut' = [cut EXCEPT ![l] = FALSE]
    /\ UNCHANGED <<control, app, conn, number, data>>

Worker(l) == Receive(l) \/ WorkerStops(l) \/ Disconnected(l) \/ OnClose(l) \/ Reset(l)

-----------------------------------------------------------------------------
(* The network *)

Break(l) ==
    /\ worker[l] = "running" /\ ~cut[l]
    /\ number[l] <= MaxBreaks[l]
    /\ cut' = [cut EXCEPT ![l] = TRUE]
    /\ UNCHANGED <<control, app, sock, conn, worker, number, data>>

Next ==
    \/ Caller
    \/ \E l \in Links : Worker(l)
    \/ \E l \in Links : Break(l)

\* The threads are scheduled, a server that is not down for good accepts a client
\* that keeps trying, and the feeds answer a login with the contract list.
Fairness ==
    /\ WF_vars(Caller)
    /\ \A l \in Links : WF_vars(Worker(l)) /\ SF_vars(at = l /\ Connect)

Spec == Init /\ [][Next]_vars /\ Fairness

-----------------------------------------------------------------------------
(* Properties *)

\* Type invariant.
TypeOK ==
    /\ phase \in {"boot", "waiting", "serving"} /\ at \in Links /\ pc \in Pcs
    /\ begun \subseteq Links /\ app \in [Links -> AppStates] /\ sock \in [Links -> SockStates]
    /\ conn \in [Links -> BOOLEAN] /\ worker \in [Links -> WorkerPcs]
    /\ {cut, torn} \subseteq [Links -> BOOLEAN] /\ listed \in BOOLEAN
    /\ \A l \in Links :
        /\ number[l] \in 0..(MaxBreaks[l] + 1) /\ pos[l] \in 0..(2 * MaxPackets[l])
        /\ frames[l] \in 0..(2 * MaxPackets[l] + 1) /\ wrong[l] \subseteq 1..(2 * MaxPackets[l] + 1)
        /\ \A i \in DOMAIN buffer[l] : buffer[l][i] \in
               [conn : 1..number[l], packet : 1..MaxPackets[l], part : {1, 2}]

\* What the application believes of a feed is true or about to be corrected: a
\* link marked stopped has no open connection, so that the timer may restart it,
\* and one marked started has one, unless its worker is about to report the close
\* or StartClient is about to notice it.
Settled(l) == ~(at = l /\ pc \in {"connected", "login", "drain", "failed"})
StateTruthful ==
    \A l \in begun :
        /\ app[l] = "stopped" => sock[l] # "started"
        /\ l \in Feeds /\ app[l] = "started" /\ Settled(l) =>
               sock[l] = "started" \/ worker[l] \in {"stopping", "disconnected"}

\* m_pRecvBuffer survives a reconnection, but on a feed only the first packet of a
\* connection is spoilt by what a broken packet left: the delimiter resynchronises.
\* On the cache link nothing is spoilt until a connection has ended inside a packet.
OnlyFirstSpoilt ==
    \A l \in Links : wrong[l] # {} =>
        /\ torn[l]
        /\ l \in Feeds => wrong[l] = {1}

\* Once the timer runs, a feed whose StartClient was called is connected again after
\* every break, although closes, logins and the timer overlap.
Alive(l) == app[l] = "started" /\ sock[l] = "started" /\ worker[l] = "running"
FeedRestored ==
    \A l \in Feeds \ Down : phase = "serving" /\ l \in begun ~> Alive(l)

\* "two forwarding servers at the same time, in case one of them is down": a
\* second feed that is up suffices to get the server started.
OneFeedSuffices == Feeds \subseteq Down \/ <>(phase = "serving")
=============================================================================
