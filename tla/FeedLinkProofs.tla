--------------------------- MODULE FeedLinkProofs ---------------------------
(***************************************************************************)
(* Proofs about FeedLink for every number of breaks and packets and every  *)
(* length a packet without header seems to have: what the application      *)
(* believes of a feed is true or about to be corrected, and what a broken  *)
(* packet leaves in m_pRecvBuffer spoils at most the first packet of a     *)
(* feed's connection.                                                      *)
(***************************************************************************)
EXTENDS FeedLink, Integers, WellFoundedInduction, SequenceTheorems, TLAPS

\* The socket object follows its worker thread, and StartClient.
SocketOf(l) ==
    /\ worker[l] = "running" <=> sock[l] = "started"
    /\ worker[l] \in {"stopping", "disconnected", "closed"} <=> sock[l] = "stopping"
    /\ sock[l] = "starting" <=> at = l /\ pc = "connect"
    /\ conn[l] <=> worker[l] \in {"running", "stopping"}

\* A worker ends only because its connection broke.
BreaksOf(l) ==
    /\ cut[l] => worker[l] # "none"
    /\ worker[l] \in {"stopping", "disconnected", "closed"} => cut[l]
    /\ number[l] \in Nat
    /\ worker[l] # "running" \/ cut[l] => number[l] <= MaxBreaks[l]
    /\ number[l] <= MaxBreaks[l] + 1
    /\ worker[l] # "none" => number[l] > 0

SocketInv == \A l \in Links : SocketOf(l) /\ BreaksOf(l)

\* Which links main() has not come to yet, and what a caller in StartClient knows.
PhaseInv ==
    /\ phase = "boot" => pc \notin {"check", "idle"}
    /\ phase = "waiting" => pc = "idle"
    /\ phase = "serving" => pc # "idle"
    /\ phase = "boot" /\ at = Cache => Feed1 \notin begun
    /\ phase = "boot" /\ at \in {Cache, Feed1} => Feed2 \notin begun
    /\ phase = "boot" /\ pc = "begin" => at \notin begun
    /\ pc \notin {"begin", "check", "idle"} => at \in begun
    /\ \A l \in Links \ begun : worker[l] = "none"

\* A link marked stopped has reported its close, a settled one marked started has
\* not; while StartClient works on a link its worker has closed it.
ClientInv ==
    /\ \A l \in begun : app[l] = "stopped" => worker[l] \in {"closed", "none"}
    /\ pc \in {"begin", "start", "failed"} => worker[at] \in {"closed", "none"}
    /\ pc \in {"start", "connect"} => app[at] = "starting"
    /\ \A l \in begun \cap Feeds : app[l] = "started" /\ Settled(l) =>
           worker[l] \in {"running", "stopping", "disconnected"}

ControlTypes ==
    /\ phase \in {"boot", "waiting", "serving"} /\ at \in Links /\ pc \in Pcs
    /\ begun \subseteq Links /\ app \in [Links -> AppStates] /\ sock \in [Links -> SockStates]
    /\ conn \in [Links -> BOOLEAN] /\ worker \in [Links -> WorkerPcs]
    /\ cut \in [Links -> BOOLEAN] /\ number \in [Links -> Nat]

ControlInv == ControlTypes /\ SocketInv /\ PhaseInv /\ ClientInv

-----------------------------------------------------------------------------
(* Induction over the natural numbers *)

\* A nonempty set of natural numbers has a least element.
LEMMA LeastNumber ==
    ASSUME NEW T \in SUBSET Nat, T # {}
    PROVE  \E x \in T : \A y \in T : x <= y
<1>1. PICK x \in T : \A y \in T : ~(<<y, x>> \in OpToRel(<, Nat))
  BY NatLessThanWellFounded, WFMin
<1>2. \A y \in T : ~(y < x)
  BY <1>1 DEF OpToRel
<1> QED BY <1>2

\* A set with 0 and the successor of each of its numbers has all of them.
LEMMA SetInduction ==
    ASSUME NEW T, 0 \in T, \A n \in Nat : n \in T => n + 1 \in T
    PROVE  Nat \subseteq T
<1> SUFFICES ASSUME Nat \ T # {} PROVE FALSE
  OBVIOUS
<1>1. PICK x \in Nat \ T : \A y \in Nat \ T : x <= y
  BY LeastNumber
<1>2. x - 1 \in Nat
  BY <1>1
<1> QED BY <1>1, <1>2

-----------------------------------------------------------------------------
(* The links and who visits them *)

LEMMA LinksAre ==
    /\ Links = {Feed1, Feed2, Cache} /\ Feeds = {Feed1, Feed2}
    /\ Feed1 # Feed2 /\ Feed1 # Cache /\ Feed2 # Cache
BY LinksAssumption DEF Links, Feeds

LEMMA NextLinkIs ==
    /\ NextLink[Feed1] = Feed2 /\ NextLink[Feed2] = Cache /\ NextLink[Cache] = Feed1
    /\ \A l \in Links : NextLink[l] \in Links /\ NextLink[l] # l
<1>1. /\ NextLink[Feed1] = Feed2 /\ NextLink[Feed2] = Cache /\ NextLink[Cache] = Feed1
  BY LinksAre DEF NextLink
<1> QED BY <1>1, LinksAre

\* What Return makes of the caller.
LEMMA ReturnIs ==
    ASSUME PhaseInv, at \in Links, phase \in {"boot", "waiting", "serving"}, pc \in Pcs,
           pc \notin {"begin", "check", "idle"}, NEW ok \in BOOLEAN, Return(ok),
           UNCHANGED <<begun, worker>>
    PROVE  /\ at' \in Links /\ phase' \in {"boot", "waiting", "serving"}
           /\ pc' \in {"begin", "check", "idle"}
           /\ pc' = "begin" => at' \notin begun
           /\ PhaseInv'
<1>1. CASE phase = "serving"
  <2>1. at' = NextLink[at] /\ pc' = "check" /\ phase' = "serving"
    BY <1>1 DEF Return
  <2> QED BY <2>1, NextLinkIs DEF PhaseInv
<1>2. CASE phase # "serving" /\ (at = Cache \/ (at = Feed1 /\ ok))
  <2>1. at' = NextLink[at] /\ pc' = "begin" /\ phase' = phase /\ phase = "boot"
    BY <1>2 DEF Return, PhaseInv
  <2>2. at' \in {Feed1, Feed2} /\ at' \notin begun
    BY <1>2, <2>1, NextLinkIs DEF PhaseInv
  <2>3. at' # Cache /\ (at' = Feed1 => at = Cache)
    BY <1>2, <2>1, LinksAre, NextLinkIs
  <2> QED BY <2>1, <2>2, <2>3, LinksAre DEF PhaseInv
<1>3. CASE phase # "serving" /\ ~(at = Cache \/ (at = Feed1 /\ ok))
  <2>1. phase' = "waiting" /\ at' = Feed1 /\ pc' = "idle"
    BY <1>3 DEF Return
  <2> QED BY <2>1, LinksAre DEF PhaseInv
<1> QED BY <1>1, <1>2, <1>3

LEMMA ControlInit == Init => ControlInv
<1> SUFFICES ASSUME Init PROVE ControlInv
  OBVIOUS
<1>1. ControlTypes
  BY LinksAre DEF Init, ControlTypes, AppStates, SockStates, WorkerPcs, Pcs
<1>2. SocketInv
  BY BoundsAssumption DEF Init, SocketInv, SocketOf, BreaksOf
<1>3. PhaseInv /\ ClientInv
  BY LinksAre DEF Init, PhaseInv, ClientInv
<1> QED BY <1>1, <1>2, <1>3 DEF ControlInv

-----------------------------------------------------------------------------
(* The control: steps of the caller *)

\* A step that changes neither a socket object nor a worker keeps their relation,
\* provided that it neither enters nor leaves the connecting.
LEMMA SameSockets ==
    ASSUME ControlInv, UNCHANGED <<sock, conn, worker, cut, number>>,
           pc # "connect", pc' # "connect"
    PROVE  SocketInv'
BY DEF ControlInv, SocketInv, SocketOf, BreaksOf

\* What a step of a link's caller has to establish for ClientInv.
LEMMA BeginControl == ASSUME ControlInv, Begin PROVE ControlInv'
<1> USE DEF ControlInv
<1>1. /\ pc = "begin" /\ pc' = "start" /\ app' = [app EXCEPT ![at] = "starting"]
      /\ begun' = begun \cup {at}
      /\ UNCHANGED <<phase, at, sock, conn, worker, cut, number>>
  BY DEF Begin, SetClientState, network
<1>2. ControlTypes'
  BY <1>1 DEF ControlTypes, AppStates, Pcs
<1>3. SocketInv'
  BY <1>1, SameSockets
<1>4. PhaseInv'
  BY <1>1, LinksAre DEF PhaseInv, ControlTypes
<1>5. /\ app'[at] = "starting" /\ \A l \in Links : l # at => app'[l] = app[l]
      /\ at \in Links
  BY <1>1 DEF ControlTypes
<1>6. ClientInv'
  BY <1>1, <1>5 DEF ClientInv, ControlTypes, Settled
<1> QED BY <1>2, <1>3, <1>4, <1>6

LEMMA CheckStartingControl == ASSUME ControlInv, CheckStarting PROVE ControlInv'
<1> USE DEF ControlInv
<1>1. /\ pc = "start"
      /\ UNCHANGED <<phase, at, begun, app, conn, worker, cut, number>>
  BY DEF CheckStarting, network
<1>2. CASE sock[at] = "stopped"
  <2>1. sock' = [sock EXCEPT ![at] = "starting"] /\ pc' = "connect"
    BY <1>2 DEF CheckStarting
  <2>2. /\ sock'[at] = "starting" /\ \A l \in Links : l # at => sock'[l] = sock[l]
        /\ at \in Links
    BY <2>1 DEF ControlTypes
  <2>3. ControlTypes'
    BY <1>1, <2>1 DEF ControlTypes, SockStates, Pcs
  <2>4. \A l \in Links : SocketOf(l)'
    BY <1>1, <1>2, <2>1, <2>2 DEF SocketInv, SocketOf
  <2>5. \A l \in Links : BreaksOf(l)'
    BY <1>1 DEF SocketInv, BreaksOf
  <2>6. PhaseInv'
    BY <1>1, <2>1 DEF PhaseInv
  <2>7. ClientInv'
    BY <1>1, <2>1 DEF ClientInv, Settled
  <2> QED BY <2>3, <2>4, <2>5, <2>6, <2>7 DEF SocketInv
<1>3. CASE sock[at] # "stopped"
  <2>1. pc' = "failed" /\ UNCHANGED sock
    BY <1>3 DEF CheckStarting
  <2>2. ControlTypes'
    BY <1>1, <2>1 DEF ControlTypes, Pcs
  <2>3. SocketInv'
    BY <1>1, <2>1, SameSockets
  <2>4. PhaseInv' /\ ClientInv'
    BY <1>1, <2>1 DEF PhaseInv, ClientInv, Settled
  <2> QED BY <2>2, <2>3, <2>4
<1> QED BY <1>2, <1>3

LEMMA ConnectControl == ASSUME ControlInv, Connect PROVE ControlInv'
<1> USE DEF ControlInv
<1>1. /\ pc = "connect" /\ pc' = "connected"
      /\ sock' = [sock EXCEPT ![at] = "started"]
      /\ conn' = [conn EXCEPT ![at] = TRUE]
      /\ worker' = [worker EXCEPT ![at] = "running"]
      /\ number' = [number EXCEPT ![at] = number[at] + 1]
      /\ UNCHANGED <<phase, at, begun, app, cut>>
  BY DEF Connect
<1>2. /\ at \in Links /\ at \in begun
      /\ sock'[at] = "started" /\ conn'[at] = TRUE /\ worker'[at] = "running"
      /\ number'[at] = number[at] + 1
      /\ \A l \in Links : l # at =>
            /\ sock'[l] = sock[l] /\ conn'[l] = conn[l] /\ worker'[l] = worker[l]
            /\ number'[l] = number[l]
  BY <1>1 DEF ControlTypes, PhaseInv
<1>3. SocketOf(at) /\ BreaksOf(at) /\ worker[at] = "none" /\ ~cut[at]
  <2>1. SocketOf(at) /\ BreaksOf(at) /\ sock[at] = "starting"
    BY <1>1, <1>2 DEF SocketInv, SocketOf
  <2>2. worker[at] \in WorkerPcs
    BY <1>2 DEF ControlTypes
  <2> QED BY <2>1, <2>2 DEF SocketOf, BreaksOf, WorkerPcs
<1>4. number[at] \in Nat /\ number[at] <= MaxBreaks[at] /\ MaxBreaks[at] \in Nat
  BY <1>2, <1>3, BoundsAssumption DEF BreaksOf
<1>5. ControlTypes'
  BY <1>1, <1>4 DEF ControlTypes, SockStates, WorkerPcs, Pcs
<1>6. \A l \in Links : SocketOf(l)'
  BY <1>1, <1>2 DEF SocketInv, SocketOf
<1>7. \A l \in Links : BreaksOf(l)'
  <2> TAKE l \in Links
  <2>1. CASE l = at
    BY <1>1, <1>2, <1>3, <1>4, <2>1 DEF BreaksOf
  <2>2. CASE l # at
    <3>1. BreaksOf(l)
      BY DEF SocketInv
    <3> QED BY <1>1, <1>2, <2>2, <3>1 DEF BreaksOf
  <2> QED BY <2>1, <2>2
<1>8. PhaseInv'
  BY <1>1, <1>2 DEF PhaseInv
<1>9. ClientInv'
  <2>1. \A l \in begun : app[l] = "stopped" /\ l # at => worker[l] \in {"closed", "none"}
    BY DEF ClientInv
  <2> QED BY <1>1, <1>2, <2>1 DEF ClientInv, Settled, ControlTypes
<1> QED BY <1>5, <1>6, <1>7, <1>8, <1>9 DEF SocketInv

LEMMA RefusedControl == ASSUME ControlInv, Refused PROVE ControlInv'
<1> USE DEF ControlInv
<1>1. /\ pc = "connect" /\ pc' = "failed" /\ sock' = [sock EXCEPT ![at] = "stopped"]
      /\ UNCHANGED <<phase, at, begun, app, conn, worker, cut, number>>
  BY DEF Refused, network
<1>2. /\ at \in Links /\ sock'[at] = "stopped"
      /\ \A l \in Links : l # at => sock'[l] = sock[l]
  BY <1>1 DEF ControlTypes
<1>3. worker[at] = "none"
  BY <1>1, <1>2 DEF SocketInv, SocketOf, ControlTypes, WorkerPcs
<1>4. ControlTypes'
  BY <1>1 DEF ControlTypes, SockStates, Pcs
<1>5. \A l \in Links : SocketOf(l)'
  BY <1>1, <1>2, <1>3 DEF SocketInv, SocketOf
<1>6. \A l \in Links : BreaksOf(l)'
  BY <1>1 DEF SocketInv, BreaksOf
<1>7. PhaseInv' /\ ClientInv'
  BY <1>1, <1>3 DEF PhaseInv, ClientInv, Settled
<1> QED BY <1>4, <1>5, <1>6, <1>7 DEF SocketInv

LEMMA ConnectedControl == ASSUME ControlInv, Connected PROVE ControlInv'
<1> USE DEF ControlInv
<1>1. /\ pc = "connected" /\ app' = [app EXCEPT ![at] = "started"]
      /\ UNCHANGED <<begun, sock, conn, worker, cut, number>>
      /\ \/ at \in Feeds /\ pc' = "login" /\ UNCHANGED <<phase, at>>
         \/ at \notin Feeds /\ Return(TRUE)
  BY DEF Connected, SetClientState, network
<1>2. app'[at] = "started" /\ \A l \in Links : l # at => app'[l] = app[l]
  BY <1>1 DEF ControlTypes
<1>3. /\ at' \in Links /\ phase' \in {"boot", "waiting", "serving"}
      /\ pc' \in {"login", "begin", "check", "idle"}
      /\ pc' = "begin" => at' \notin begun
      /\ PhaseInv'
  <2>1. CASE at \in Feeds /\ pc' = "login" /\ UNCHANGED <<phase, at>>
    BY <1>1, <2>1 DEF PhaseInv, ControlTypes
  <2>2. CASE Return(TRUE)
    BY <1>1, <2>2, ReturnIs DEF ControlTypes
  <2> QED BY <1>1, <2>1, <2>2
<1>4. ControlTypes'
  BY <1>1, <1>3 DEF ControlTypes, AppStates, Pcs
<1>5. SocketInv'
  BY <1>1, <1>3, SameSockets
<1>6. pc' = "begin" => worker[at'] = "none"
  BY <1>3 DEF PhaseInv
<1>7. \A l \in Feeds : Settled(l)' => l # at
  BY <1>1 DEF Settled
<1>8. ClientInv'
  <2>1. \A l \in begun : app'[l] = "stopped" => worker[l] \in {"closed", "none"}
    BY <1>2 DEF ClientInv, ControlTypes
  <2>2. \A l \in begun \cap Feeds : app'[l] = "started" /\ Settled(l)' =>
           worker[l] \in {"running", "stopping", "disconnected"}
    <3> SUFFICES ASSUME NEW l \in begun \cap Feeds, app'[l] = "started", Settled(l)'
                 PROVE  worker[l] \in {"running", "stopping", "disconnected"}
      OBVIOUS
    <3>1. l # at /\ l \in Links /\ Settled(l)
      BY <1>7 DEF Settled, ControlTypes
    <3> QED BY <1>2, <3>1 DEF ClientInv
  <2> QED BY <1>1, <1>3, <1>6, <2>1, <2>2 DEF ClientInv
<1> QED BY <1>3, <1>4, <1>5, <1>8

\* Steps that move the caller on without touching a link.
LEMMA MoveOnControl ==
    ASSUME ControlInv, UNCHANGED <<begun, app, sock, conn, worker, cut, number>>,
           pc # "connect",
           at' \in Links, phase' \in {"boot", "waiting", "serving"}, PhaseInv',
           pc' \in {"begin", "login", "drain", "failed", "check", "idle"},
           pc' \in {"begin", "failed"} => worker[at'] \in {"closed", "none"},
           \A l \in begun \cap Feeds : app[l] = "started" /\ Settled(l)' /\ ~Settled(l) =>
               worker[l] \in {"running", "stopping", "disconnected"}
    PROVE  ControlInv'
<1> USE DEF ControlInv
<1>1. ControlTypes'
  BY DEF ControlTypes, Pcs
<1>2. SocketInv'
  BY SameSockets
<1>3. ClientInv'
  BY DEF ClientInv
<1> QED BY <1>1, <1>2, <1>3

LEMMA LoginControl == ASSUME ControlInv, Login PROVE ControlInv'
<1> USE DEF ControlInv
<1>1. pc = "login" /\ UNCHANGED <<begun, app, sock, conn, worker, cut, number>>
  BY DEF Login, network
<1>2. CASE conn[at] /\ Return(TRUE)
  <2>1. /\ at' \in Links /\ phase' \in {"boot", "waiting", "serving"}
        /\ pc' \in {"begin", "check", "idle"} /\ (pc' = "begin" => at' \notin begun) /\ PhaseInv'
    BY <1>1, <1>2, ReturnIs DEF ControlTypes
  <2>2. worker[at] \in {"running", "stopping"}
    BY <1>2 DEF SocketInv, SocketOf, ControlTypes
  <2>3. pc' = "begin" => worker[at'] = "none"
    BY <2>1 DEF PhaseInv
  <2>4. \A l \in begun \cap Feeds : ~Settled(l) => l = at
    BY DEF Settled
  <2> QED BY <1>1, <2>1, <2>2, <2>3, <2>4, MoveOnControl
<1>3. CASE ~conn[at] /\ pc' = "drain" /\ UNCHANGED <<phase, at>>
  <2>1. PhaseInv'
    BY <1>1, <1>3 DEF PhaseInv
  <2>2. \A l \in Links : Settled(l)' => Settled(l)
    BY <1>1, <1>3 DEF Settled
  <2> QED BY <1>1, <1>3, <2>1, <2>2, MoveOnControl DEF ControlTypes
<1> QED BY <1>2, <1>3 DEF Login, LoginSent

LEMMA DrainControl == ASSUME ControlInv, Drain PROVE ControlInv'
<1> USE DEF ControlInv
<1>1. /\ pc = "drain" /\ pc' = "failed" /\ sock[at] = "stopped"
      /\ UNCHANGED <<phase, at, begun, app, sock, conn, worker, cut, number>>
  BY DEF Drain, network
<1>2. worker[at] = "none"
  BY <1>1 DEF SocketInv, SocketOf, ControlTypes, WorkerPcs
<1>3. PhaseInv' /\ at' \in Links
  BY <1>1 DEF PhaseInv, ControlTypes
<1>4. \A l \in Links : Settled(l)' => Settled(l)
  BY <1>1 DEF Settled
<1> QED BY <1>1, <1>2, <1>3, <1>4, MoveOnControl DEF ControlTypes

LEMMA FailedControl == ASSUME ControlInv, Failed PROVE ControlInv'
<1> USE DEF ControlInv
<1>1. /\ pc = "failed" /\ app' = [app EXCEPT ![at] = "stopped"] /\ Return(FALSE)
      /\ UNCHANGED <<begun, sock, conn, worker, cut, number>>
  BY DEF Failed, SetClientState, network
<1>2. /\ app'[at] = "stopped" /\ \A l \in Links : l # at => app'[l] = app[l]
      /\ worker[at] \in {"closed", "none"}
  BY <1>1 DEF ControlTypes, ClientInv
<1>3. /\ at' \in Links /\ phase' \in {"boot", "waiting", "serving"}
      /\ pc' \in {"begin", "check", "idle"} /\ (pc' = "begin" => at' \notin begun) /\ PhaseInv'
  BY <1>1, ReturnIs DEF ControlTypes
<1>4. pc' = "begin" => worker[at'] = "none"
  BY <1>3 DEF PhaseInv
<1>5. ControlTypes'
  BY <1>1, <1>3 DEF ControlTypes, AppStates, Pcs
<1>6. SocketInv'
  BY <1>1, <1>3, SameSockets
<1>7. ClientInv'
  <2>1. \A l \in begun : app'[l] = "stopped" => worker[l] \in {"closed", "none"}
    BY <1>2 DEF ClientInv, ControlTypes
  <2>2. \A l \in begun \cap Feeds : app'[l] = "started" =>
           l # at /\ Settled(l) /\ app[l] = "started"
    BY <1>2 DEF Settled, ControlTypes
  <2>3. \A l \in begun \cap Feeds : app'[l] = "started" =>
           worker[l] \in {"running", "stopping", "disconnected"}
    BY <2>2 DEF ClientInv
  <2> QED BY <1>1, <1>3, <1>4, <2>1, <2>3 DEF ClientInv
<1> QED BY <1>3, <1>5, <1>6, <1>7

LEMMA ServeControl == ASSUME ControlInv, Serve PROVE ControlInv'
<1> USE DEF ControlInv
<1>1. /\ phase = "waiting" /\ pc = "idle" /\ phase' = "serving" /\ pc' = "check"
      /\ UNCHANGED <<at, begun, app, sock, conn, worker, cut, number>>
  BY DEF Serve, network, PhaseInv
<1>2. PhaseInv' /\ at' \in Links
  BY <1>1 DEF PhaseInv, ControlTypes
<1>3. \A l \in Links : Settled(l)' => Settled(l)
  BY <1>1 DEF Settled
<1> QED BY <1>1, <1>2, <1>3, MoveOnControl DEF ControlTypes

\* The uninitialised state of a feed that main() never came to may read "stopped".
LEMMA CheckControl == ASSUME ControlInv, Check PROVE ControlInv'
<1> USE DEF ControlInv
<1>1. /\ pc = "check" /\ UNCHANGED <<phase, begun, app, sock, conn, worker, cut, number>>
      /\ \/ app[at] = "stopped" /\ pc' = "begin" /\ UNCHANGED at
         \/ at' = NextLink[at] /\ UNCHANGED pc
  BY DEF Check, RestartDue, network
<1>2. at' \in Links
  BY <1>1, NextLinkIs DEF ControlTypes
<1>3. PhaseInv'
  BY <1>1 DEF PhaseInv, ControlTypes
<1>4. pc' = "begin" => worker[at'] \in {"closed", "none"}
  BY <1>1 DEF ClientInv, PhaseInv, ControlTypes
<1>5. \A l \in Links : Settled(l)' => Settled(l)
  BY <1>1 DEF Settled
<1>6. pc' \in {"begin", "check"} /\ phase' \in {"boot", "waiting", "serving"}
  BY <1>1 DEF ControlTypes
<1> QED BY <1>1, <1>2, <1>3, <1>4, <1>5, <1>6, MoveOnControl DEF ControlTypes

-----------------------------------------------------------------------------
(* The control: steps of a worker and of the network *)

\* A step of a worker, or of its connection, keeps the invariant if it keeps that of
\* its own link and does not open what StartClient and main() believe closed.
LEMMA WorkerControl ==
    ASSUME ControlInv, NEW l \in Links, worker[l] # "none",
           UNCHANGED <<phase, at, pc, begun, number>>,
           ControlTypes', SocketOf(l)', BreaksOf(l)',
           \A m \in Links \ {l} :
               /\ sock'[m] = sock[m] /\ conn'[m] = conn[m] /\ worker'[m] = worker[m]
               /\ cut'[m] = cut[m] /\ app'[m] = app[m],
           \/ app'[l] = app[l]
           \/ app'[l] = "stopped" /\ worker[l] = "disconnected" /\ worker'[l] = "closed",
           worker[l] \in {"closed", "none"} => worker'[l] \in {"closed", "none"},
           app'[l] = "started" => worker'[l] \in {"running", "stopping", "disconnected"}
                                  \/ worker[l] \notin {"running", "stopping", "disconnected"}
    PROVE  ControlInv'
<1> USE DEF ControlInv
<1>1. \A m \in Links \ {l} : SocketOf(m)' /\ BreaksOf(m)'
  BY DEF SocketInv, SocketOf, BreaksOf
<1>2. l \in begun /\ PhaseInv'
  BY DEF PhaseInv
<1>3. ClientInv'
  <2>1. \A m \in begun : app'[m] = "stopped" => worker'[m] \in {"closed", "none"}
    BY DEF ClientInv, ControlTypes
  <2>2. pc \in {"begin", "start", "failed"} => worker'[at] \in {"closed", "none"}
    BY DEF ClientInv, ControlTypes
  <2>3. pc \in {"start", "connect"} => app'[at] = "starting"
    <3>1. SUFFICES ASSUME pc \in {"start", "connect"}, at = l PROVE app'[l] = "starting"
      BY DEF ClientInv, ControlTypes
    <3>2. app[l] = "starting"
      BY <3>1 DEF ClientInv
    <3>3. worker[l] = "closed" \/ worker[l] = "none"
      BY <3>1 DEF ClientInv, SocketInv, SocketOf, ControlTypes, WorkerPcs
    <3> QED BY <3>2, <3>3
  <2>4. \A m \in begun \cap Feeds : app'[m] = "started" /\ Settled(m)' =>
           worker'[m] \in {"running", "stopping", "disconnected"}
    BY DEF ClientInv, ControlTypes, Settled
  <2> QED BY <2>1, <2>2, <2>3, <2>4 DEF ClientInv
<1> QED BY <1>1, <1>2, <1>3 DEF SocketInv

LEMMA StopsControl == ASSUME ControlInv, NEW l \in Links, WorkerStops(l) PROVE ControlInv'
<1> USE DEF ControlInv
<1>1. /\ worker[l] = "running" /\ cut[l]
      /\ sock' = [sock EXCEPT ![l] = "stopping"] /\ worker' = [worker EXCEPT ![l] = "stopping"]
      /\ UNCHANGED <<phase, at, pc, begun, app, conn, cut, number>>
  BY DEF WorkerStops, control, network
<1>2. /\ sock'[l] = "stopping" /\ worker'[l] = "stopping"
      /\ \A m \in Links \ {l} : sock'[m] = sock[m] /\ worker'[m] = worker[m]
  BY <1>1 DEF ControlTypes
<1>3. ControlTypes'
  BY <1>1 DEF ControlTypes, SockStates, WorkerPcs
<1>4. SocketOf(l)'
  BY <1>1, <1>2 DEF SocketInv, SocketOf
<1>5. BreaksOf(l)'
  BY <1>1, <1>2 DEF SocketInv, BreaksOf
<1> QED BY <1>1, <1>2, <1>3, <1>4, <1>5, WorkerControl

LEMMA DisconnectedControl == ASSUME ControlInv, NEW l \in Links, Disconnected(l) PROVE ControlInv'
<1> USE DEF ControlInv
<1>1. /\ worker[l] = "stopping"
      /\ conn' = [conn EXCEPT ![l] = FALSE] /\ worker' = [worker EXCEPT ![l] = "disconnected"]
      /\ UNCHANGED <<phase, at, pc, begun, app, sock, cut, number>>
  BY DEF Disconnected, control, network
<1>2. /\ conn'[l] = FALSE /\ worker'[l] = "disconnected"
      /\ \A m \in Links \ {l} : conn'[m] = conn[m] /\ worker'[m] = worker[m]
  BY <1>1 DEF ControlTypes
<1>3. ControlTypes'
  BY <1>1 DEF ControlTypes, WorkerPcs
<1>4. SocketOf(l)'
  BY <1>1, <1>2 DEF SocketInv, SocketOf
<1>5. BreaksOf(l)'
  BY <1>1, <1>2 DEF SocketInv, BreaksOf
<1> QED BY <1>1, <1>2, <1>3, <1>4, <1>5, WorkerControl

LEMMA OnCloseControl == ASSUME ControlInv, NEW l \in Links, OnClose(l) PROVE ControlInv'
<1> USE DEF ControlInv
<1>1. /\ worker[l] = "disconnected"
      /\ app' = [app EXCEPT ![l] = "stopped"] /\ worker' = [worker EXCEPT ![l] = "closed"]
      /\ UNCHANGED <<phase, at, pc, begun, conn, sock, cut, number>>
  BY DEF OnClose, control, network
<1>2. /\ app'[l] = "stopped" /\ worker'[l] = "closed"
      /\ \A m \in Links \ {l} : app'[m] = app[m] /\ worker'[m] = worker[m]
  BY <1>1 DEF ControlTypes
<1>3. ControlTypes'
  BY <1>1 DEF ControlTypes, AppStates, WorkerPcs
<1>4. SocketOf(l)'
  BY <1>1, <1>2 DEF SocketInv, SocketOf
<1>5. BreaksOf(l)'
  BY <1>1, <1>2 DEF SocketInv, BreaksOf
<1> QED BY <1>1, <1>2, <1>3, <1>4, <1>5, WorkerControl

LEMMA ResetControl == ASSUME ControlInv, NEW l \in Links, Reset(l) PROVE ControlInv'
<1> USE DEF ControlInv
<1>1. /\ worker[l] = "closed" /\ cut' = [cut EXCEPT ![l] = FALSE]
      /\ sock' = [sock EXCEPT ![l] = "stopped"] /\ worker' = [worker EXCEPT ![l] = "none"]
      /\ UNCHANGED <<phase, at, pc, begun, app, conn, number>>
  BY DEF Reset, control
<1>2. /\ sock'[l] = "stopped" /\ worker'[l] = "none" /\ cut'[l] = FALSE
      /\ \A m \in Links \ {l} : sock'[m] = sock[m] /\ worker'[m] = worker[m] /\ cut'[m] = cut[m]
  BY <1>1 DEF ControlTypes
<1>3. ControlTypes'
  BY <1>1 DEF ControlTypes, SockStates, WorkerPcs
<1>4. SocketOf(l)'
  BY <1>1, <1>2 DEF SocketInv, SocketOf
<1>5. BreaksOf(l)'
  BY <1>1, <1>2 DEF SocketInv, BreaksOf
<1> QED BY <1>1, <1>2, <1>3, <1>4, <1>5, WorkerControl

LEMMA BreakControl == ASSUME ControlInv, NEW l \in Links, Break(l) PROVE ControlInv'
<1> USE DEF ControlInv
<1>1. /\ worker[l] = "running" /\ number[l] <= MaxBreaks[l] /\ cut' = [cut EXCEPT ![l] = TRUE]
      /\ UNCHANGED <<phase, at, pc, begun, app, sock, conn, worker, number>>
  BY DEF Break, control
<1>2. cut'[l] = TRUE /\ \A m \in Links \ {l} : cut'[m] = cut[m]
  BY <1>1 DEF ControlTypes
<1>3. ControlTypes'
  BY <1>1 DEF ControlTypes
<1>4. SocketOf(l)'
  BY <1>1 DEF SocketInv, SocketOf
<1>5. BreaksOf(l)'
  BY <1>1, <1>2 DEF SocketInv, BreaksOf
<1> QED BY <1>1, <1>2, <1>3, <1>4, <1>5, WorkerControl

\* Receiving, like stuttering, leaves the control alone.
LEMMA SameControl ==
    ASSUME ControlInv, UNCHANGED <<phase, at, pc, begun, app, sock, conn, worker, cut, number>>
    PROVE  ControlInv'
BY DEF ControlInv, ControlTypes, SocketInv, SocketOf, BreaksOf, PhaseInv, ClientInv, Settled

LEMMA NextControl == ASSUME ControlInv, [Next]_vars PROVE ControlInv'
<1>1. CASE Caller
  BY <1>1, BeginControl, CheckStartingControl, ConnectControl, RefusedControl, ConnectedControl,
     LoginControl, DrainControl, FailedControl, ServeControl, CheckControl DEF Caller
<1>2. ASSUME NEW l \in Links, Worker(l) PROVE ControlInv'
  <2>1. CASE Receive(l)
    BY <2>1, SameControl DEF Receive, control, network
  <2> QED BY <1>2, <2>1, StopsControl, DisconnectedControl, OnCloseControl, ResetControl
          DEF Worker
<1>3. CASE UNCHANGED vars
  BY <1>3, SameControl DEF vars, control, network
<1> QED BY <1>1, <1>2, <1>3, BreakControl DEF Next

LEMMA ControlTruthful == ControlInv => StateTruthful
<1> SUFFICES ASSUME ControlInv, NEW l \in begun
             PROVE  /\ app[l] = "stopped" => sock[l] # "started"
                    /\ l \in Feeds /\ app[l] = "started" /\ Settled(l) =>
                           sock[l] = "started" \/ worker[l] \in {"stopping", "disconnected"}
  BY DEF StateTruthful
<1>1. l \in Links /\ SocketOf(l)
  BY DEF ControlInv, ControlTypes, SocketInv
<1> QED BY <1>1 DEF ControlInv, ClientInv, SocketOf

-----------------------------------------------------------------------------
(* The framing loop of OnReceive *)

\* A recursion that moves forward in 1..N defines a function.
IsRecursion(N, nx, base, F, g) ==
    g = [i \in 1..N |-> IF nx[i] = 0 THEN base[i] ELSE F[<<i, g[i + nx[i]]>>]]

LEMMA Descent ==
    ASSUME NEW N \in Nat, NEW nx \in [1..N -> Nat],
           \A i \in 1..N : nx[i] # 0 => i + nx[i] \in 1..N,
           NEW W, NEW base \in [1..N -> W], NEW F \in [(1..N) \X W -> W]
    PROVE  \E g \in [1..N -> W] : IsRecursion(N, nx, base, F, g)
<1> DEFINE value(g, i) == IF nx[i] = 0 THEN base[i] ELSE F[<<i, g[i + nx[i]]>>]
           good(g, k) == \A i \in 1..N : N - i < k => g[i] = value(g, i)
           T == {k \in Nat : \E g \in [1..N -> W] : good(g, k)}
<1>1. \A g \in [1..N -> W] : \A i \in 1..N : value(g, i) \in W
  OBVIOUS
<1>2. \A g, h \in [1..N -> W] : \A i \in 1..N :
          (nx[i] # 0 => g[i + nx[i]] = h[i + nx[i]]) => value(g, i) = value(h, i)
  OBVIOUS
<1> HIDE DEF value
<1>3. 0 \in T
  <2>1. good(base, 0)
    OBVIOUS
  <2> QED BY <2>1
<1>4. \A k \in Nat : k \in T => k + 1 \in T
  <2> SUFFICES ASSUME NEW k \in Nat, k \in T PROVE k + 1 \in T
    OBVIOUS
  <2>1. PICK g \in [1..N -> W] : good(g, k)
    OBVIOUS
  <2> DEFINE h == [i \in 1..N |-> IF N - i < k THEN g[i] ELSE value(g, i)]
  <2>2. h \in [1..N -> W]
    BY <1>1
  <2>3. \A i \in 1..N : N - i < k => h[i] = g[i]
    OBVIOUS
  <2>3a. \A i \in 1..N : ~(N - i < k) => h[i] = value(g, i)
    OBVIOUS
  <2> HIDE DEF h
  <2>4. ASSUME NEW i \in 1..N, N - i < k + 1 PROVE h[i] = value(h, i)
    <3>1. nx[i] # 0 => h[i + nx[i]] = g[i + nx[i]]
      <4> SUFFICES ASSUME nx[i] # 0 PROVE h[i + nx[i]] = g[i + nx[i]]
        OBVIOUS
      <4>1. i + nx[i] \in 1..N /\ nx[i] \in Nat
        OBVIOUS
      <4>2. N - (i + nx[i]) < k
        BY <2>4, <4>1
      <4> QED BY <2>3, <4>1, <4>2
    <3>2. value(h, i) = value(g, i)
      BY <1>2, <2>2, <3>1
    <3>3. N - i < k => g[i] = value(g, i)
      BY <2>1
    <3> QED BY <2>3, <2>3a, <3>2, <3>3
  <2>5. good(h, k + 1)
    BY <2>4
  <2> HIDE DEF good
  <2> QED BY <2>2, <2>5
<1>5. N + 1 \in T
  <2> HIDE DEF T
  <2> QED BY <1>3, <1>4, SetInduction
<1>6. PICK g \in [1..N -> W] : good(g, N + 1)
  BY <1>5
<1>7. \A i \in 1..N : g[i] = value(g, i)
  BY <1>6
<1>8. g = [i \in 1..N |-> value(g, i)]
  BY <1>7
<1> QED BY <1>8 DEF value, IsRecursion

\* The two recursions of the loop.
FrameAt(l, s, i) == FrameLength(l, SubSeq(s, i, Len(s)))
IsStop(l, s, g) ==
    g = [i \in 1..(Len(s) + 1) |->
            LET n == FrameAt(l, s, i) IN IF n = 0 THEN i ELSE g[i + n]]
IsFrom(l, s, g) ==
    g = [i \in 1..(Len(s) + 1) |->
            LET n == FrameAt(l, s, i)
            IN  IF n = 0 THEN <<>> ELSE <<SubSeq(s, i, i + n - 1)>> \o g[i + n]]

LEMMA StopsAtIs ==
    ASSUME NEW l, NEW s PROVE StopsAt(l, s) = (CHOOSE g : IsStop(l, s, g))[1]
BY DEF StopsAt, IsStop, FrameAt

LEMMA HandedIs ==
    ASSUME NEW l, NEW s PROVE Handed(l, s) = (CHOOSE g : IsFrom(l, s, g))[1]
BY DEF Handed, IsFrom, FrameAt

\* Where a position's frame ends is again a position.
Advances(l, s) ==
    \A i \in 1..(Len(s) + 1) :
        /\ FrameAt(l, s, i) \in Nat
        /\ FrameAt(l, s, i) # 0 => i + FrameAt(l, s, i) \in 1..(Len(s) + 1)

LEMMA StopDefined ==
    ASSUME NEW l, NEW V, NEW s \in Seq(V), Advances(l, s)
    PROVE  \E g \in [1..(Len(s) + 1) -> 1..(Len(s) + 1)] : IsStop(l, s, g)
<1> DEFINE N == Len(s) + 1
           nx == [i \in 1..N |-> FrameAt(l, s, i)]
           base == [i \in 1..N |-> i]
           F == [p \in (1..N) \X (1..N) |-> p[2]]
<1>1. /\ N \in Nat /\ nx \in [1..N -> Nat] /\ base \in [1..N -> 1..N]
      /\ F \in [(1..N) \X (1..N) -> 1..N]
      /\ \A i \in 1..N : nx[i] # 0 => i + nx[i] \in 1..N
  BY DEF Advances
<1>2. \A i \in 1..N : nx[i] = FrameAt(l, s, i) /\ base[i] = i
  OBVIOUS
<1>3. \A i, j \in 1..N : F[<<i, j>>] = j
  OBVIOUS
<1> HIDE DEF nx, base, F
<1>4. PICK g \in [1..N -> 1..N] : IsRecursion(N, nx, base, F, g)
  <2> HIDE DEF N
  <2> QED BY <1>1, Descent
<1>5. \A i \in 1..N : g[i] = IF FrameAt(l, s, i) = 0 THEN i ELSE g[i + FrameAt(l, s, i)]
  BY <1>1, <1>2, <1>3, <1>4 DEF IsRecursion
<1>6. g = [i \in 1..N |-> IF FrameAt(l, s, i) = 0 THEN i ELSE g[i + FrameAt(l, s, i)]]
  BY <1>5
<1> QED BY <1>6 DEF IsStop

LEMMA FromDefined ==
    ASSUME NEW l, NEW V, NEW s \in Seq(V), Advances(l, s)
    PROVE  \E g \in [1..(Len(s) + 1) -> Seq(Seq(V))] : IsFrom(l, s, g)
<1> DEFINE N == Len(s) + 1
           W == Seq(Seq(V))
           nx == [i \in 1..N |-> FrameAt(l, s, i)]
           base == [i \in 1..N |-> <<>>]
           frame(i) == SubSeq(s, i, i + FrameAt(l, s, i) - 1)
           F == [p \in (1..N) \X W |->
                    IF FrameAt(l, s, p[1]) = 0 THEN p[2] ELSE <<frame(p[1])>> \o p[2]]
<1>0. \A i \in 1..N : FrameAt(l, s, i) # 0 => frame(i) \in Seq(V)
  <2> SUFFICES ASSUME NEW i \in 1..N, FrameAt(l, s, i) # 0 PROVE frame(i) \in Seq(V)
    OBVIOUS
  <2>1. i + FrameAt(l, s, i) \in 1..N /\ FrameAt(l, s, i) \in Nat
    BY DEF Advances
  <2>2. \A j \in i..(i + FrameAt(l, s, i) - 1) : s[j] \in V
    BY <2>1, ElementOfSeq
  <2> QED BY <2>1, <2>2, SubSeqProperties
<1>1. /\ N \in Nat /\ nx \in [1..N -> Nat] /\ base \in [1..N -> W]
      /\ \A i \in 1..N : nx[i] # 0 => i + nx[i] \in 1..N
  BY DEF Advances
<1>2. \A i \in 1..N : nx[i] = FrameAt(l, s, i) /\ base[i] = <<>>
  OBVIOUS
<1>3. \A i \in 1..N : \A h \in W :
          F[<<i, h>>] = IF FrameAt(l, s, i) = 0 THEN h ELSE <<frame(i)>> \o h
  OBVIOUS
<1>4. \A i \in 1..N : \A h \in W : FrameAt(l, s, i) # 0 => <<frame(i)>> \o h \in W
  <2> SUFFICES ASSUME NEW i \in 1..N, NEW h \in W, FrameAt(l, s, i) # 0
               PROVE  <<frame(i)>> \o h \in W
    OBVIOUS
  <2>1. frame(i) \in Seq(V)
    BY <1>0
  <2> HIDE DEF frame
  <2>2. <<frame(i)>> \in Seq(Seq(V))
    BY <2>1
  <2> QED BY <2>2, ConcatProperties
<1>5. F \in [(1..N) \X W -> W]
  <2> HIDE DEF frame, W
  <2> QED BY <1>4
<1> HIDE DEF nx, base, F
<1>6. PICK g \in [1..N -> W] : IsRecursion(N, nx, base, F, g)
  <2> HIDE DEF N, W
  <2> QED BY <1>1, <1>5, Descent
<1>7. \A i \in 1..N : g[i] = IF FrameAt(l, s, i) = 0 THEN <<>>
                             ELSE <<frame(i)>> \o g[i + FrameAt(l, s, i)]
  <2> HIDE DEF frame, W
  <2> QED BY <1>1, <1>2, <1>3, <1>6 DEF IsRecursion
<1>8. g = [i \in 1..N |-> IF FrameAt(l, s, i) = 0 THEN <<>>
                          ELSE <<frame(i)>> \o g[i + FrameAt(l, s, i)]]
  <2> HIDE DEF frame, W
  <2> QED BY <1>6, <1>7
<1> QED BY <1>8 DEF IsFrom

\* To show how the loop ends it is enough to go back from its last position: R
\* relates a position to the position where the loop stops and what it hands over.
LEMMA LoopRule ==
    ASSUME NEW l, NEW V, NEW s \in Seq(V), Advances(l, s), NEW R,
           \A i \in 1..(Len(s) + 1) : FrameAt(l, s, i) = 0 => <<i, i, <<>>>> \in R,
           \A i, e \in 1..(Len(s) + 1) : \A h \in Seq(Seq(V)) :
               FrameAt(l, s, i) # 0 /\ <<i + FrameAt(l, s, i), e, h>> \in R =>
                   <<i, e, <<SubSeq(s, i, i + FrameAt(l, s, i) - 1)>> \o h>> \in R
    PROVE  /\ StopsAt(l, s) \in 1..(Len(s) + 1) /\ Handed(l, s) \in Seq(Seq(V))
           /\ <<1, StopsAt(l, s), Handed(l, s)>> \in R
<1> DEFINE N == Len(s) + 1
           a == CHOOSE g : IsStop(l, s, g)
           b == CHOOSE g : IsFrom(l, s, g)
           T == {k \in Nat : \A i \in 1..N : N - i < k =>
                    a[i] \in 1..N /\ b[i] \in Seq(Seq(V)) /\ <<i, a[i], b[i]>> \in R}
<1>1. IsStop(l, s, a) /\ IsFrom(l, s, b)
  BY StopDefined, FromDefined
<1>2. StopsAt(l, s) = a[1] /\ Handed(l, s) = b[1]
  BY StopsAtIs, HandedIs
<1> HIDE DEF a, b
<1>3. \A i \in 1..N :
          /\ a[i] = IF FrameAt(l, s, i) = 0 THEN i ELSE a[i + FrameAt(l, s, i)]
          /\ b[i] = IF FrameAt(l, s, i) = 0 THEN <<>>
                    ELSE <<SubSeq(s, i, i + FrameAt(l, s, i) - 1)>> \o b[i + FrameAt(l, s, i)]
  BY <1>1 DEF IsStop, IsFrom
<1>4. N \in Nat /\ N >= 1
  OBVIOUS
<1>5. 0 \in T
  OBVIOUS
<1>6. \A k \in Nat : k \in T => k + 1 \in T
  <2> SUFFICES ASSUME NEW k \in Nat, k \in T, NEW i \in 1..N, N - i < k + 1
               PROVE  a[i] \in 1..N /\ b[i] \in Seq(Seq(V)) /\ <<i, a[i], b[i]>> \in R
    OBVIOUS
  <2>1. CASE FrameAt(l, s, i) = 0
    <3>1. a[i] = i /\ b[i] = <<>>
      BY <1>3, <2>1
    <3>2. <<i, i, <<>>>> \in R
      BY <2>1
    <3> QED BY <3>1, <3>2, EmptySeq
  <2>2. CASE FrameAt(l, s, i) # 0
    <3> DEFINE n == FrameAt(l, s, i)
               j == i + n
               frame == SubSeq(s, i, i + n - 1)
    <3>1. n \in Nat /\ j \in 1..N /\ N - j < k
      BY <2>2 DEF Advances
    <3>2. a[j] \in 1..N /\ b[j] \in Seq(Seq(V)) /\ <<j, a[j], b[j]>> \in R
      BY <3>1
    <3>3. frame \in Seq(V)
      <4>1. \A q \in i..(i + n - 1) : s[q] \in V
        BY <3>1, ElementOfSeq
      <4> QED BY <3>1, <4>1, SubSeqProperties
    <3>4. a[i] = a[j] /\ b[i] = <<frame>> \o b[j]
      BY <1>3, <2>2
    <3>5. <<i, a[j], <<frame>> \o b[j]>> \in R
      BY <2>2, <3>2
    <3>6. <<frame>> \o b[j] \in Seq(Seq(V))
      <4> HIDE DEF frame, j
      <4>1. <<frame>> \in Seq(Seq(V))
        BY <3>3
      <4> QED BY <3>2, <4>1, ConcatProperties
    <3> QED BY <3>2, <3>4, <3>5, <3>6
  <2> QED BY <2>1, <2>2
<1>7. N \in T
  <2> HIDE DEF T
  <2> QED BY <1>4, <1>5, <1>6, SetInduction
<1>8. a[1] \in 1..N /\ b[1] \in Seq(Seq(V)) /\ <<1, a[1], b[1]>> \in R
  BY <1>4, <1>7
<1> QED BY <1>2, <1>8

-----------------------------------------------------------------------------
(* The length of a frame *)

LEMMA DelimitedIs ==
    ASSUME NEW V, NEW s \in Seq(V), NEW k \in 1..Len(s), s[k].part = 2,
           \A j \in 1..(k - 1) : s[j].part # 2
    PROVE  Delimited(s) = k
<1>1. \A i \in DOMAIN s :
          s[i].part = 2 /\ (\A j \in 1..(i - 1) : s[j].part # 2) <=> i = k
  <2> SUFFICES ASSUME NEW i \in 1..Len(s), s[i].part = 2, \A j \in 1..(i - 1) : s[j].part # 2
               PROVE  i = k
    OBVIOUS
  <2>1. ~(i < k) /\ ~(k < i)
    OBVIOUS
  <2> QED BY <2>1
<1>2. k \in DOMAIN s
  OBVIOUS
<1> QED BY <1>1, <1>2 DEF Delimited

LEMMA DelimitedFits ==
    ASSUME NEW V, NEW s \in Seq(V)
    PROVE  /\ Delimited(s) \in 0..Len(s)
           /\ Delimited(s) = 0 <=> \A i \in 1..Len(s) : s[i].part # 2
           /\ Delimited(s) # 0 => s[Delimited(s)].part = 2
<1>1. CASE \A i \in 1..Len(s) : s[i].part # 2
  BY <1>1 DEF Delimited
<1>2. CASE \E i \in 1..Len(s) : s[i].part = 2
  <2> DEFINE D == {i \in 1..Len(s) : s[i].part = 2}
  <2>1. D # {} /\ D \in SUBSET Nat
    BY <1>2
  <2>2. PICK k \in D : \A y \in D : k <= y
    <3> HIDE DEF D
    <3> QED BY <2>1, LeastNumber
  <2>3. k \in 1..Len(s) /\ s[k].part = 2 /\ \A j \in 1..(k - 1) : s[j].part # 2
    BY <2>2
  <2>4. Delimited(s) = k
    BY <2>3, DelimitedIs
  <2> QED BY <2>3, <2>4
<1> QED BY <1>1, <1>2

LEMMA MeasuredFits ==
    ASSUME NEW V, NEW s \in Seq(V) PROVE Measured(s) \in 0..Len(s)
BY BoundsAssumption DEF Measured

LEMMA FramesAdvance ==
    ASSUME NEW l, NEW V, NEW s \in Seq(V)
    PROVE  /\ \A i \in 1..(Len(s) + 1) :
                  /\ SubSeq(s, i, Len(s)) \in Seq(V)
                  /\ Len(SubSeq(s, i, Len(s))) = Len(s) + 1 - i
                  /\ \A j \in 1..(Len(s) + 1 - i) : SubSeq(s, i, Len(s))[j] = s[i + j - 1]
                  /\ FrameAt(l, s, i) \in 0..(Len(s) + 1 - i)
           /\ Advances(l, s)
<1>1. ASSUME NEW i \in 1..(Len(s) + 1)
      PROVE  /\ SubSeq(s, i, Len(s)) \in Seq(V)
             /\ Len(SubSeq(s, i, Len(s))) = Len(s) + 1 - i
             /\ \A j \in 1..(Len(s) + 1 - i) : SubSeq(s, i, Len(s))[j] = s[i + j - 1]
             /\ FrameAt(l, s, i) \in 0..(Len(s) + 1 - i)
  <2> DEFINE t == SubSeq(s, i, Len(s))
  <2>1. \A j \in i..Len(s) : s[j] \in V
    BY ElementOfSeq
  <2>2. /\ t \in Seq(V) /\ Len(t) = IF i <= Len(s) THEN Len(s) - i + 1 ELSE 0
        /\ \A j \in 1..(Len(s) - i + 1) : t[j] = s[i + j - 1]
    BY <2>1, SubSeqProperties
  <2>3. Delimited(t) \in 0..Len(t) /\ Measured(t) \in 0..Len(t)
    <3> HIDE DEF t
    <3> QED BY <2>2, DelimitedFits, MeasuredFits
  <2>4. FrameAt(l, s, i) \in 0..Len(t)
    <3> HIDE DEF t
    <3> QED BY <2>3 DEF FrameAt, FrameLength, t
  <2>5. Len(t) = Len(s) + 1 - i
    BY <2>2
  <2> QED BY <2>2, <2>4, <2>5
<1>2. Advances(l, s)
  <2> SUFFICES ASSUME NEW i \in 1..(Len(s) + 1)
               PROVE  /\ FrameAt(l, s, i) \in Nat
                      /\ FrameAt(l, s, i) # 0 => i + FrameAt(l, s, i) \in 1..(Len(s) + 1)
    BY DEF Advances
  <2>1. FrameAt(l, s, i) \in 0..(Len(s) + 1 - i)
    BY <1>1
  <2> QED BY <2>1
<1> QED BY <1>1, <1>2

-----------------------------------------------------------------------------
(* What the loop leaves and how often it goes round *)

\* The loop stops where no frame is complete, and each round takes a piece.
LEMMA LoopStops ==
    ASSUME NEW l, NEW V, NEW s \in Seq(V)
    PROVE  /\ StopsAt(l, s) \in 1..(Len(s) + 1) /\ Handed(l, s) \in Seq(Seq(V))
           /\ FrameAt(l, s, StopsAt(l, s)) = 0
           /\ FrameAt(l, s, 1) = 0 => Len(Handed(l, s)) = 0
           /\ FrameAt(l, s, 1) # 0 => Len(Handed(l, s)) + FrameAt(l, s, 1) <= Len(s) + 1
<1> DEFINE N == Len(s) + 1
           R == {t \in (1..N) \X (1..N) \X Seq(Seq(V)) :
                    /\ FrameAt(l, s, t[2]) = 0
                    /\ Len(t[3]) <= N - t[1]
                    /\ FrameAt(l, s, t[1]) = 0 => Len(t[3]) = 0
                    /\ FrameAt(l, s, t[1]) # 0 => Len(t[3]) + FrameAt(l, s, t[1]) <= N + 1 - t[1]}
<1>0. /\ Advances(l, s)
      /\ \A i \in 1..(Len(s) + 1) : FrameAt(l, s, i) \in 0..(Len(s) + 1 - i)
  BY FramesAdvance
<1>1. N \in Nat /\ \A i \in 1..N : FrameAt(l, s, i) \in 0..(N - i)
  BY <1>0
<1>2. \A i, e \in 1..N : \A h \in Seq(Seq(V)) :
          <<i, e, h>> \in R <=>
              /\ FrameAt(l, s, e) = 0
              /\ Len(h) <= N - i
              /\ FrameAt(l, s, i) = 0 => Len(h) = 0
              /\ FrameAt(l, s, i) # 0 => Len(h) + FrameAt(l, s, i) <= N + 1 - i
  OBVIOUS
<1>N. N = Len(s) + 1
  OBVIOUS
<1> HIDE DEF R, N
<1>3. \A i \in 1..N : FrameAt(l, s, i) = 0 => <<i, i, <<>>>> \in R
  <2>1. <<>> \in Seq(Seq(V)) /\ Len(<<>>) = 0
    BY EmptySeq
  <2> DEFINE none == <<>>
  <2>2. none \in Seq(Seq(V)) /\ Len(none) = 0
    BY <2>1
  <2> HIDE DEF none
  <2>3. ASSUME NEW i \in 1..N, FrameAt(l, s, i) = 0 PROVE <<i, i, none>> \in R
    <3>1. Len(none) <= N - i
      BY <1>1, <2>2
    <3> QED BY <1>2, <2>2, <2>3, <3>1
  <2> QED BY <2>3 DEF none
<1>4. ASSUME NEW i \in 1..N, NEW e \in 1..N, NEW h \in Seq(Seq(V)),
             FrameAt(l, s, i) # 0, <<i + FrameAt(l, s, i), e, h>> \in R
      PROVE  <<i, e, <<SubSeq(s, i, i + FrameAt(l, s, i) - 1)>> \o h>> \in R
  <2> DEFINE n == FrameAt(l, s, i)
             f == SubSeq(s, i, i + n - 1)
  <2>1. n \in Nat /\ n >= 1 /\ i + n \in 1..N
    BY <1>1, <1>4
  <2>2. FrameAt(l, s, e) = 0 /\ Len(h) <= N - (i + n)
    BY <1>2, <1>4, <2>1
  <2>3. f \in Seq(V)
    <3>1. \A q \in i..(i + n - 1) : s[q] \in V
      BY <1>N, <2>1, ElementOfSeq
    <3> QED BY <2>1, <3>1, SubSeqProperties
  <2> HIDE DEF f
  <2>4. <<f>> \o h \in Seq(Seq(V)) /\ Len(<<f>> \o h) = 1 + Len(h) /\ Len(h) \in Nat
    <3>1. <<f>> \in Seq(Seq(V)) /\ Len(<<f>>) = 1
      BY <2>3
    <3> QED BY <3>1, ConcatProperties, LenProperties
  <2>5. <<i, e, <<f>> \o h>> \in R
    <3> DEFINE w == <<f>> \o h
    <3>1. w \in Seq(Seq(V)) /\ Len(w) = 1 + Len(h) /\ Len(h) \in Nat
      BY <2>4
    <3> HIDE DEF w
    <3> HIDE DEF n
    <3>2. Len(w) <= N - i /\ Len(w) + n <= N + 1 - i
      <4>1. N \in Nat
        BY <1>1
      <4> QED BY <2>1, <2>2, <3>1, <4>1
    <3> USE DEF n
    <3>3. <<i, e, w>> \in R
      BY <1>2, <1>4, <2>2, <3>1, <3>2
    <3> QED BY <3>3 DEF w
  <2> QED BY <2>5 DEF f
<1>5. StopsAt(l, s) \in 1..N /\ Handed(l, s) \in Seq(Seq(V)) /\ <<1, StopsAt(l, s), Handed(l, s)>> \in R
  BY <1>0, <1>3, <1>4, <1>N, LoopRule
<1>6. 1 \in 1..N
  BY <1>1, <1>N
<1>7. /\ FrameAt(l, s, StopsAt(l, s)) = 0
      /\ FrameAt(l, s, 1) = 0 => Len(Handed(l, s)) = 0
      /\ FrameAt(l, s, 1) # 0 => Len(Handed(l, s)) + FrameAt(l, s, 1) <= N + 1 - 1
  BY <1>2, <1>5, <1>6
<1> QED BY <1>1, <1>5, <1>7, <1>N

-----------------------------------------------------------------------------
(* Framing a stream whose packet boundaries are known *)

LEMMA Parity ==
    ASSUME NEW k \in Nat
    PROVE  /\ (2 * k) % 2 = 0 /\ (2 * k + 1) % 2 = 1
           /\ (2 * k) \div 2 = k /\ (2 * k + 1) \div 2 = k
OBVIOUS

LEMMA PieceIs ==
    ASSUME NEW c, NEW k \in Nat
    PROVE  /\ Piece(c, 2 * k + 1).part = 1 /\ Piece(c, 2 * k + 2).part = 2
           /\ Packet(c, k + 1) = <<Piece(c, 2 * k + 1), Piece(c, 2 * k + 2)>>
<1>1. (2 * k + 1) % 2 = 1 /\ (2 * k + 2) % 2 = 0
  BY Parity, k + 1 \in Nat, 2 * k + 2 = 2 * (k + 1)
<1>2. 2 * (k + 1) - 1 = 2 * k + 1 /\ 2 * (k + 1) = 2 * k + 2
  OBVIOUS
<1> QED BY <1>1, <1>2 DEF Piece, Packet

\* From position b on, s is what connection c sent after its first f packets; before
\* b there is what an earlier connection left.
Follows(s, b, c, f, M) ==
    /\ Len(s) = b - 1 + M
    /\ \A j \in 1..(b - 1) : s[j].part = 1
    /\ \A m \in 1..M : s[b - 1 + m] = Piece(c, 2 * f + m)

LEMMA FollowingPieces ==
    ASSUME NEW V, NEW s \in Seq(V), NEW b \in Nat \ {0}, NEW c, NEW f \in Nat, NEW M \in Nat,
           Follows(s, b, c, f, M), NEW k \in Nat
    PROVE  /\ 2 * k < M => s[b + 2 * k] = Piece(c, 2 * (f + k) + 1) /\ s[b + 2 * k].part = 1
           /\ 2 * k + 1 < M =>
                  s[b + 2 * k + 1] = Piece(c, 2 * (f + k) + 2) /\ s[b + 2 * k + 1].part = 2
<1>1. ASSUME NEW m \in 1..M PROVE s[b - 1 + m] = Piece(c, 2 * f + m)
  BY DEF Follows
<1>2. 2 * k < M => s[b + 2 * k] = Piece(c, 2 * (f + k) + 1)
  <2> SUFFICES ASSUME 2 * k < M PROVE s[b + 2 * k] = Piece(c, 2 * (f + k) + 1)
    OBVIOUS
  <2>1. /\ 2 * k + 1 \in 1..M /\ b - 1 + (2 * k + 1) = b + 2 * k
        /\ 2 * f + (2 * k + 1) = 2 * (f + k) + 1
    OBVIOUS
  <2> QED BY <1>1, <2>1
<1>3. 2 * k + 1 < M => s[b + 2 * k + 1] = Piece(c, 2 * (f + k) + 2)
  <2> SUFFICES ASSUME 2 * k + 1 < M PROVE s[b + 2 * k + 1] = Piece(c, 2 * (f + k) + 2)
    OBVIOUS
  <2>1. /\ 2 * k + 2 \in 1..M /\ b - 1 + (2 * k + 2) = b + 2 * k + 1
        /\ 2 * f + (2 * k + 2) = 2 * (f + k) + 2
    OBVIOUS
  <2> QED BY <1>1, <2>1
<1> QED BY <1>2, <1>3, PieceIs, f + k \in Nat

LEMMA FollowingFrames ==
    ASSUME NEW l, NEW V, NEW s \in Seq(V), NEW b \in Nat \ {0}, NEW c, NEW f \in Nat, NEW M \in Nat,
           Follows(s, b, c, f, M), l \in Feeds \/ b = 1
    PROVE  /\ \A k \in Nat : 2 * k <= M =>
                  FrameAt(l, s, b + 2 * k) = IF 2 * k + 2 <= M THEN 2 ELSE 0
           /\ b > 1 => FrameAt(l, s, 1) = IF M >= 2 THEN b + 1 ELSE 0
<1>0. Len(s) = b - 1 + M /\ \A j \in 1..(b - 1) : s[j].part = 1
  BY DEF Follows
<1>1. ASSUME NEW k \in Nat, 2 * k <= M
      PROVE  FrameAt(l, s, b + 2 * k) = IF 2 * k + 2 <= M THEN 2 ELSE 0
  <2> DEFINE i == b + 2 * k
             t == SubSeq(s, i, Len(s))
  <2>1. i \in 1..(Len(s) + 1) /\ Len(s) + 1 - i = M - 2 * k
    BY <1>0, <1>1
  <2>2. t \in Seq(V) /\ Len(t) = M - 2 * k /\ \A j \in 1..(M - 2 * k) : t[j] = s[i + j - 1]
    <3>1. \A j \in 1..(Len(s) + 1) :
              /\ SubSeq(s, j, Len(s)) \in Seq(V)
              /\ Len(SubSeq(s, j, Len(s))) = Len(s) + 1 - j
              /\ \A q \in 1..(Len(s) + 1 - j) : SubSeq(s, j, Len(s))[q] = s[j + q - 1]
      BY FramesAdvance
    <3> HIDE DEF i
    <3>2. /\ t \in Seq(V) /\ Len(t) = Len(s) + 1 - i
          /\ \A q \in 1..(Len(s) + 1 - i) : t[q] = s[i + q - 1]
      BY <2>1, <3>1
    <3> QED BY <2>1, <3>2
  <2>P. /\ 2 * k < M => s[b + 2 * k].part = 1
        /\ 2 * k + 1 < M => s[b + 2 * k + 1].part = 2
    <3>1. /\ 2 * k < M => s[b + 2 * k] = Piece(c, 2 * (f + k) + 1) /\ s[b + 2 * k].part = 1
          /\ 2 * k + 1 < M =>
                 s[b + 2 * k + 1] = Piece(c, 2 * (f + k) + 2) /\ s[b + 2 * k + 1].part = 2
      BY FollowingPieces
    <3> QED BY <3>1
  <2>3. 2 * k < M => t[1] = s[b + 2 * k] /\ t[1].part = 1
    <3>1. 2 * k < M => t[1] = s[i + 1 - 1] /\ i + 1 - 1 = b + 2 * k
      <4> HIDE DEF t
      <4> QED BY <2>2
    <3> QED BY <2>P, <3>1
  <2>4. 2 * k + 1 < M => t[2] = s[b + 2 * k + 1] /\ t[2].part = 2
    <3>1. 2 * k + 1 < M => t[2] = s[i + 2 - 1] /\ i + 2 - 1 = b + 2 * k + 1
      <4> HIDE DEF t
      <4> QED BY <2>2
    <3> QED BY <2>P, <3>1
  <2> HIDE DEF t, i
  <2>5. Delimited(t) = IF 2 * k + 2 <= M THEN 2 ELSE 0
    <3>1. CASE 2 * k + 2 <= M
      <4>1. 2 \in 1..Len(t) /\ t[2].part = 2 /\ \A j \in 1..(2 - 1) : t[j].part # 2
        BY <2>2, <2>3, <2>4, <3>1
      <4> QED BY <2>2, <3>1, <4>1, DelimitedIs
    <3>2. CASE ~(2 * k + 2 <= M)
      <4>1. \A j \in 1..Len(t) : t[j].part # 2
        BY <1>1, <2>2, <2>3, <3>2
      <4> QED BY <2>2, <3>2, <4>1, DelimitedFits
    <3> QED BY <3>1, <3>2
  <2>6. Measured(t) = IF 2 * k + 2 <= M THEN 2 ELSE 0
    <3>1. t # <<>> <=> 2 * k < M
      BY <1>1, <2>2
    <3>2. CASE t = <<>>
      BY <1>1, <3>1, <3>2 DEF Measured
    <3>3. CASE t # <<>>
      <4>1. t[1].part = 1
        BY <2>3, <3>1, <3>3
      <4>2. Measured(t) = IF Len(t) >= 2 THEN 2 ELSE 0
        BY <3>3, <4>1 DEF Measured
      <4> QED BY <1>1, <2>2, <4>2
    <3> QED BY <3>2, <3>3
  <2>7. FrameAt(l, s, i) = FrameLength(l, t)
    BY DEF FrameAt, t
  <2>8. FrameAt(l, s, i) = IF 2 * k + 2 <= M THEN 2 ELSE 0
    BY <2>5, <2>6, <2>7 DEF FrameLength
  <2> QED BY <2>8 DEF i
<1>2. b > 1 => FrameAt(l, s, 1) = IF M >= 2 THEN b + 1 ELSE 0
  <2> SUFFICES ASSUME b > 1 PROVE FrameAt(l, s, 1) = IF M >= 2 THEN b + 1 ELSE 0
    OBVIOUS
  <2>1. SubSeq(s, 1, Len(s)) = s
    BY SubSeqFull
  <2>2. FrameAt(l, s, 1) = Delimited(s)
    <3>1. l \in Feeds
      OBVIOUS
    <3> QED BY <2>1, <3>1 DEF FrameAt, FrameLength
  <2>F. /\ 2 * 0 < M => s[b + 2 * 0].part = 1
        /\ 2 * 0 + 1 < M => s[b + 2 * 0 + 1].part = 2
    <3> DEFINE z == 0
    <3>1. z \in Nat
      OBVIOUS
    <3> HIDE DEF z
    <3>2. /\ 2 * z < M => s[b + 2 * z].part = 1
          /\ 2 * z + 1 < M => s[b + 2 * z + 1].part = 2
      <4>1. /\ 2 * z < M => s[b + 2 * z] = Piece(c, 2 * (f + z) + 1) /\ s[b + 2 * z].part = 1
            /\ 2 * z + 1 < M =>
                   s[b + 2 * z + 1] = Piece(c, 2 * (f + z) + 2) /\ s[b + 2 * z + 1].part = 2
        BY <3>1, FollowingPieces
      <4> QED BY <4>1
    <3> QED BY <3>2 DEF z
  <2>3. 0 < M => s[b].part = 1
    BY <2>F, 2 * 0 = 0, b + 0 = b
  <2>4. 1 < M => s[b + 1].part = 2
    BY <2>F, 2 * 0 = 0, b + 0 = b
  <2>5. CASE M >= 2
    <3>1. b + 1 \in 1..Len(s) /\ s[b + 1].part = 2 /\ s[b].part = 1
      BY <1>0, <2>3, <2>4, <2>5
    <3>2. \A j \in 1..(b + 1 - 1) : s[j].part # 2
      <4> TAKE j \in 1..(b + 1 - 1)
      <4>1. j \in 1..(b - 1) \/ j = b
        OBVIOUS
      <4> QED BY <1>0, <3>1, <4>1
    <3>3. Delimited(s) = b + 1
      BY <3>1, <3>2, DelimitedIs, b + 1 \in Nat
    <3> QED BY <2>2, <2>5, <3>3
  <2>6. CASE ~(M >= 2)
    <3>1. \A j \in 1..Len(s) : s[j].part # 2
      <4> TAKE j \in 1..Len(s)
      <4>1. j \in 1..(b - 1) \/ (j = b /\ 0 < M)
        BY <1>0, <2>6
      <4>2. 0 < M => s[b].part = 1
        BY <2>3
      <4> QED BY <1>0, <4>1, <4>2
    <3> QED BY <2>2, <2>6, <3>1, DelimitedFits
  <2> QED BY <2>5, <2>6
<1> QED BY <1>1, <1>2

\* The loop hands over the K packets the connection completed; only the first of them
\* may be preceded by what an earlier connection left.
HandsOver(l, s, b, c, f, K) ==
    /\ Len(Handed(l, s)) = K
    /\ \A j \in 1..K : j > 1 \/ b = 1 => Handed(l, s)[j] = Packet(c, f + j)
    /\ StopsAt(l, s) = IF K > 0 \/ b = 1 THEN b + 2 * K ELSE 1

LEMMA FollowingLoop ==
    ASSUME NEW l, NEW V, NEW s \in Seq(V), NEW b \in Nat \ {0}, NEW c, NEW f \in Nat,
           NEW K \in Nat, NEW d \in 0..1, Follows(s, b, c, f, 2 * K + d), l \in Feeds \/ b = 1
    PROVE  HandsOver(l, s, b, c, f, K)
<1> DEFINE M == 2 * K + d
<1>M. /\ M \in Nat /\ Follows(s, b, c, f, M)
      /\ M = 2 * K \/ M = 2 * K + 1
  OBVIOUS
<1> HIDE DEF M
<1> DEFINE N == Len(s) + 1
           AtPacket(i, e, h) ==
               \A k \in Nat : 2 * k <= M /\ i = b + 2 * k =>
                   /\ e = b + 2 * K /\ Len(h) = K - k
                   /\ \A j \in 1..(K - k) : h[j] = Packet(c, f + k + j)
           AtFirst(i, e, h) ==
               b > 1 /\ i = 1 =>
                   /\ e = (IF K > 0 THEN b + 2 * K ELSE 1) /\ Len(h) = K
                   /\ \A j \in 2..K : h[j] = Packet(c, f + j)
           R == {t \in (1..N) \X (1..N) \X Seq(Seq(V)) :
                    AtPacket(t[1], t[2], t[3]) /\ AtFirst(t[1], t[2], t[3])}
<1>1. N = b + M /\ N \in Nat
  BY <1>M DEF Follows
<1>2. /\ Advances(l, s) /\ \A i \in 1..(Len(s) + 1) : FrameAt(l, s, i) \in 0..(Len(s) + 1 - i)
  BY FramesAdvance
<1>3. /\ \A k \in Nat : 2 * k <= M =>
             FrameAt(l, s, b + 2 * k) = IF 2 * k + 2 <= M THEN 2 ELSE 0
      /\ b > 1 => FrameAt(l, s, 1) = IF M >= 2 THEN b + 1 ELSE 0
  BY <1>M, FollowingFrames
<1>P. ASSUME NEW k \in Nat
      PROVE  /\ 2 * k < M => s[b + 2 * k] = Piece(c, 2 * (f + k) + 1) /\ s[b + 2 * k].part = 1
             /\ 2 * k + 1 < M =>
                    s[b + 2 * k + 1] = Piece(c, 2 * (f + k) + 2) /\ s[b + 2 * k + 1].part = 2
  BY <1>M, FollowingPieces
<1>4. \A i, e \in 1..N : \A h \in Seq(Seq(V)) :
          <<i, e, h>> \in R <=> AtPacket(i, e, h) /\ AtFirst(i, e, h)
  <2> HIDE DEF AtPacket, AtFirst
  <2> QED OBVIOUS
<1>N. N = Len(s) + 1
  OBVIOUS
<1> HIDE DEF R, N
<1>5. ASSUME NEW i \in 1..N, FrameAt(l, s, i) = 0 PROVE <<i, i, <<>>>> \in R
  <2> DEFINE none == <<>>
  <2>1. none \in Seq(Seq(V)) /\ Len(none) = 0
    BY EmptySeq
  <2> HIDE DEF none
  <2>2. AtPacket(i, i, none)
    <3> SUFFICES ASSUME NEW k \in Nat, 2 * k <= M, i = b + 2 * k
                 PROVE  /\ i = b + 2 * K /\ Len(none) = K - k
                        /\ \A j \in 1..(K - k) : none[j] = Packet(c, f + k + j)
      OBVIOUS
    <3>1. ~(2 * k + 2 <= M)
      BY <1>3, <1>5
    <3>2. k = K
      BY <1>M, <3>1
    <3> QED BY <2>1, <3>2
  <2>3. AtFirst(i, i, none)
    <3> SUFFICES ASSUME b > 1, i = 1
                 PROVE  /\ i = (IF K > 0 THEN b + 2 * K ELSE 1) /\ Len(none) = K
                        /\ \A j \in 2..K : none[j] = Packet(c, f + j)
      OBVIOUS
    <3>1. ~(M >= 2)
      BY <1>3, <1>5
    <3>2. K = 0
      BY <1>M, <3>1
    <3> QED BY <2>1, <3>2
  <2> HIDE DEF AtPacket, AtFirst
  <2>4. <<i, i, none>> \in R
    BY <1>4, <2>1, <2>2, <2>3
  <2> QED BY <2>4 DEF none
<1>6. ASSUME NEW i \in 1..N, NEW e \in 1..N, NEW h \in Seq(Seq(V)),
             FrameAt(l, s, i) # 0, <<i + FrameAt(l, s, i), e, h>> \in R
      PROVE  <<i, e, <<SubSeq(s, i, i + FrameAt(l, s, i) - 1)>> \o h>> \in R
  <2> DEFINE n == FrameAt(l, s, i)
             first == SubSeq(s, i, i + n - 1)
             w == <<first>> \o h
  <2>1. n \in Nat /\ n >= 1 /\ i + n \in 1..N /\ i + n - 1 <= Len(s)
    BY <1>1, <1>2, <1>6, <1>M, <1>N
  <2>2. AtPacket(i + n, e, h) /\ AtFirst(i + n, e, h)
    <3> HIDE DEF AtPacket, AtFirst
    <3> QED BY <1>4, <1>6, <2>1
  <2>3. /\ first \in Seq(V) /\ Len(first) = n /\ \A j \in 1..n : first[j] = s[i + j - 1]
    <3>1. \A q \in i..(i + n - 1) : s[q] \in V
      BY <2>1, ElementOfSeq
    <3>2. /\ first \in Seq(V) /\ Len(first) = IF i <= i + n - 1 THEN i + n - 1 - i + 1 ELSE 0
          /\ \A j \in 1..(i + n - 1 - i + 1) : first[j] = s[i + j - 1]
      <4> HIDE DEF n
      <4> QED BY <2>1, <3>1, SubSeqProperties
    <3>3. i + n - 1 - i + 1 = n /\ i <= i + n - 1
      <4> HIDE DEF n
      <4> QED BY <1>1, <2>1
    <3> HIDE DEF first
    <3> QED BY <3>2, <3>3
  <2> HIDE DEF first
  <2>4. /\ w \in Seq(Seq(V)) /\ Len(w) = 1 + Len(h) /\ Len(h) \in Nat
        /\ w[1] = first /\ \A j \in 2..(1 + Len(h)) : w[j] = h[j - 1]
    <3>1. <<first>> \in Seq(Seq(V)) /\ Len(<<first>>) = 1 /\ <<first>>[1] = first
      BY <2>3
    <3> DEFINE u == <<first>>
    <3>2. u \in Seq(Seq(V)) /\ Len(u) = 1 /\ u[1] = first
      BY <3>1
    <3> HIDE DEF u
    <3>3. /\ u \o h \in Seq(Seq(V)) /\ Len(u \o h) = 1 + Len(h) /\ Len(h) \in Nat
          /\ \A j \in 1..(1 + Len(h)) : (u \o h)[j] = IF j <= 1 THEN u[j] ELSE h[j - 1]
      <4>1. /\ u \o h \in Seq(Seq(V)) /\ Len(u \o h) = Len(u) + Len(h)
            /\ \A j \in 1..Len(u) + Len(h) :
                   (u \o h)[j] = IF j <= Len(u) THEN u[j] ELSE h[j - Len(u)]
        BY <3>2, ConcatProperties
      <4>2. Len(h) \in Nat
        BY LenProperties
      <4> QED BY <3>2, <4>1, <4>2
    <3>4. w = u \o h
      BY DEF u
    <3> HIDE DEF w
    <3> QED BY <3>2, <3>3, <3>4
  <2> HIDE DEF w
  <2>5. AtPacket(i, e, w)
    <3> SUFFICES ASSUME NEW k \in Nat, 2 * k <= M, i = b + 2 * k
                 PROVE  /\ e = b + 2 * K /\ Len(w) = K - k
                        /\ \A j \in 1..(K - k) : w[j] = Packet(c, f + k + j)
      OBVIOUS
    <3>1. 2 * k + 2 <= M /\ n = 2
      BY <1>3, <1>6
    <3> HIDE DEF n
    <3>2. k + 1 \in Nat /\ 2 * (k + 1) <= M /\ i + n = b + 2 * (k + 1)
      BY <1>M, <3>1
    <3>3. /\ e = b + 2 * K /\ Len(h) = K - (k + 1)
          /\ \A j \in 1..(K - (k + 1)) : h[j] = Packet(c, f + (k + 1) + j)
      BY <2>2, <3>2
    <3>4. first = Packet(c, f + k + 1)
      <4>1. /\ 2 * k < M => s[b + 2 * k] = Piece(c, 2 * (f + k) + 1) /\ s[b + 2 * k].part = 1
            /\ 2 * k + 1 < M =>
                   s[b + 2 * k + 1] = Piece(c, 2 * (f + k) + 2) /\ s[b + 2 * k + 1].part = 2
        BY <1>P
      <4>2. s[b + 2 * k] = Piece(c, 2 * (f + k) + 1) /\ s[b + 2 * k + 1] = Piece(c, 2 * (f + k) + 2)
        BY <1>M, <3>1, <4>1
      <4>3. first[1] = s[b + 2 * k] /\ first[2] = s[b + 2 * k + 1] /\ Len(first) = 2
        <5>1. first[1] = s[i + 1 - 1] /\ first[2] = s[i + 2 - 1]
          BY <2>3, <3>1
        <5>2. i + 1 - 1 = b + 2 * k /\ i + 2 - 1 = b + 2 * k + 1
          OBVIOUS
        <5> QED BY <2>3, <3>1, <5>1, <5>2
      <4>4. first = <<Piece(c, 2 * (f + k) + 1), Piece(c, 2 * (f + k) + 2)>>
        BY <2>3, <4>2, <4>3
      <4> QED BY <4>4, PieceIs, f + k \in Nat
    <3>5. Len(w) = K - k
      <4>1. Len(w) = 1 + Len(h)
        BY <2>4
      <4>2. 1 + (K - (k + 1)) = K - k
        OBVIOUS
      <4> QED BY <3>3, <4>1, <4>2
    <3>6. ASSUME NEW j \in 1..(K - k) PROVE w[j] = Packet(c, f + k + j)
      <4>1. CASE j = 1
        BY <2>4, <3>4, <4>1
      <4>2. CASE j > 1
        <5>1. j \in 2..(1 + Len(h)) /\ j - 1 \in 1..(K - (k + 1)) /\ f + (k + 1) + (j - 1) = f + k + j
          BY <3>3, <4>2
        <5> QED BY <2>4, <3>3, <5>1
      <4> QED BY <4>1, <4>2
    <3> QED BY <3>3, <3>5, <3>6
  <2>6. AtFirst(i, e, w)
    <3> SUFFICES ASSUME b > 1, i = 1
                 PROVE  /\ e = (IF K > 0 THEN b + 2 * K ELSE 1) /\ Len(w) = K
                        /\ \A j \in 2..K : w[j] = Packet(c, f + j)
      OBVIOUS
    <3>1. M >= 2 /\ n = b + 1
      BY <1>3, <1>6
    <3> HIDE DEF n
    <3> DEFINE one == 1
    <3>0. one \in Nat /\ one = 1
      OBVIOUS
    <3> HIDE DEF one
    <3>2. 2 * one <= M /\ i + n = b + 2 * one /\ K > 0
      BY <1>M, <3>0, <3>1
    <3>3. /\ e = b + 2 * K /\ Len(h) = K - one
          /\ \A j \in 1..(K - one) : h[j] = Packet(c, f + one + j)
      BY <2>2, <3>0, <3>2
    <3>4. Len(w) = K
      BY <2>4, <3>0, <3>3
    <3>5. ASSUME NEW j \in 2..K PROVE w[j] = Packet(c, f + j)
      <4>1. j \in 2..(1 + Len(h)) /\ j - 1 \in 1..(K - one) /\ f + one + (j - 1) = f + j
        BY <3>0, <3>3
      <4> QED BY <2>4, <3>3, <4>1
    <3> QED BY <3>2, <3>3, <3>4, <3>5
  <2> HIDE DEF AtPacket, AtFirst
  <2>7. <<i, e, w>> \in R
    BY <1>4, <2>4, <2>5, <2>6
  <2> QED BY <2>7 DEF w, first
<1>7. /\ StopsAt(l, s) \in 1..N /\ Handed(l, s) \in Seq(Seq(V))
      /\ <<1, StopsAt(l, s), Handed(l, s)>> \in R
  <2> HIDE DEF AtPacket, AtFirst
  <2> QED BY <1>2, <1>5, <1>6, <1>N, LoopRule
<1>8. AtPacket(1, StopsAt(l, s), Handed(l, s)) /\ AtFirst(1, StopsAt(l, s), Handed(l, s))
  <2> HIDE DEF AtPacket, AtFirst
  <2>1. 1 \in 1..N
    BY <1>1, <1>M
  <2> QED BY <1>4, <1>7, <2>1
<1>9. CASE b > 1
  BY <1>7, <1>8, <1>9, <1>M DEF HandsOver
<1>10. CASE b = 1
  <2> DEFINE z == 0
  <2>1. z \in Nat /\ 2 * z <= M /\ 1 = b + 2 * z /\ z = 0
    BY <1>10, <1>M
  <2> HIDE DEF z
  <2>2. /\ StopsAt(l, s) = b + 2 * K /\ Len(Handed(l, s)) = K - z
        /\ \A j \in 1..(K - z) : Handed(l, s)[j] = Packet(c, f + z + j)
    BY <1>8, <2>1
  <2>3. K - z = K /\ \A j \in 1..K : f + z + j = f + j
    BY <2>1
  <2> QED BY <1>7, <1>10, <2>2, <2>3 DEF HandsOver
<1> QED BY <1>9, <1>10

\* What stays in m_pRecvBuffer.
RestFrom(l, s, e) ==
    /\ Rest(l, s) = SubSeq(s, e, Len(s)) /\ Len(Rest(l, s)) = Len(s) + 1 - e
    /\ \A j \in 1..(Len(s) + 1 - e) : Rest(l, s)[j] = s[e + j - 1]

LEMMA RestIs ==
    ASSUME NEW l, NEW V, NEW s \in Seq(V)
    PROVE  /\ Rest(l, s) \in Seq(V) /\ RestFrom(l, s, StopsAt(l, s))
           /\ Handed(l, s) \in Seq(Seq(V))
<1>1. StopsAt(l, s) \in 1..(Len(s) + 1) /\ Handed(l, s) \in Seq(Seq(V))
  BY LoopStops
<1>2. /\ SubSeq(s, StopsAt(l, s), Len(s)) \in Seq(V)
      /\ Len(SubSeq(s, StopsAt(l, s), Len(s))) = Len(s) + 1 - StopsAt(l, s)
      /\ \A j \in 1..(Len(s) + 1 - StopsAt(l, s)) :
             SubSeq(s, StopsAt(l, s), Len(s))[j] = s[StopsAt(l, s) + j - 1]
  BY <1>1, FramesAdvance
<1> QED BY <1>1, <1>2 DEF Rest, RestFrom

\* Reading on: B ends with o pieces of the packet that is being read.
LEMMA ReceivedFollows ==
    ASSUME NEW V, NEW B \in Seq(V), NEW s \in Seq(V), NEW c, NEW n \in Nat,
           NEW o \in 0..1, NEW f \in Nat, NEW b \in Nat \ {0}, Len(B) = b - 1 + o,
           Len(s) = Len(B) + n, \A i \in 1..Len(B) : s[i] = B[i],
           \A i \in 1..n : s[Len(B) + i] = Piece(c, 2 * f + o + i),
           \A i \in 1..Len(B) : B[i].part = 1,
           o = 1 => B[Len(B)] = Piece(c, 2 * f + o)
    PROVE  Follows(s, b, c, f, o + n)
<1>1. \A j \in 1..(b - 1) : s[j].part = 1
  <2> TAKE j \in 1..(b - 1)
  <2>1. j \in 1..Len(B)
    OBVIOUS
  <2> QED BY <2>1
<1>2. ASSUME NEW m \in 1..(o + n) PROVE s[b - 1 + m] = Piece(c, 2 * f + m)
  <2>1. CASE o = 1 /\ m = 1
    <3>1. b - 1 + m = Len(B) /\ Len(B) \in 1..Len(B) /\ 2 * f + m = 2 * f + o
      BY <2>1
    <3>2. s[Len(B)] = Piece(c, 2 * f + o)
      BY <2>1, <3>1
    <3> QED BY <3>1, <3>2
  <2>2. CASE m > o
    <3>a. m - o \in 1..n
      BY <2>2
    <3>b. Len(B) + (m - o) = b - 1 + m
      BY <2>2
    <3>c. 2 * f + o + (m - o) = 2 * f + m
      BY <2>2
    <3>1. m - o \in 1..n /\ Len(B) + (m - o) = b - 1 + m /\ 2 * f + o + (m - o) = 2 * f + m
      BY <3>a, <3>b, <3>c
    <3>2. s[Len(B) + (m - o)] = Piece(c, 2 * f + o + (m - o))
      BY <3>1
    <3> QED BY <3>1, <3>2
  <2>3. (o = 1 /\ m = 1) \/ m > o
    OBVIOUS
  <2> QED BY <2>1, <2>2, <2>3
<1>3. Len(s) = b - 1 + (o + n)
  OBVIOUS
<1> QED BY <1>1, <1>2, <1>3 DEF Follows

\* What OnReceive leaves of such a stream: d pieces of the packet that is being read.
Keeps(l, s, b, c, f, K, d) ==
    /\ Len(Rest(l, s)) >= d
    /\ \A i \in 1..Len(Rest(l, s)) : Rest(l, s)[i].part = 1
    /\ d = 1 => Rest(l, s)[Len(Rest(l, s))] = Piece(c, 2 * (f + K) + d)
    /\ K > 0 \/ b = 1 => Len(Rest(l, s)) = d

LEMMA FollowingRest ==
    ASSUME NEW l, NEW V, NEW s \in Seq(V), NEW b \in Nat \ {0}, NEW c, NEW f \in Nat,
           NEW K \in Nat, NEW d \in 0..1, Follows(s, b, c, f, 2 * K + d), l \in Feeds \/ b = 1
    PROVE  Keeps(l, s, b, c, f, K, d) /\ HandsOver(l, s, b, c, f, K)
<1>2. RestFrom(l, s, StopsAt(l, s)) /\ Rest(l, s) \in Seq(V) /\ Handed(l, s) \in Seq(Seq(V))
  BY RestIs
<1> DEFINE total == 2 * K + d
           r == Rest(l, s)
<1>1. total \in Nat /\ total = 2 * K + d /\ Follows(s, b, c, f, total)
  OBVIOUS
<1> HIDE DEF total
<1>3. /\ Handed(l, s) \in Seq(Seq(V)) /\ Len(Handed(l, s)) = K
      /\ \A j \in 1..K : j > 1 \/ b = 1 => Handed(l, s)[j] = Packet(c, f + j)
      /\ StopsAt(l, s) = IF K > 0 \/ b = 1 THEN b + 2 * K ELSE 1
  <2>1. HandsOver(l, s, b, c, f, K)
    BY FollowingLoop
  <2> QED BY <1>2, <2>1 DEF HandsOver
<1>4. Len(s) = b - 1 + total /\ (\A j \in 1..(b - 1) : s[j].part = 1)
      /\ \A m \in 1..total : s[b - 1 + m] = Piece(c, 2 * f + m)
  BY <1>1 DEF Follows
<1>5. d = 1 => s[Len(s)] = Piece(c, 2 * (f + K) + d) /\ s[Len(s)].part = 1
  <2> SUFFICES ASSUME d = 1
               PROVE  s[Len(s)] = Piece(c, 2 * (f + K) + d) /\ s[Len(s)].part = 1
    OBVIOUS
  <2> DEFINE k == f + K
  <2>1. k \in Nat /\ 2 * f + total = 2 * k + 1 /\ total \in 1..total /\ b - 1 + total = Len(s)
    BY <1>1, <1>4
  <2> HIDE DEF k
  <2>2. s[Len(s)] = Piece(c, 2 * k + 1)
    BY <1>4, <2>1
  <2>3. Piece(c, 2 * k + 1).part = 1
    BY <2>1, PieceIs
  <2> QED BY <2>2, <2>3 DEF k
<1>6. CASE K > 0 \/ b = 1
  <2> DEFINE end == b + 2 * K
  <2>1. StopsAt(l, s) = end /\ end \in 1..(Len(s) + 1) /\ Len(s) + 1 - end = d
    <3>1. StopsAt(l, s) = end
      BY <1>3, <1>6
    <3>2. Len(s) = b - 1 + (2 * K + d)
      BY <1>1, <1>4
    <3> QED BY <3>1, <3>2
  <2> HIDE DEF end, r
  <2>2. /\ r \in Seq(V) /\ Len(r) = Len(s) + 1 - end
        /\ \A j \in 1..(Len(s) + 1 - end) : r[j] = s[end + j - 1]
    <3>1. /\ Rest(l, s) \in Seq(V) /\ Len(Rest(l, s)) = Len(s) + 1 - end
          /\ \A j \in 1..(Len(s) + 1 - end) : Rest(l, s)[j] = s[end + j - 1]
      BY <1>2, <2>1 DEF RestFrom
    <3> QED BY <3>1 DEF r
  <2>3. Len(r) = d /\ (d = 1 => r[1] = s[Len(s)])
    <3>1. Len(r) = d
      BY <2>1, <2>2
    <3>2. d = 1 => end + 1 - 1 = Len(s) /\ 1 \in 1..(Len(s) + 1 - end)
      BY <1>4, <2>1
    <3> QED BY <2>2, <3>1, <3>2
  <2>4. \A i \in 1..Len(r) : r[i].part = 1
    <3> TAKE i \in 1..Len(r)
    <3>1. d = 1 /\ i = 1
      BY <2>3
    <3> QED BY <1>5, <2>3, <3>1
  <2>5. d = 1 => r[Len(r)] = Piece(c, 2 * (f + K) + d)
    BY <1>5, <2>3
  <2>6. Len(r) >= d
    BY <2>3
  <2> QED BY <1>3, <2>2, <2>3, <2>4, <2>5, <2>6 DEF r, Keeps, HandsOver
<1>7. CASE K = 0 /\ b # 1
  <2>1. StopsAt(l, s) = 1 /\ 1 \in 1..(Len(s) + 1)
    BY <1>3, <1>7
  <2>2. r = s
    <3>1. r = SubSeq(s, 1, Len(s))
      BY <1>2, <2>1 DEF RestFrom
    <3> QED BY <3>1, SubSeqFull
  <2>3. Len(s) = b - 1 + d /\ Len(s) >= d
    BY <1>1, <1>4, <1>7
  <2>4. \A i \in 1..Len(s) : s[i].part = 1
    <3> TAKE i \in 1..Len(s)
    <3>1. i \in 1..(b - 1) \/ (d = 1 /\ i = Len(s))
      BY <2>3
    <3> QED BY <1>4, <1>5, <3>1
  <2>5. ~(K > 0 \/ b = 1)
    BY <1>7
  <2> HIDE DEF r
  <2> QED BY <1>3, <1>5, <2>2, <2>3, <2>4, <2>5 DEF r, Keeps, HandsOver
<1>8. (K > 0 \/ b = 1) \/ (K = 0 /\ b # 1)
  OBVIOUS
<1> QED BY <1>6, <1>7, <1>8

\* The buffer B of link l once p pieces of connection c were read, if it has no
\* delimiter and, on the cache link, nothing of an earlier connection.
Continues(l, B, c, p) ==
    /\ \A i \in 1..Len(B) : B[i].part = 1
    /\ Len(B) >= p % 2
    /\ p % 2 = 1 => B[Len(B)] = Piece(c, p)
    /\ l \in Feeds \/ Len(B) = p % 2

\* What OnReceive does once q pieces were read and s is in the buffer.
Received(l, B, s, c, p, q) ==
    /\ Continues(l, Rest(l, s), c, q)
    /\ Len(Handed(l, s)) = q \div 2 - p \div 2
    /\ \A j \in 1..Len(Handed(l, s)) : j > 1 \/ Len(B) = p % 2 =>
           Handed(l, s)[j] = Packet(c, p \div 2 + j)
    /\ Len(Handed(l, s)) > 0 \/ Len(B) = p % 2 => Len(Rest(l, s)) = q % 2

LEMMA ReceivedContinues ==
    ASSUME NEW V, NEW B \in Seq(V), NEW s \in Seq(V), NEW c, NEW p \in Nat, NEW n \in Nat,
           NEW l, Continues(l, B, c, p),
           Len(s) = Len(B) + n, \A i \in 1..Len(B) : s[i] = B[i],
           \A i \in 1..n : s[Len(B) + i] = Piece(c, p + i)
    PROVE  Received(l, B, s, c, p, p + n)
<1> DEFINE o == p % 2
           f == p \div 2
           q == p + n
           d == q % 2
           K == q \div 2 - f
           b == Len(B) - o + 1
<1>1. Len(B) \in Nat
  BY LenProperties
<1>2. /\ o \in 0..1 /\ d \in 0..1 /\ f \in Nat /\ K \in Nat /\ o + n = 2 * K + d
      /\ p = 2 * f + o /\ q = 2 * (f + K) + d /\ q \div 2 = f + K
  OBVIOUS
<1>3. /\ \A i \in 1..Len(B) : B[i].part = 1
      /\ Len(B) >= o
      /\ o = 1 => B[Len(B)] = Piece(c, 2 * f + o)
      /\ l \in Feeds \/ Len(B) = o
  <2>1. /\ \A i \in 1..Len(B) : B[i].part = 1
        /\ Len(B) >= o /\ (o = 1 => B[Len(B)] = Piece(c, p))
        /\ l \in Feeds \/ Len(B) = o
    BY DEF Continues
  <2> HIDE DEF o, f
  <2> QED BY <1>2, <2>1
<1>4. \A i \in 1..n : s[Len(B) + i] = Piece(c, 2 * f + o + i)
  <2> HIDE DEF o, f
  <2> QED BY <1>2
<1>5. Received(l, B, s, c, p, q) <=>
      /\ \A i \in 1..Len(Rest(l, s)) : Rest(l, s)[i].part = 1
      /\ Len(Rest(l, s)) >= d
      /\ d = 1 => Rest(l, s)[Len(Rest(l, s))] = Piece(c, q)
      /\ l \in Feeds \/ Len(Rest(l, s)) = d
      /\ Len(Handed(l, s)) = q \div 2 - f
      /\ \A j \in 1..Len(Handed(l, s)) : j > 1 \/ Len(B) = o => Handed(l, s)[j] = Packet(c, f + j)
      /\ Len(Handed(l, s)) > 0 \/ Len(B) = o => Len(Rest(l, s)) = d
  BY DEF Received, Continues
<1> HIDE DEF o, f, d, K
<1>6. b \in Nat \ {0} /\ Len(B) = b - 1 + o /\ (b = 1 <=> Len(B) = o)
  <2> DEFINE size == Len(B)
  <2>1. size \in Nat /\ o \in 0..1 /\ size >= o
    BY <1>1, <1>2, <1>3
  <2>2. b = size - o + 1
    OBVIOUS
  <2> HIDE DEF size, b
  <2>3. b \in Nat \ {0} /\ size = b - 1 + o /\ (b = 1 <=> size = o)
    BY <2>1, <2>2
  <2> QED BY <2>3 DEF size
<1> HIDE DEF b
<1>7. Follows(s, b, c, f, o + n)
  BY <1>2, <1>3, <1>4, <1>6, ReceivedFollows
<1>8. Follows(s, b, c, f, 2 * K + d) /\ (l \in Feeds \/ b = 1)
  BY <1>2, <1>3, <1>6, <1>7
<1>9. Keeps(l, s, b, c, f, K, d) /\ HandsOver(l, s, b, c, f, K)
  BY <1>2, <1>6, <1>8, FollowingRest
<1> HIDE DEF q
<1>10. /\ \A i \in 1..Len(Rest(l, s)) : Rest(l, s)[i].part = 1
       /\ Len(Rest(l, s)) >= d
       /\ d = 1 => Rest(l, s)[Len(Rest(l, s))] = Piece(c, q)
       /\ l \in Feeds \/ Len(Rest(l, s)) = d
  BY <1>2, <1>8, <1>9 DEF Keeps
<1>11. /\ Len(Handed(l, s)) = q \div 2 - f
       /\ \A j \in 1..Len(Handed(l, s)) : j > 1 \/ Len(B) = o => Handed(l, s)[j] = Packet(c, f + j)
       /\ Len(Handed(l, s)) > 0 \/ Len(B) = o => Len(Rest(l, s)) = d
  BY <1>2, <1>6, <1>9 DEF Keeps, HandsOver
<1> QED BY <1>5, <1>10, <1>11 DEF q

\* On the cache link the first packet handed over is longer than what the buffer held,
\* so that each packet costs a piece of the current connection.
LEMMA ReceivedMeasured ==
    ASSUME NEW V, NEW B \in Seq(V), NEW s \in Seq(V), NEW n \in Nat, NEW l, l \notin Feeds,
           Measured(B) = 0, Len(s) = Len(B) + n, \A i \in 1..Len(B) : s[i] = B[i]
    PROVE  Measured(Rest(l, s)) = 0 /\ Len(Handed(l, s)) <= n
<1>1. /\ FrameAt(l, s, StopsAt(l, s)) = 0 /\ Len(Handed(l, s)) \in Nat
      /\ FrameAt(l, s, 1) = 0 => Len(Handed(l, s)) = 0
      /\ FrameAt(l, s, 1) # 0 => Len(Handed(l, s)) + FrameAt(l, s, 1) <= Len(s) + 1
  BY LoopStops, LenProperties
<1>2. Measured(Rest(l, s)) = 0
  BY <1>1 DEF Rest, FrameAt, FrameLength
<1>3. FrameAt(l, s, 1) = Measured(s)
  BY SubSeqFull DEF FrameAt, FrameLength
<1>4. Measured(s) \in 0..Len(s) /\ Len(B) \in Nat
  BY MeasuredFits, LenProperties
<1>5. Measured(s) # 0 => Measured(s) > Len(B)
  <2>1. CASE B = <<>>
    BY <1>4, <2>1
  <2>2. CASE B # <<>>
    <3>1. Len(B) >= 1 /\ s # <<>> /\ s[1] = B[1]
      BY <1>4, <2>2, EmptySeq
    <3>2. Measured(B) = 0 => ~(Len(B) >= IF B[1].part = 1 THEN 2 ELSE GarbageLength)
      BY <2>2, BoundsAssumption DEF Measured
    <3>3. Measured(s) # 0 => Measured(s) = IF B[1].part = 1 THEN 2 ELSE GarbageLength
      BY <3>1 DEF Measured
    <3> QED BY <1>4, <3>2, <3>3, BoundsAssumption
  <2> QED BY <2>1, <2>2
<1>6. Len(Handed(l, s)) <= n
  <2> DEFINE k == Len(Handed(l, s))
             m == Measured(s)
             size == Len(B)
  <2>1. /\ k \in Nat /\ m \in Nat /\ size \in Nat /\ (m # 0 => m > size)
        /\ m = 0 => k = 0
        /\ m # 0 => k + m <= size + n + 1
    BY <1>1, <1>3, <1>4, <1>5
  <2> HIDE DEF k, m, size
  <2>2. k <= n
    BY <2>1
  <2> QED BY <2>2 DEF k
<1> QED BY <1>2, <1>6

-----------------------------------------------------------------------------
(* The streams *)

AnyPiece == [conn : Nat, packet : Nat, part : {1, 2}]
Pieces(l) == [conn : 1..number[l], packet : 1..MaxPackets[l], part : {1, 2}]

\* How the buffer, the packets handed over and the current connection belong together.
StreamOf(l) ==
    /\ pos[l] <= 2 * MaxPackets[l] /\ frames[l] <= pos[l]
    /\ buffer[l] \in Seq(Pieces(l)) /\ wrong[l] \subseteq 1..(2 * MaxPackets[l])
    /\ torn[l] \/ worker[l] = "running" \/ pos[l] % 2 = 0
    /\ l \in Feeds \/ ~torn[l] =>
           Continues(l, buffer[l], number[l], pos[l]) /\ frames[l] = pos[l] \div 2
    /\ l \in Feeds => wrong[l] \subseteq {1} /\ (frames[l] > 0 => Len(buffer[l]) = pos[l] % 2)
    /\ ~torn[l] => wrong[l] = {} /\ Len(buffer[l]) = pos[l] % 2
    /\ l \notin Feeds => Measured(buffer[l]) = 0

StreamTypes ==
    /\ pos \in [Links -> Nat] /\ frames \in [Links -> Nat] /\ torn \in [Links -> BOOLEAN]
    /\ buffer \in [Links -> Seq(AnyPiece)] /\ wrong \in [Links -> SUBSET Nat]
    /\ listed \in BOOLEAN

StreamInv == StreamTypes /\ \A l \in Links : StreamOf(l)

LEMMA NothingRead ==
    ASSUME NEW l, NEW c
    PROVE  Continues(l, <<>>, c, 0) /\ Measured(<<>>) = 0
BY DEF Continues, Measured

LEMMA StreamInit == Init => StreamInv
<1> SUFFICES ASSUME Init PROVE StreamInv
  OBVIOUS
<1>1. StreamTypes
  BY EmptySeq DEF Init, StreamTypes
<1>2. ASSUME NEW l \in Links PROVE StreamOf(l)
  <2>1. /\ pos[l] = 0 /\ frames[l] = 0 /\ buffer[l] = <<>> /\ wrong[l] = {} /\ torn[l] = FALSE
    BY DEF Init
  <2>2. MaxPackets[l] \in Nat /\ <<>> \in Seq(Pieces(l)) /\ Len(<<>>) = 0
    BY BoundsAssumption, EmptySeq
  <2> QED BY <2>1, <2>2, NothingRead DEF StreamOf
<1> QED BY <1>1, <1>2 DEF StreamInv

\* Steps that neither read nor open a connection.
LEMMA SameStream ==
    ASSUME StreamInv, UNCHANGED <<number, pos, buffer, frames, wrong, listed>>,
           torn' \in [Links -> BOOLEAN],
           \A l \in Links :
               /\ torn'[l] = torn[l] \/ (torn'[l] = TRUE /\ pos[l] % 2 = 1)
               /\ worker'[l] = worker[l] \/ worker[l] # "running" \/ torn'[l] = (torn[l] \/ InPacket(l))
    PROVE  StreamInv'
<1>1. StreamTypes'
  BY DEF StreamInv, StreamTypes
<1>2. ASSUME NEW l \in Links PROVE StreamOf(l)'
  <2>1. StreamOf(l) /\ Pieces(l)' = Pieces(l) /\ pos[l] \in Nat
    BY DEF StreamInv, StreamTypes, Pieces
  <2>2. pos[l] % 2 = 0 \/ pos[l] % 2 = 1
    BY <2>1
  <2> QED BY <2>1, <2>2 DEF StreamOf, InPacket
<1> QED BY <1>1, <1>2 DEF StreamInv

LEMMA ConnectStream == ASSUME ControlInv, StreamInv, Connect PROVE StreamInv'
<1>1. /\ pc = "connect"
      /\ worker' = [worker EXCEPT ![at] = "running"]
      /\ number' = [number EXCEPT ![at] = number[at] + 1]
      /\ pos' = [pos EXCEPT ![at] = 0] /\ frames' = [frames EXCEPT ![at] = 0]
      /\ UNCHANGED <<buffer, wrong, torn, listed>>
  BY DEF Connect
<1>2. at \in Links /\ worker \in [Links -> WorkerPcs] /\ number \in [Links -> Nat]
  BY DEF ControlInv, ControlTypes
<1>3. StreamTypes
  BY DEF StreamInv
<1>4. /\ worker'[at] = "running" /\ number'[at] = number[at] + 1
      /\ pos'[at] = 0 /\ frames'[at] = 0
      /\ \A l \in Links \ {at} :
            /\ worker'[l] = worker[l] /\ number'[l] = number[l]
            /\ pos'[l] = pos[l] /\ frames'[l] = frames[l]
  BY <1>1, <1>2, <1>3 DEF StreamTypes
<1>5. worker[at] = "none"
  BY <1>1, <1>2 DEF ControlInv, SocketInv, SocketOf, WorkerPcs
<1>6. StreamTypes'
  BY <1>1, <1>2, <1>3 DEF StreamTypes
<1>7. ASSUME NEW l \in Links, l = at PROVE StreamOf(l)'
  <2>1. StreamOf(l) /\ MaxPackets[l] \in Nat /\ number[l] \in Nat
    BY <1>2, BoundsAssumption DEF StreamInv
  <2>2. buffer[l] \in Seq(Pieces(l)')
    <3> DEFINE old == Pieces(l)
               new == Pieces(l)'
    <3>1. old \subseteq new
      BY <1>4, <1>7, <2>1 DEF Pieces
    <3>2. buffer[l] \in Seq(old)
      BY <2>1 DEF StreamOf
    <3> HIDE DEF old, new
    <3>3. buffer[l] \in Seq(new)
      BY <3>1, <3>2
    <3> QED BY <3>3 DEF new
  <2>3. ~torn[l] => Len(buffer[l]) = 0
    BY <1>5, <1>7, <2>1 DEF StreamOf
  <2>4. l \in Feeds \/ ~torn[l] => Continues(l, buffer[l], number'[l], 0)
    <3>1. 0 % 2 = 0 /\ Len(buffer[l]) >= 0
      BY <2>2, LenProperties
    <3> QED BY <2>1, <2>3, <3>1 DEF StreamOf, Continues
  <2>5. 0 % 2 = 0 /\ 0 \div 2 = 0
    OBVIOUS
  <2>6. /\ l \in Feeds => wrong[l] \subseteq {1}
        /\ ~torn[l] => wrong[l] = {}
        /\ l \notin Feeds => Measured(buffer[l]) = 0
        /\ wrong[l] \subseteq 1..(2 * MaxPackets[l])
    BY <2>1 DEF StreamOf
  <2> QED BY <1>1, <1>4, <1>7, <2>1, <2>2, <2>3, <2>4, <2>5, <2>6 DEF StreamOf
<1>8. ASSUME NEW l \in Links \ {at} PROVE StreamOf(l)'
  <2>1. StreamOf(l) /\ Pieces(l)' = Pieces(l)
    BY <1>4 DEF StreamInv, Pieces
  <2> QED BY <1>1, <1>4, <2>1 DEF StreamOf
<1> QED BY <1>6, <1>7, <1>8 DEF StreamInv

LEMMA StopsStream == ASSUME ControlInv, StreamInv, NEW l \in Links, WorkerStops(l) PROVE StreamInv'
<1>1. /\ worker' = [worker EXCEPT ![l] = "stopping"]
      /\ torn' = [torn EXCEPT ![l] = torn[l] \/ InPacket(l)]
      /\ UNCHANGED <<number, pos, buffer, frames, wrong, listed>>
  BY DEF WorkerStops, network
<1>2. torn \in [Links -> BOOLEAN] /\ worker \in [Links -> WorkerPcs] /\ pos \in [Links -> Nat]
  BY DEF ControlInv, ControlTypes, StreamInv, StreamTypes
<1>3. InPacket(l) \in BOOLEAN
  BY DEF InPacket
<1>4. /\ torn' \in [Links -> BOOLEAN] /\ torn'[l] = (torn[l] \/ InPacket(l))
      /\ \A m \in Links \ {l} : torn'[m] = torn[m] /\ worker'[m] = worker[m]
  BY <1>1, <1>2, <1>3
<1>5. torn'[l] = torn[l] \/ (torn'[l] = TRUE /\ pos[l] % 2 = 1)
  BY <1>2, <1>4 DEF InPacket
<1> QED BY <1>1, <1>4, <1>5, SameStream

\* What one call of OnReceive makes of link l: n pieces more, h handed over, r kept.
Delivers(l, n, h, r) ==
    /\ n \in Nat /\ pos[l] + n <= 2 * MaxPackets[l]
    /\ r \in Seq(Pieces(l)) /\ h \in Seq(Seq(Pieces(l))) /\ Len(h) <= n
    /\ l \in Feeds \/ ~torn[l] =>
           /\ Continues(l, r, number[l], pos[l] + n)
           /\ Len(h) = (pos[l] + n) \div 2 - pos[l] \div 2
           /\ \A j \in 1..Len(h) : j > 1 \/ Len(buffer[l]) = pos[l] % 2 =>
                  h[j] = Packet(number[l], frames[l] + j)
           /\ Len(h) > 0 \/ Len(buffer[l]) = pos[l] % 2 => Len(r) = (pos[l] + n) % 2
    /\ l \notin Feeds => Measured(r) = 0

LEMMA ReceiveDelivers ==
    ASSUME ControlInv, StreamInv, NEW l \in Links, worker[l] = "running",
           NEW n \in 1..(2 * MaxPackets[l] - pos[l]),
           NEW s, s = buffer[l] \o [i \in 1..n |-> Piece(number[l], pos[l] + i)]
    PROVE  Delivers(l, n, Handed(l, s), Rest(l, s))
<1> DEFINE V == Pieces(l)
           B == buffer[l]
           c == number[l]
           p == pos[l]
           t == [i \in 1..n |-> Piece(c, p + i)]
           most == MaxPackets[l]
<1>1. c \in Nat /\ c > 0 /\ p \in Nat /\ most \in Nat /\ n \in Nat /\ p + n <= 2 * most
  BY BoundsAssumption DEF ControlInv, ControlTypes, SocketInv, BreaksOf, StreamInv, StreamTypes
<1>2. B \in Seq(V) /\ StreamOf(l)
  BY DEF StreamInv, StreamOf
<1>3. V = [conn : 1..c, packet : 1..most, part : {1, 2}] /\ s = B \o t
  BY DEF Pieces
<1> HIDE DEF V, B, c, p, most
<1>4. ASSUME NEW i \in 1..n PROVE Piece(c, p + i) \in V
  <2>1. c \in 1..c /\ (p + i + 1) \div 2 \in 1..most
    BY <1>1
  <2>2. (IF (p + i) % 2 = 1 THEN 1 ELSE 2) \in {1, 2}
    OBVIOUS
  <2> QED BY <1>3, <2>1, <2>2 DEF Piece
<1>5. t \in Seq(V) /\ Len(t) = n /\ \A i \in 1..n : t[i] = Piece(c, p + i)
  <2>1. t \in [1..n -> V] /\ \A i \in 1..n : t[i] = Piece(c, p + i)
    BY <1>4
  <2> HIDE DEF t
  <2> QED BY <1>1, <2>1
<1> HIDE DEF t
<1>6. /\ s \in Seq(V) /\ Len(s) = Len(B) + n /\ Len(B) \in Nat
      /\ \A i \in 1..Len(B) : s[i] = B[i]
      /\ \A i \in 1..n : s[Len(B) + i] = Piece(c, p + i)
  <2>1. /\ B \o t \in Seq(V) /\ Len(B \o t) = Len(B) + Len(t) /\ Len(B) \in Nat
        /\ \A i \in 1..Len(B) + Len(t) : (B \o t)[i] = IF i <= Len(B) THEN B[i] ELSE t[i - Len(B)]
    BY <1>2, <1>5, ConcatProperties, LenProperties
  <2>2. /\ s \in Seq(V) /\ Len(s) = Len(B) + n /\ Len(B) \in Nat
        /\ \A i \in 1..Len(B) + n : s[i] = IF i <= Len(B) THEN B[i] ELSE t[i - Len(B)]
    BY <1>3, <1>5, <2>1
  <2>3. ASSUME NEW i \in 1..n PROVE s[Len(B) + i] = Piece(c, p + i)
    <3> DEFINE k == Len(B) + i
    <3>1. k \in 1..Len(B) + n /\ ~(k <= Len(B)) /\ k - Len(B) = i
      BY <1>1, <2>2
    <3> HIDE DEF k
    <3>2. s[k] = t[i]
      BY <2>2, <3>1
    <3> QED BY <1>5, <3>2 DEF k
  <2>4. ASSUME NEW i \in 1..Len(B) PROVE s[i] = B[i]
    <3>1. i \in 1..Len(B) + n /\ i <= Len(B)
      BY <1>1, <2>2
    <3> QED BY <2>2, <3>1
  <2> QED BY <2>2, <2>3, <2>4
<1> DEFINE h == Handed(l, s)
           r == Rest(l, s)
<1>7. r \in Seq(V) /\ h \in Seq(Seq(V)) /\ Len(h) \in Nat
  BY <1>6, RestIs, LenProperties
<1>8. CASE l \in Feeds \/ ~torn[l]
  <2>1. Continues(l, B, c, p) /\ frames[l] = p \div 2
    BY <1>2, <1>8 DEF StreamOf, B, c, p
  <2>2. Received(l, B, s, c, p, p + n)
    BY <1>1, <1>2, <1>6, <2>1, ReceivedContinues
  <2>3. /\ Continues(l, r, c, p + n) /\ Len(h) = (p + n) \div 2 - p \div 2
        /\ \A j \in 1..Len(h) : j > 1 \/ Len(B) = p % 2 => h[j] = Packet(c, frames[l] + j)
        /\ Len(h) > 0 \/ Len(B) = p % 2 => Len(r) = (p + n) % 2
    BY <2>1, <2>2 DEF Received
  <2>4. (p + n) \div 2 - p \div 2 <= n
    BY <1>1
  <2>5. l \notin Feeds => Measured(r) = 0
    <3>1. l \notin Feeds => Measured(B) = 0
      BY <1>2 DEF StreamOf, B
    <3> QED BY <1>1, <1>2, <1>6, <3>1, ReceivedMeasured
  <2> HIDE DEF h, r
  <2>6. Len(h) <= n
    BY <2>3, <2>4
  <2> QED BY <1>1, <1>7, <2>3, <2>5, <2>6 DEF Delivers, h, r, V, B, c, p, most
<1>9. CASE ~(l \in Feeds \/ ~torn[l])
  <2>1. Measured(B) = 0
    BY <1>2, <1>9 DEF StreamOf, B
  <2>2. Measured(r) = 0 /\ Len(h) <= n
    <3>1. l \notin Feeds /\ n \in Nat
      BY <1>1, <1>9
    <3> QED BY <1>2, <1>6, <2>1, <3>1, ReceivedMeasured
  <2> QED BY <1>1, <1>7, <1>9, <2>2 DEF Delivers, V, p, most
<1> QED BY <1>8, <1>9

LEMMA ReceiveStream == ASSUME ControlInv, StreamInv, NEW l \in Links, Receive(l) PROVE StreamInv'
<1>1. /\ worker[l] = "running" /\ UNCHANGED <<worker, number, torn>>
      /\ l \in Links /\ StreamTypes /\ StreamOf(l)
  BY DEF Receive, network, StreamInv
<1>2. PICK n \in 1..(2 * MaxPackets[l] - pos[l]) :
        LET s == buffer[l] \o [i \in 1..n |-> Piece(number[l], pos[l] + i)]
            packets == Handed(l, s)
            Intact(j) == packets[j] = Packet(number[l], frames[l] + j)
        IN  /\ pos' = [pos EXCEPT ![l] = @ + n]
            /\ buffer' = [buffer EXCEPT ![l] = Rest(l, s)]
            /\ frames' = [frames EXCEPT ![l] = @ + Len(packets)]
            /\ wrong' = [wrong EXCEPT ![l] =
                   @ \cup {frames[l] + j : j \in {i \in DOMAIN packets : ~Intact(i)}}]
            /\ listed' = (listed \/ (l \in Feeds /\ \E j \in DOMAIN packets : Intact(j)))
  BY DEF Receive
<1> DEFINE s == buffer[l] \o [i \in 1..n |-> Piece(number[l], pos[l] + i)]
           h == Handed(l, s)
           r == Rest(l, s)
           Intact(j) == h[j] = Packet(number[l], frames[l] + j)
           spoilt == {frames[l] + j : j \in {i \in DOMAIN h : ~Intact(i)}}
<1>3. Delivers(l, n, h, r)
  <2> HIDE DEF h, r
  <2> DEFINE u == s
  <2>1. u = buffer[l] \o [i \in 1..n |-> Piece(number[l], pos[l] + i)]
    OBVIOUS
  <2> HIDE DEF u
  <2>2. Delivers(l, n, Handed(l, u), Rest(l, u))
    BY <1>1, <2>1, ReceiveDelivers
  <2> QED BY <2>2 DEF u, h, r
<1>4. /\ pos' = [pos EXCEPT ![l] = pos[l] + n]
      /\ buffer' = [buffer EXCEPT ![l] = r]
      /\ frames' = [frames EXCEPT ![l] = frames[l] + Len(h)]
      /\ wrong' = [wrong EXCEPT ![l] = wrong[l] \cup spoilt]
      /\ listed' = (listed \/ (l \in Feeds /\ \E j \in DOMAIN h : Intact(j)))
  BY <1>2
<1>5. listed' \in BOOLEAN
  BY <1>4, Zenon
<1> HIDE DEF s, h, r
<1>6. /\ n \in Nat /\ r \in Seq(Pieces(l)) /\ h \in Seq(Seq(Pieces(l))) /\ Len(h) \in 0..n
      /\ pos[l] \in Nat /\ frames[l] \in Nat /\ frames[l] <= pos[l]
      /\ pos[l] + n <= 2 * MaxPackets[l] /\ MaxPackets[l] \in Nat /\ number[l] \in Nat
      /\ DOMAIN h = 1..Len(h)
  BY <1>1, <1>3, LenProperties, BoundsAssumption
     DEF Delivers, StreamOf, StreamTypes, ControlInv, ControlTypes
<1>7. spoilt \subseteq 1..(2 * MaxPackets[l])
  <2> SUFFICES ASSUME NEW j \in 1..Len(h) PROVE frames[l] + j \in 1..(2 * MaxPackets[l])
    BY <1>6
  <2> QED BY <1>6
<1>8. /\ l \in Feeds => spoilt \subseteq {1} /\ (frames[l] > 0 => spoilt = {})
      /\ ~torn[l] => spoilt = {}
  <2>1. l \in Feeds \/ ~torn[l] =>
           \A j \in 1..Len(h) : j > 1 \/ Len(buffer[l]) = pos[l] % 2 => Intact(j)
    BY <1>3 DEF Delivers
  <2>2. /\ ~torn[l] => Len(buffer[l]) = pos[l] % 2
        /\ l \in Feeds /\ frames[l] > 0 => Len(buffer[l]) = pos[l] % 2
    BY <1>1 DEF StreamOf
  <2>3. \A j \in 1..Len(h) : j > 1 \/ j = 1
    BY <1>6
  <2> HIDE DEF Intact
  <2>4. ~torn[l] => spoilt = {}
    BY <1>6, <2>1, <2>2
  <2>5. l \in Feeds /\ frames[l] > 0 => spoilt = {}
    BY <1>6, <2>1, <2>2
  <2>6. l \in Feeds /\ ~(frames[l] > 0) => spoilt \subseteq {1}
    <3> SUFFICES ASSUME l \in Feeds, ~(frames[l] > 0), NEW j \in 1..Len(h), ~Intact(j)
                 PROVE  frames[l] + j = 1
      BY <1>6
    <3>1. j = 1
      BY <2>1, <2>3
    <3>2. frames[l] = 0
      BY <1>6
    <3> QED BY <3>1, <3>2
  <2> QED BY <2>4, <2>5, <2>6
<1> HIDE DEF spoilt
<1>9. /\ pos'[l] = pos[l] + n /\ buffer'[l] = r /\ frames'[l] = frames[l] + Len(h)
      /\ wrong'[l] = wrong[l] \cup spoilt
      /\ \A m \in Links \ {l} :
            /\ pos'[m] = pos[m] /\ buffer'[m] = buffer[m]
            /\ frames'[m] = frames[m] /\ wrong'[m] = wrong[m]
  BY <1>1, <1>4 DEF StreamTypes
<1>10. StreamTypes'
  <2>1. r \in Seq(AnyPiece)
    <3> DEFINE old == Pieces(l)
    <3>1. old \subseteq AnyPiece
      BY <1>6 DEF Pieces, AnyPiece
    <3>2. r \in Seq(old)
      BY <1>6
    <3> HIDE DEF old
    <3> QED BY <3>1, <3>2
  <2>2. pos[l] + n \in Nat /\ frames[l] + Len(h) \in Nat
    BY <1>6
  <2>3. wrong[l] \cup spoilt \in SUBSET Nat
    <3>1. wrong[l] \in SUBSET Nat
      BY <1>1 DEF StreamTypes
    <3>2. \A x \in spoilt : x \in Nat
      BY <1>7
    <3> QED BY <3>1, <3>2
  <2> QED BY <1>1, <1>4, <1>5, <2>1, <2>2, <2>3 DEF StreamTypes
<1>11. StreamOf(l)'
  <2>1. Pieces(l)' = Pieces(l)
    BY <1>1 DEF Pieces
  <2>2. /\ pos[l] + n <= 2 * MaxPackets[l] /\ frames[l] + Len(h) <= pos[l] + n
        /\ r \in Seq(Pieces(l)) /\ wrong[l] \cup spoilt \subseteq 1..(2 * MaxPackets[l])
    <3>1. frames[l] + Len(h) <= pos[l] + n
      BY <1>6
    <3>2. wrong[l] \subseteq 1..(2 * MaxPackets[l])
      BY <1>1 DEF StreamOf
    <3>3. wrong[l] \cup spoilt \subseteq 1..(2 * MaxPackets[l])
      BY <1>7, <3>2
    <3> QED BY <1>6, <3>1, <3>3
  <2>3. l \in Feeds \/ ~torn[l] =>
           Continues(l, r, number[l], pos[l] + n) /\ frames[l] + Len(h) = (pos[l] + n) \div 2
    <3> SUFFICES ASSUME l \in Feeds \/ ~torn[l]
                 PROVE  /\ Continues(l, r, number[l], pos[l] + n)
                        /\ frames[l] + Len(h) = (pos[l] + n) \div 2
      OBVIOUS
    <3>1. /\ Continues(l, r, number[l], pos[l] + n)
          /\ Len(h) = (pos[l] + n) \div 2 - pos[l] \div 2
      BY <1>3 DEF Delivers
    <3>2. frames[l] = pos[l] \div 2
      BY <1>1 DEF StreamOf
    <3> QED BY <1>6, <3>1, <3>2
  <2>4. l \in Feeds => /\ wrong[l] \cup spoilt \subseteq {1}
                       /\ frames[l] + Len(h) > 0 => Len(r) = (pos[l] + n) % 2
    <3> SUFFICES ASSUME l \in Feeds
                 PROVE  /\ wrong[l] \cup spoilt \subseteq {1}
                        /\ frames[l] + Len(h) > 0 => Len(r) = (pos[l] + n) % 2
      OBVIOUS
    <3>1. Len(h) > 0 \/ Len(buffer[l]) = pos[l] % 2 => Len(r) = (pos[l] + n) % 2
      BY <1>3 DEF Delivers
    <3>2. wrong[l] \subseteq {1} /\ (frames[l] > 0 => Len(buffer[l]) = pos[l] % 2)
      BY <1>1 DEF StreamOf
    <3>3. frames[l] + Len(h) > 0 => frames[l] > 0 \/ Len(h) > 0
      BY <1>6
    <3> QED BY <1>8, <3>1, <3>2, <3>3
  <2>5. ~torn[l] => wrong[l] \cup spoilt = {} /\ Len(r) = (pos[l] + n) % 2
    <3>1. ~torn[l] /\ Len(buffer[l]) = pos[l] % 2 => Len(r) = (pos[l] + n) % 2
      BY <1>3 DEF Delivers
    <3>2. ~torn[l] => wrong[l] = {} /\ Len(buffer[l]) = pos[l] % 2
      BY <1>1 DEF StreamOf
    <3> QED BY <1>8, <3>1, <3>2
  <2>6. l \notin Feeds => Measured(r) = 0
    BY <1>3 DEF Delivers
  <2> QED BY <1>1, <1>9, <2>1, <2>2, <2>3, <2>4, <2>5, <2>6 DEF StreamOf
<1>12. ASSUME NEW m \in Links \ {l} PROVE StreamOf(m)'
  <2>1. StreamOf(m) /\ Pieces(m)' = Pieces(m)
    BY <1>1 DEF StreamInv, Pieces
  <2> QED BY <1>1, <1>9, <2>1 DEF StreamOf
<1> QED BY <1>10, <1>11, <1>12 DEF StreamInv

LEMMA NextStream == ASSUME ControlInv, StreamInv, [Next]_vars PROVE StreamInv'
<1>0. torn \in [Links -> BOOLEAN]
  BY DEF StreamInv, StreamTypes
<1>1. ASSUME UNCHANGED <<number, data>>,
             \A l \in Links : worker'[l] = worker[l] \/ worker[l] # "running"
      PROVE  StreamInv'
  BY <1>0, <1>1, SameStream DEF data
<1>2. CASE Caller
  <2>1. CASE Connect
    BY <2>1, ConnectStream
  <2>2. CASE ~Connect
    <3>1. UNCHANGED <<worker, number, data>>
      BY <1>2, <2>2 DEF Caller, Begin, CheckStarting, Refused, Connected, Login, Drain, Failed,
                        Serve, Check, network
    <3> QED BY <1>1, <3>1
  <2> QED BY <2>1, <2>2
<1>3. ASSUME NEW l \in Links, Worker(l) PROVE StreamInv'
  <2>1. CASE Receive(l)
    BY <2>1, ReceiveStream
  <2>2. CASE WorkerStops(l)
    BY <2>2, StopsStream
  <2>3. CASE Disconnected(l) \/ OnClose(l) \/ Reset(l)
    <3>1. /\ UNCHANGED <<number, data>> /\ worker[l] # "running"
          /\ \E state \in WorkerPcs : worker' = [worker EXCEPT ![l] = state]
      BY <2>3 DEF Disconnected, OnClose, Reset, network, WorkerPcs
    <3>2. \A m \in Links \ {l} : worker'[m] = worker[m]
      BY <3>1 DEF ControlInv, ControlTypes
    <3> QED BY <1>1, <3>1, <3>2
  <2> QED BY <1>3, <2>1, <2>2, <2>3 DEF Worker
<1>4. ASSUME NEW l \in Links, Break(l) PROVE StreamInv'
  BY <1>1, <1>4 DEF Break
<1>5. CASE UNCHANGED vars
  BY <1>1, <1>5 DEF vars, network
<1> QED BY <1>2, <1>3, <1>4, <1>5 DEF Next

\* What a link's conjuncts say of its type.
LEMMA StreamTypeOK == ControlInv /\ StreamInv => TypeOK
<1> SUFFICES ASSUME ControlInv, StreamInv PROVE TypeOK
  OBVIOUS
<1>1. ControlTypes /\ StreamTypes
  BY DEF ControlInv, StreamInv
<1>2. ASSUME NEW l \in Links
      PROVE  /\ number[l] \in 0..(MaxBreaks[l] + 1) /\ pos[l] \in 0..(2 * MaxPackets[l])
             /\ frames[l] \in 0..(2 * MaxPackets[l] + 1)
             /\ wrong[l] \subseteq 1..(2 * MaxPackets[l] + 1)
             /\ \A i \in DOMAIN buffer[l] : buffer[l][i] \in
                    [conn : 1..number[l], packet : 1..MaxPackets[l], part : {1, 2}]
  <2>1. /\ StreamOf(l) /\ BreaksOf(l) /\ MaxBreaks[l] \in Nat /\ MaxPackets[l] \in Nat
        /\ number[l] \in Nat /\ pos[l] \in Nat /\ frames[l] \in Nat
    BY <1>1, BoundsAssumption DEF ControlInv, SocketInv, StreamInv, StreamTypes, ControlTypes
  <2>2. number[l] <= MaxBreaks[l] + 1
    BY <2>1 DEF BreaksOf
  <2>3. /\ pos[l] <= 2 * MaxPackets[l] /\ frames[l] <= pos[l]
        /\ buffer[l] \in Seq(Pieces(l)) /\ wrong[l] \subseteq 1..(2 * MaxPackets[l])
    BY <2>1 DEF StreamOf
  <2>4. \A i \in DOMAIN buffer[l] : buffer[l][i] \in Pieces(l)
    BY <2>3, LenProperties, ElementOfSeq
  <2>5. wrong[l] \subseteq 1..(2 * MaxPackets[l] + 1)
    <3>1. 1..(2 * MaxPackets[l]) \subseteq 1..(2 * MaxPackets[l] + 1)
      BY <2>1
    <3> QED BY <2>3, <3>1
  <2>6. frames[l] \in 0..(2 * MaxPackets[l] + 1) /\ pos[l] \in 0..(2 * MaxPackets[l])
    BY <2>1, <2>3
  <2> QED BY <2>1, <2>2, <2>4, <2>5, <2>6 DEF Pieces
<1> QED BY <1>1, <1>2 DEF TypeOK, ControlTypes, StreamTypes

LEMMA StreamSpoilt == StreamInv => OnlyFirstSpoilt
<1> SUFFICES ASSUME StreamInv, NEW l \in Links, wrong[l] # {}
             PROVE  torn[l] /\ (l \in Feeds => wrong[l] = {1})
  BY DEF OnlyFirstSpoilt
<1>1. StreamOf(l)
  BY DEF StreamInv
<1> QED BY <1>1 DEF StreamOf

-----------------------------------------------------------------------------
(* The theorems *)

LEMMA InvariantsHold == Spec => [](ControlInv /\ StreamInv)
<1>1. Init => ControlInv /\ StreamInv
  BY ControlInit, StreamInit
<1>2. ControlInv /\ StreamInv /\ [Next]_vars => (ControlInv /\ StreamInv)'
  BY NextControl, NextStream
<1> QED BY <1>1, <1>2, PTL DEF Spec

\* Every variable of the three connections keeps its type and its bound, whatever
\* closes, reconnections and broken packets do.
THEOREM TypeCorrect == Spec => []TypeOK
BY InvariantsHold, StreamTypeOK, PTL

\* What the application believes of a feed is true or about to be corrected: a link
\* marked stopped has no open connection, and a settled one marked started has one or
\* has a worker that is about to report the close.
THEOREM StateIsTruthful == Spec => []StateTruthful
BY InvariantsHold, ControlTruthful, PTL

\* OnReceive never clears m_pRecvBuffer, yet only the first packet of a feed's connection
\* can be spoilt by what a broken packet left, and without a broken packet none is.
THEOREM OnlyFirstIsSpoilt == Spec => []OnlyFirstSpoilt
BY InvariantsHold, StreamSpoilt, PTL
=============================================================================
