--------------------------- MODULE FrontEndProofs ---------------------------
(***************************************************************************)
(* Proofs about FrontEnd for every tape, every set of feeds and front-end  *)
(* connections and every window: no quote falls between the broadcast and  *)
(* the reply to a login, what a front-end was sent last is the newest      *)
(* quote unless a broadcast overtook the reply and no quote was sent       *)
(* since, and IsNewTick recognises the quotes of its window.               *)
(***************************************************************************)
EXTENDS FrontEnd, SequenceTheorems, TLAPS

ConnStates == {"none", "open", "closing", "closed"}
LoginPcs == {"none", "insert", "snapshot", "reply", "done", "refuse", "refused"}
HandlerPcs == {"ready", "waiting", "copy", "send"}

QueueTypes ==
    /\ delivered \in [Feeds -> Nat]
    /\ raw \in Seq(Quotes) /\ handled \in Seq(Quotes)

Types ==
    /\ thread \in [filter : {"ready", "waiting"}, handler : HandlerPcs]
    /\ last \in [Contracts -> Nat]
    /\ clients \subseteq Conns
    /\ conn \in [Conns -> ConnStates] /\ login \in [Conns -> LoginPcs]
    /\ reply \in [Conns -> [Contracts -> Nat]]

\* The quote HandleQuoteProc is busy with is the newest of its contract.
QuoteIsLast ==
    IF thread.handler \in {"copy", "send"}
    THEN quote \in Quotes /\ quote # 0 /\ last[Tape[quote].contract] = quote
    ELSE quote = 0

\* A login begins on an open connection.
NoLoginYet == \A c \in Conns : conn[c] = "none" => login[c] = "none"

\* From the first step of the login on the broadcast reaches the connection, ...
InSet ==
    \A c \in Conns :
        conn[c] = "open" /\ login[c] \in {"snapshot", "reply", "done"} => c \in clients

\* ... so what the snapshot lacks has been sent, or is about to be.
SnapshotOrSent ==
    \A c \in Conns, k \in Contracts :
        conn[c] = "open" /\ login[c] = "reply" /\ last[k] # 0 /\ ~Underway(c, k) =>
            reply[c][k] = last[k] \/ <<c, k>> \in fresh

LoginInv == NoLoginYet /\ InSet /\ SnapshotOrSent /\ NoQuoteMissed

Rest == Types /\ QuoteIsLast /\ LoginInv

-----------------------------------------------------------------------------
(* The tape and the order of the steps of LGIN *)

LEMMA TapeIsSeq == Quotes = 1..Len(Tape) /\ Len(Tape) \in Nat
BY TapeAssumption, LenProperties DEF Quotes

LEMMA ContractOf == \A q \in Quotes : Tape[q].contract \in Contracts
BY DEF Contracts

LEMMA StepOrder ==
    /\ LoginSteps[1] = "insert"
    /\ NextStep("insert") = "snapshot"
    /\ NextStep("snapshot") = "reply"
    /\ NextStep("reply") = "done"
<1>1. DOMAIN LoginSteps = 1..4
  BY DEF LoginSteps
<1>2. /\ LoginSteps[1] = "insert" /\ LoginSteps[2] = "snapshot"
      /\ LoginSteps[3] = "reply" /\ LoginSteps[4] = "done"
  BY DEF LoginSteps
<1>3. (CHOOSE i \in DOMAIN LoginSteps : LoginSteps[i] = "insert") = 1
  BY <1>1, <1>2
<1>4. (CHOOSE i \in DOMAIN LoginSteps : LoginSteps[i] = "snapshot") = 2
  BY <1>1, <1>2
<1>5. (CHOOSE i \in DOMAIN LoginSteps : LoginSteps[i] = "reply") = 3
  BY <1>1, <1>2
<1>6. /\ NextStep("insert") = LoginSteps[1 + 1]
      /\ NextStep("snapshot") = LoginSteps[1 + 2]
      /\ NextStep("reply") = LoginSteps[1 + 3]
  BY <1>3, <1>4, <1>5, Zenon DEF NextStep
<1> QED BY <1>2, <1>6

LEMMA StepIs ==
    ASSUME NEW c \in Conns, Types, NEW step \in {"insert", "snapshot", "reply"}, Step(c, step)
    PROVE  /\ login[c] = step
           /\ login' = [login EXCEPT ![c] = NextStep(step)]
           /\ NextStep(step) \in LoginPcs
BY StepOrder DEF Step, LoginPcs

-----------------------------------------------------------------------------
(* The queues *)

LEMMA SomeHead ==
    ASSUME NEW s \in Seq(Quotes), s # <<>>
    PROVE  Head(s) \in Quotes /\ Tail(s) \in Seq(Quotes)
OBVIOUS

LEMMA QueuesInit == Init => QueueTypes
BY DEF Init, QueueTypes

LEMMA QueuesKeep == QueueTypes /\ [Next]_vars => QueueTypes'
<1> SUFFICES ASSUME QueueTypes, [Next]_vars PROVE QueueTypes'
  OBVIOUS
<1>1. ASSUME NEW f \in Feeds, Deliver(f) PROVE QueueTypes'
  <2>1. PICK q \in (delivered[f] + 1)..Len(Tape) :
            delivered' = [delivered EXCEPT ![f] = q] /\ raw' = Append(raw, q)
    BY <1>1 DEF Deliver
  <2>2. q \in Quotes /\ q \in Nat
    BY <2>1, TapeIsSeq DEF QueueTypes
  <2> QED BY <1>1, <2>1, <2>2 DEF Deliver, QueueTypes
<1>2. CASE Filter
  <2>1. Head(raw) \in Quotes /\ Tail(raw) \in Seq(Quotes)
    BY <1>2, SomeHead DEF Filter, QueueTypes
  <2>2. UNCHANGED delivered /\ raw' = Tail(raw)
    BY <1>2 DEF Filter
  <2>3. handled' = handled \/ handled' = Append(handled, Head(raw))
    BY <1>2 DEF Filter
  <2>4. Append(handled, Head(raw)) \in Seq(Quotes)
    BY <2>1, AppendProperties DEF QueueTypes
  <2>5. handled' \in Seq(Quotes)
    BY <2>3, <2>4 DEF QueueTypes
  <2> QED BY <2>1, <2>2, <2>5 DEF QueueTypes
<1>3. CASE HandleQuote
  <2>1. Tail(handled) \in Seq(Quotes)
    BY <1>3, SomeHead DEF HandleQuote, QueueTypes
  <2> QED BY <1>3, <2>1 DEF HandleQuote, QueueTypes
<1>4. CASE UNCHANGED queues
  BY <1>4 DEF queues, QueueTypes
<1>5. ASSUME NEW c \in Conns,
             Accept(c) \/ SubmitLogin(c) \/ Hangup(c) \/ OnClose(c) \/ PoolThread(c)
      PROVE  UNCHANGED queues
  BY <1>5 DEF Accept, SubmitLogin, Hangup, OnClose, PoolThread, InsertId, TakeSnapshot, SendReply,
     RefuseLogin
<1>6. FilterWaits \/ HandlerWaits \/ CopyFrontEnds \/ SendQuote \/ UNCHANGED vars =>
        UNCHANGED queues
  BY DEF FilterWaits, HandlerWaits, CopyFrontEnds, SendQuote, vars
<1> QED BY <1>1, <1>2, <1>3, <1>4, <1>5, <1>6 DEF Next, FilterThread, HandlerThread

-----------------------------------------------------------------------------
(* Steps that touch neither the broadcast nor a login *)

QueueStep == FilterWaits \/ Filter \/ HandlerWaits \/ \E f \in Feeds : Deliver(f)

\* They move the handler between waiting and ready at most.
LEMMA QueueFrame ==
    ASSUME Types, QueueStep \/ UNCHANGED vars
    PROVE  /\ UNCHANGED <<last, quote, targets, fresh, clients, conn, login, reply>>
           /\ thread' \in [filter : {"ready", "waiting"}, handler : HandlerPcs]
           /\ \/ thread'.handler = thread.handler
              \/ {thread.handler, thread'.handler} \subseteq {"ready", "waiting"}
<1>1. UNCHANGED <<last, quote, targets, fresh, clients, conn, login, reply>>
  BY DEF QueueStep, FilterWaits, Filter, HandlerWaits, Deliver, vars, broadcast, sent, logins
<1>2. \/ UNCHANGED thread
      \/ \E t \in {"filter", "handler"} :
            /\ thread[t] \in {"ready", "waiting"}
            /\ \E pc \in {"ready", "waiting"} : thread' = [thread EXCEPT ![t] = pc]
  <2>1. CASE FilterWaits
    BY <2>1 DEF FilterWaits, Waits
  <2>2. CASE HandlerWaits
    BY <2>2 DEF HandlerWaits, Waits
  <2>3. CASE Filter
    BY <2>3 DEF Filter, Notified
  <2>4. ASSUME NEW f \in Feeds, Deliver(f)
        PROVE  \E pc \in {"ready", "waiting"} : thread' = [thread EXCEPT !["filter"] = pc]
    BY <2>4 DEF Deliver, Notified, Types
  <2>5. thread["filter"] \in {"ready", "waiting"}
    BY DEF Types
  <2> QED BY <2>1, <2>2, <2>3, <2>4, <2>5 DEF QueueStep, vars
<1> QED BY <1>1, <1>2 DEF Types, HandlerPcs
-----------------------------------------------------------------------------
(* The broadcast *)

\* Without a quote in hand nothing is on its way.
LEMMA NotUnderway ==
    ASSUME QuoteIsLast, thread.handler \notin {"copy", "send"}, NEW c \in Conns, NEW k \in Contracts
    PROVE  ~Underway(c, k)
BY DEF QuoteIsLast, Underway

LEMMA RestInit == Init => Rest
<1> SUFFICES ASSUME Init PROVE Rest
  OBVIOUS
<1>1. Types
  BY DEF Init, Types, None, HandlerPcs, ConnStates, LoginPcs
<1>2. QuoteIsLast /\ NoLoginYet /\ InSet
  BY DEF Init, QuoteIsLast, NoLoginYet, InSet
<1>3. SnapshotOrSent /\ NoQuoteMissed
  BY DEF Init, None, SnapshotOrSent, NoQuoteMissed
<1> QED BY <1>1, <1>2, <1>3 DEF Rest, LoginInv

LEMMA KeepInQueueStep == Rest /\ (QueueStep \/ UNCHANGED vars) => Rest'
<1> SUFFICES ASSUME Rest, QueueStep \/ UNCHANGED vars PROVE Rest'
  OBVIOUS
<1>1. /\ UNCHANGED <<last, quote, targets, fresh, clients, conn, login, reply>>
      /\ thread' \in [filter : {"ready", "waiting"}, handler : HandlerPcs]
      /\ \/ thread'.handler = thread.handler
         \/ {thread.handler, thread'.handler} \subseteq {"ready", "waiting"}
  BY QueueFrame DEF Rest
<1>2. Types'
  BY <1>1 DEF Rest, Types
<1>3. QuoteIsLast'
  BY <1>1 DEF Rest, QuoteIsLast
<1>4. \A c \in Conns, k \in Contracts : Underway(c, k)' <=> Underway(c, k)
  BY <1>1 DEF Underway
<1>5. LoginInv'
  BY <1>1, <1>4 DEF Rest, LoginInv, NoLoginYet, InSet, SnapshotOrSent, NoQuoteMissed, LoggedIn
<1> QED BY <1>2, <1>3, <1>5 DEF Rest

LEMMA KeepInHandleQuote == QueueTypes /\ Rest /\ HandleQuote => Rest'
<1> SUFFICES ASSUME QueueTypes, Rest, HandleQuote PROVE Rest'
  OBVIOUS
<1> DEFINE q == Head(handled)
<1>1. q \in Quotes /\ q # 0 /\ q \in Nat /\ Tape[q].contract \in Contracts
  BY SomeHead, TapeIsSeq, ContractOf DEF HandleQuote, QueueTypes
<1>2. /\ thread.handler = "ready"
      /\ thread' = [thread EXCEPT !.handler = AfterHandleQuote(q)]
      /\ quote' = IF AfterHandleQuote(q) = "copy" THEN q ELSE 0
      /\ IF Refused(q)
         THEN UNCHANGED <<last, fresh>>
         ELSE /\ last' = [last EXCEPT ![Tape[q].contract] = q]
              /\ fresh' = {f \in fresh : f[2] # Tape[q].contract}
  BY DEF HandleQuote
<1>3. UNCHANGED <<targets, clients, conn, login, reply>>
  BY DEF HandleQuote, logins
<1> HIDE DEF q
<1>4. NoLoginYet' /\ InSet'
  BY <1>3 DEF Rest, LoginInv, NoLoginYet, InSet
<1>5. \A c \in Conns, k \in Contracts : ~Underway(c, k)
  BY <1>2, NotUnderway DEF Rest
<1>6. CASE Refused(q)
  <2>1. /\ thread' = [thread EXCEPT !.handler = "ready"] /\ quote' = 0
        /\ UNCHANGED <<last, fresh>>
    BY <1>2, <1>6 DEF AfterHandleQuote
  <2>2. Types' /\ QuoteIsLast'
    BY <1>3, <2>1 DEF Rest, Types, HandlerPcs, QuoteIsLast
  <2>3. SnapshotOrSent' /\ NoQuoteMissed'
    BY <1>3, <1>5, <2>1 DEF Rest, LoginInv, SnapshotOrSent, NoQuoteMissed, LoggedIn
  <2> QED BY <1>4, <2>2, <2>3 DEF Rest, LoginInv
<1>7. CASE ~Refused(q)
  <2>1. /\ thread' = [thread EXCEPT !.handler = "copy"] /\ quote' = q
        /\ last' = [last EXCEPT ![Tape[q].contract] = q]
        /\ fresh' = {f \in fresh : f[2] # Tape[q].contract}
    BY <1>2, <1>7 DEF AfterHandleQuote
  <2>2. Types'
    BY <1>1, <1>3, <2>1 DEF Rest, Types, HandlerPcs
  <2>3. thread'.handler = "copy" /\ last'[Tape[q].contract] = q
    BY <1>1, <2>1 DEF Rest, Types
  <2>4. QuoteIsLast'
    BY <1>1, <2>1, <2>3 DEF QuoteIsLast
  <2>5. ASSUME NEW c \in Conns, NEW k \in Contracts, ~Underway(c, k)'
        PROVE  last'[k] = last[k] /\ (<<c, k>> \in fresh => <<c, k>> \in fresh')
    <3>1. k # Tape[q].contract
      BY <1>1, <2>1, <2>3, <2>5 DEF Underway
    <3> QED BY <3>1, <1>1, <2>1 DEF Rest, Types
  <2>6. SnapshotOrSent' /\ NoQuoteMissed'
    BY <1>3, <1>5, <2>5 DEF Rest, LoginInv, SnapshotOrSent, NoQuoteMissed, LoggedIn
  <2> QED BY <1>4, <2>2, <2>4, <2>6 DEF Rest, LoginInv
<1> QED BY <1>6, <1>7

LEMMA KeepInCopyFrontEnds == Rest /\ CopyFrontEnds => Rest'
<1> SUFFICES ASSUME Rest, CopyFrontEnds PROVE Rest'
  OBVIOUS
<1>1. /\ thread.handler = "copy" /\ thread' = [thread EXCEPT !.handler = "send"]
      /\ targets' = clients /\ UNCHANGED <<last, quote, fresh, clients, conn, login, reply>>
  BY DEF CopyFrontEnds, sent, logins
<1>2. Types' /\ thread'.handler = "send"
  BY <1>1 DEF Rest, Types, HandlerPcs
<1>3. QuoteIsLast'
  BY <1>1, <1>2 DEF Rest, QuoteIsLast
<1>4. NoLoginYet' /\ InSet'
  BY <1>1 DEF Rest, LoginInv, NoLoginYet, InSet
<1>5. \A c \in Conns, k \in Contracts : c \in clients => (Underway(c, k)' <=> Underway(c, k))
  BY <1>1, <1>2 DEF Underway
<1>6. SnapshotOrSent' /\ NoQuoteMissed'
  BY <1>1, <1>5 DEF Rest, LoginInv, InSet, SnapshotOrSent, NoQuoteMissed, LoggedIn
<1> QED BY <1>2, <1>3, <1>4, <1>6 DEF Rest, LoginInv

LEMMA KeepInSendQuote == Rest /\ SendQuote => Rest'
<1> SUFFICES ASSUME Rest, SendQuote PROVE Rest'
  OBVIOUS
<1>1. thread.handler = "send" /\ UNCHANGED <<last, clients, conn, login, reply>>
  BY DEF SendQuote, logins
<1>2. NoLoginYet' /\ InSet'
  BY <1>1 DEF Rest, LoginInv, NoLoginYet, InSet
<1>3. CASE targets = {}
  <2>1. /\ thread' = [thread EXCEPT !.handler = "ready"] /\ quote' = 0
        /\ UNCHANGED <<targets, fresh>>
    BY <1>3 DEF SendQuote, sent
  <2>2. Types' /\ thread'.handler = "ready"
    BY <1>1, <2>1 DEF Rest, Types, HandlerPcs
  <2>3. QuoteIsLast'
    BY <2>1, <2>2 DEF QuoteIsLast
  <2>4. \A c \in Conns, k \in Contracts : ~Underway(c, k)
    BY <1>1, <1>3 DEF Underway
  <2>5. SnapshotOrSent' /\ NoQuoteMissed'
    BY <1>1, <2>1, <2>4 DEF Rest, LoginInv, SnapshotOrSent, NoQuoteMissed, LoggedIn
  <2> QED BY <1>2, <2>2, <2>3, <2>5 DEF Rest, LoginInv
<1>4. CASE targets # {}
  <2>1. PICK c \in targets :
            /\ targets' = targets \ {c}
            /\ IF conn[c] = "open" THEN Send(c, Tape[quote].contract) ELSE UNCHANGED sent
            /\ UNCHANGED <<thread, quote>>
    BY <1>4 DEF SendQuote
  <2>2. Types' /\ QuoteIsLast'
    BY <1>1, <2>1 DEF Rest, Types, QuoteIsLast
  <2>3. fresh \subseteq fresh'
    BY <2>1 DEF Send, sent
  <2>4. conn[c] = "open" => <<c, Tape[quote].contract>> \in fresh'
    BY <1>1, <2>1 DEF Send, Rest, QuoteIsLast
  <2>5. ASSUME NEW d \in Conns, NEW k \in Contracts, ~Underway(d, k)', Underway(d, k)
        PROVE  d = c /\ k = Tape[quote].contract
    BY <1>1, <2>1, <2>5 DEF Underway
  <2>6. SnapshotOrSent' /\ NoQuoteMissed'
    BY <1>1, <2>3, <2>4, <2>5 DEF Rest, LoginInv, SnapshotOrSent, NoQuoteMissed, LoggedIn
  <2> QED BY <1>2, <2>2, <2>6 DEF Rest, LoginInv
<1> QED BY <1>3, <1>4
-----------------------------------------------------------------------------
(* The steps of a login and of its connection *)

Aside == <<queues, thread, broadcast, sent>>

LEMMA UnderwayAside ==
    ASSUME UNCHANGED Aside
    PROVE  /\ UNCHANGED <<thread, last, quote, targets, fresh>>
           /\ \A c \in Conns, k \in Contracts : Underway(c, k)' <=> Underway(c, k)
BY DEF Aside, broadcast, sent, Underway

LEMMA KeepInAccept == Rest /\ (\E c \in Conns : Accept(c)) => Rest'
<1> SUFFICES ASSUME Rest, NEW c \in Conns, Accept(c) PROVE Rest'
  OBVIOUS
<1>1. /\ conn[c] = "none" /\ conn' = [conn EXCEPT ![c] = "open"]
      /\ UNCHANGED Aside /\ UNCHANGED <<clients, login, reply>>
  BY DEF Accept, Aside
<1>2. login[c] = "none"
  BY <1>1 DEF Rest, LoginInv, NoLoginYet
<1>3. Types' /\ QuoteIsLast'
  BY <1>1, UnderwayAside DEF Rest, Types, ConnStates, QuoteIsLast
<1>4. NoLoginYet' /\ InSet'
  BY <1>1, <1>2 DEF Rest, Types, LoginInv, NoLoginYet, InSet
<1>5. SnapshotOrSent' /\ NoQuoteMissed'
  BY <1>1, <1>2, UnderwayAside DEF Rest, Types, LoginInv, SnapshotOrSent, NoQuoteMissed, LoggedIn
<1> QED BY <1>3, <1>4, <1>5 DEF Rest, LoginInv

LEMMA KeepInSubmitLogin == Rest /\ (\E c \in Conns : SubmitLogin(c)) => Rest'
<1> SUFFICES ASSUME Rest, NEW c \in Conns, SubmitLogin(c) PROVE Rest'
  OBVIOUS
<1>1. PICK step \in {"insert", "refuse"} : login' = [login EXCEPT ![c] = step]
  BY StepOrder DEF SubmitLogin
<1>2. /\ conn[c] = "open"
      /\ UNCHANGED Aside /\ UNCHANGED <<clients, conn, reply>>
  BY DEF SubmitLogin, Aside
<1>3. Types' /\ QuoteIsLast'
  BY <1>1, <1>2, UnderwayAside DEF Rest, Types, LoginPcs, QuoteIsLast
<1>4. NoLoginYet' /\ InSet'
  BY <1>1, <1>2 DEF Rest, Types, LoginInv, NoLoginYet, InSet
<1>5. SnapshotOrSent' /\ NoQuoteMissed'
  BY <1>1, <1>2, UnderwayAside DEF Rest, Types, LoginInv, SnapshotOrSent, NoQuoteMissed, LoggedIn
<1> QED BY <1>3, <1>4, <1>5 DEF Rest, LoginInv

LEMMA KeepInInsertId == Rest /\ (\E c \in Conns : InsertId(c)) => Rest'
<1> SUFFICES ASSUME Rest, NEW c \in Conns, InsertId(c) PROVE Rest'
  OBVIOUS
<1>1. login[c] = "insert" /\ login' = [login EXCEPT ![c] = "snapshot"]
  BY StepIs, StepOrder DEF InsertId, Rest
<1>2. /\ clients' = clients \cup {c}
      /\ UNCHANGED Aside /\ UNCHANGED <<conn, reply>>
  BY DEF InsertId, Aside
<1>3. Types' /\ QuoteIsLast'
  BY <1>1, <1>2, UnderwayAside DEF Rest, Types, LoginPcs, QuoteIsLast
<1>4. NoLoginYet' /\ InSet'
  BY <1>1, <1>2 DEF Rest, Types, LoginInv, NoLoginYet, InSet
<1>5. SnapshotOrSent' /\ NoQuoteMissed'
  BY <1>1, <1>2, UnderwayAside DEF Rest, Types, LoginInv, SnapshotOrSent, NoQuoteMissed, LoggedIn
<1> QED BY <1>3, <1>4, <1>5 DEF Rest, LoginInv

LEMMA KeepInTakeSnapshot == Rest /\ (\E c \in Conns : TakeSnapshot(c)) => Rest'
<1> SUFFICES ASSUME Rest, NEW c \in Conns, TakeSnapshot(c) PROVE Rest'
  OBVIOUS
<1>1. login[c] = "snapshot" /\ login' = [login EXCEPT ![c] = "reply"]
  BY StepIs, StepOrder DEF TakeSnapshot, Rest
<1>2. /\ reply' = [reply EXCEPT ![c] = last]
      /\ UNCHANGED Aside /\ UNCHANGED <<clients, conn>>
  BY DEF TakeSnapshot, Aside
<1>3. Types' /\ QuoteIsLast'
  BY <1>1, <1>2, UnderwayAside DEF Rest, Types, LoginPcs, QuoteIsLast
<1>4. NoLoginYet' /\ InSet'
  BY <1>1, <1>2 DEF Rest, Types, LoginInv, NoLoginYet, InSet
<1>5. SnapshotOrSent' /\ NoQuoteMissed'
  BY <1>1, <1>2, UnderwayAside DEF Rest, Types, LoginInv, SnapshotOrSent, NoQuoteMissed, LoggedIn
<1> QED BY <1>3, <1>4, <1>5 DEF Rest, LoginInv

LEMMA KeepInSendReply == Rest /\ (\E c \in Conns : SendReply(c)) => Rest'
<1> SUFFICES ASSUME Rest, NEW c \in Conns, SendReply(c) PROVE Rest'
  OBVIOUS
<1>1. login[c] = "reply" /\ login' = [login EXCEPT ![c] = "done"]
  BY StepIs, StepOrder DEF SendReply, Rest
<1>2. /\ reply' = [reply EXCEPT ![c] = None]
      /\ UNCHANGED <<thread, last, quote, targets, clients, conn>>
  BY DEF SendReply, broadcast
<1>3. fresh \subseteq fresh'
  BY DEF SendReply
<1>4. ASSUME conn[c] = "open", NEW k \in Contracts, reply[c][k] = last[k]
      PROVE  <<c, k>> \in fresh'
  BY <1>4 DEF SendReply
<1>5. Types' /\ QuoteIsLast'
  BY <1>1, <1>2 DEF Rest, Types, LoginPcs, None, QuoteIsLast
<1>6. NoLoginYet' /\ InSet'
  BY <1>1, <1>2 DEF Rest, Types, LoginInv, NoLoginYet, InSet
<1>7. \A d \in Conns, k \in Contracts : Underway(d, k)' <=> Underway(d, k)
  BY <1>2 DEF Underway
<1>8. SnapshotOrSent'
  BY <1>1, <1>2, <1>3, <1>7 DEF Rest, Types, LoginInv, SnapshotOrSent
<1>9. NoQuoteMissed'
  BY <1>1, <1>2, <1>3, <1>4, <1>7 DEF Rest, Types, LoginInv, SnapshotOrSent, NoQuoteMissed, LoggedIn
<1> QED BY <1>5, <1>6, <1>8, <1>9 DEF Rest, LoginInv

LEMMA KeepInRefuseLogin == Rest /\ (\E c \in Conns : RefuseLogin(c)) => Rest'
<1> SUFFICES ASSUME Rest, NEW c \in Conns, RefuseLogin(c) PROVE Rest'
  OBVIOUS
<1>1. /\ login[c] = "refuse" /\ login' = [login EXCEPT ![c] = "refused"]
      /\ conn' = [conn EXCEPT ![c] = IF @ = "open" THEN "closing" ELSE @]
      /\ UNCHANGED Aside /\ UNCHANGED <<clients, reply>>
  BY DEF RefuseLogin, Aside
<1>2. Types' /\ QuoteIsLast'
  BY <1>1, UnderwayAside DEF Rest, Types, LoginPcs, ConnStates, QuoteIsLast
<1>3. NoLoginYet' /\ InSet'
  BY <1>1 DEF Rest, Types, LoginInv, NoLoginYet, InSet
<1>4. SnapshotOrSent' /\ NoQuoteMissed'
  BY <1>1, UnderwayAside DEF Rest, Types, LoginInv, SnapshotOrSent, NoQuoteMissed, LoggedIn
<1> QED BY <1>2, <1>3, <1>4 DEF Rest, LoginInv

\* Hangup and OnClose
LEMMA KeepInClose == Rest /\ (\E c \in Conns : Hangup(c) \/ OnClose(c)) => Rest'
<1> SUFFICES ASSUME Rest, NEW c \in Conns, Hangup(c) \/ OnClose(c) PROVE Rest'
  OBVIOUS
<1>1. /\ conn[c] # "none"
      /\ \/ conn' = [conn EXCEPT ![c] = "closing"] /\ clients' = clients
         \/ conn' = [conn EXCEPT ![c] = "closed"] /\ clients' = clients \ {c}
      /\ UNCHANGED Aside /\ UNCHANGED <<login, reply>>
  BY DEF Hangup, OnClose, WithoutId, Aside
<1>2. Types' /\ QuoteIsLast'
  BY <1>1, UnderwayAside DEF Rest, Types, ConnStates, QuoteIsLast
<1>3. NoLoginYet' /\ InSet'
  BY <1>1 DEF Rest, Types, LoginInv, NoLoginYet, InSet
<1>4. SnapshotOrSent' /\ NoQuoteMissed'
  BY <1>1, UnderwayAside DEF Rest, Types, LoginInv, SnapshotOrSent, NoQuoteMissed, LoggedIn
<1> QED BY <1>2, <1>3, <1>4 DEF Rest, LoginInv

-----------------------------------------------------------------------------
(* What the front-ends were sent last *)

\* A contract of which quotes were sent has a last quote, which no snapshot lacks ...
SentHasLast ==
    \A c \in Conns, k \in Contracts :
        shown[c][k] # 0 \/ reply[c][k] # 0 => last[k] # 0

\* ... unless it changed since, and then the broadcast overtakes the reply.
ReplyOrOvertaken ==
    \A c \in Conns, k \in Contracts :
        conn[c] = "open" /\ login[c] = "reply" /\ ~Underway(c, k) =>
            reply[c][k] = last[k] \/ <<c, k>> \in overtaken

ShownType == shown \in [Conns -> [Contracts -> Nat]]

ShownInv == ShownType /\ SentHasLast /\ ReplyOrOvertaken /\ StaleOnlyIfOvertaken

LEMMA ShownInit == Init => ShownInv
BY DEF Init, None, ShownInv, ShownType, SentHasLast, ReplyOrOvertaken, StaleOnlyIfOvertaken

LEMMA ShownInQueueStep == Rest /\ ShownInv /\ (QueueStep \/ UNCHANGED vars) => ShownInv'
<1> SUFFICES ASSUME Rest, ShownInv, QueueStep \/ UNCHANGED vars PROVE ShownInv'
  OBVIOUS
<1>1. /\ UNCHANGED <<last, quote, targets, conn, login, reply>>
      /\ \/ thread'.handler = thread.handler
         \/ {thread.handler, thread'.handler} \subseteq {"ready", "waiting"}
  BY QueueFrame DEF Rest
<1>2. UNCHANGED <<shown, overtaken>>
  BY DEF QueueStep, FilterWaits, Filter, HandlerWaits, Deliver, vars, sent
<1>3. \A c \in Conns, k \in Contracts : Underway(c, k)' <=> Underway(c, k)
  BY <1>1 DEF Underway
<1> QED BY <1>1, <1>2, <1>3
    DEF ShownInv, ShownType, SentHasLast, ReplyOrOvertaken, StaleOnlyIfOvertaken, LoggedIn

LEMMA ShownInHandleQuote == QueueTypes /\ Rest /\ ShownInv /\ HandleQuote => ShownInv'
<1> SUFFICES ASSUME QueueTypes, Rest, ShownInv, HandleQuote PROVE ShownInv'
  OBVIOUS
<1> DEFINE q == Head(handled)
<1>1. q # 0 /\ q \in Nat /\ Tape[q].contract \in Contracts
  BY SomeHead, TapeIsSeq, ContractOf DEF HandleQuote, QueueTypes
<1>2. /\ thread.handler = "ready"
      /\ \/ UNCHANGED last
         \/ /\ thread' = [thread EXCEPT !.handler = "copy"] /\ quote' = q
            /\ last' = [last EXCEPT ![Tape[q].contract] = q]
  BY DEF HandleQuote, AfterHandleQuote
<1>3. UNCHANGED <<shown, overtaken, conn, login, reply>>
  BY DEF HandleQuote, logins
<1> HIDE DEF q
<1>4. \A c \in Conns, k \in Contracts : ~Underway(c, k)
  BY <1>2, NotUnderway DEF Rest
<1>5. \A c \in Conns, k \in Contracts : last[k] # 0 => last'[k] # 0
  BY <1>1, <1>2 DEF Rest, Types
<1>6. ASSUME NEW c \in Conns, NEW k \in Contracts, ~Underway(c, k)'
      PROVE  last'[k] = last[k]
  <2>1. CASE UNCHANGED last
    BY <2>1
  <2>2. CASE /\ thread' = [thread EXCEPT !.handler = "copy"] /\ quote' = q
             /\ last' = [last EXCEPT ![Tape[q].contract] = q]
    <3>1. thread'.handler = "copy"
      BY <2>2 DEF Rest, Types
    <3>2. k # Tape[q].contract
      BY <1>1, <1>6, <2>2, <3>1 DEF Underway
    <3> QED BY <2>2, <3>2 DEF Rest, Types
  <2> QED BY <1>2, <2>1, <2>2
<1> QED BY <1>3, <1>4, <1>5, <1>6
    DEF ShownInv, ShownType, SentHasLast, ReplyOrOvertaken, StaleOnlyIfOvertaken, LoggedIn

LEMMA ShownInCopyFrontEnds == Rest /\ ShownInv /\ CopyFrontEnds => ShownInv'
<1> SUFFICES ASSUME Rest, ShownInv, CopyFrontEnds PROVE ShownInv'
  OBVIOUS
<1>1. /\ thread.handler = "copy" /\ thread' = [thread EXCEPT !.handler = "send"]
      /\ targets' = clients /\ UNCHANGED <<last, quote, shown, overtaken, conn, login, reply>>
  BY DEF CopyFrontEnds, sent, logins
<1>2. thread'.handler = "send"
  BY <1>1 DEF Rest, Types
<1>3. \A c \in Conns, k \in Contracts : c \in clients => (Underway(c, k)' <=> Underway(c, k))
  BY <1>1, <1>2 DEF Underway
<1> QED BY <1>1, <1>3
    DEF Rest, LoginInv, InSet, ShownInv, ShownType, SentHasLast, ReplyOrOvertaken,
        StaleOnlyIfOvertaken, LoggedIn

LEMMA ShownInSendQuote == Rest /\ ShownInv /\ SendQuote => ShownInv'
<1> SUFFICES ASSUME Rest, ShownInv, SendQuote PROVE ShownInv'
  OBVIOUS
<1>1. thread.handler = "send" /\ UNCHANGED <<last, conn, login, reply>>
  BY DEF SendQuote, logins
<1>2. CASE targets = {}
  <2>1. UNCHANGED <<shown, overtaken>>
    BY <1>2 DEF SendQuote, sent
  <2>2. \A c \in Conns, k \in Contracts : ~Underway(c, k)
    BY <1>1, <1>2 DEF Underway
  <2> QED BY <1>1, <2>1, <2>2
      DEF ShownInv, ShownType, SentHasLast, ReplyOrOvertaken, StaleOnlyIfOvertaken, LoggedIn
<1>3. CASE targets # {}
  <2> DEFINE k0 == Tape[quote].contract
  <2>1. PICK c \in targets :
            /\ targets' = targets \ {c}
            /\ IF conn[c] = "open" THEN Send(c, k0) ELSE UNCHANGED sent
            /\ UNCHANGED <<thread, quote>>
    BY <1>3 DEF SendQuote
  <2>2. quote # 0 /\ last[k0] = quote
    BY <1>1 DEF Rest, QuoteIsLast
  <2>3. /\ overtaken \ {<<c, k0>>} \subseteq overtaken'
        /\ conn[c] = "open" /\ login[c] = "reply" => <<c, k0>> \in overtaken'
    BY <2>1 DEF Send, sent
  <2>4. UNCHANGED shown \/ (shown' = [shown EXCEPT ![c][k0] = quote])
    BY <2>1 DEF Send, sent
  <2>5. conn[c] = "open" => shown' = [shown EXCEPT ![c][k0] = quote]
    BY <2>1 DEF Send
  <2> HIDE DEF k0
  <2>6. ASSUME NEW d \in Conns, NEW k \in Contracts
        PROVE  \/ shown'[d][k] = shown[d][k] /\ (conn[d] = "open" => <<d, k>> # <<c, k0>>)
               \/ shown'[d][k] = last[k] /\ d = c /\ k = k0
    BY <2>2, <2>4, <2>5 DEF ShownInv, ShownType
  <2>7. ASSUME NEW d \in Conns, NEW k \in Contracts, ~Underway(d, k)', Underway(d, k)
        PROVE  d = c /\ k = k0
    BY <1>1, <2>1, <2>7 DEF Underway, k0
  <2>8. ShownType'
    <3>1. k0 \in Contracts /\ quote \in Nat
      BY <1>1, TapeIsSeq, ContractOf DEF Rest, QuoteIsLast, k0
    <3> QED BY <2>4, <3>1 DEF ShownInv, ShownType
  <2>9. SentHasLast'
    BY <1>1, <2>2, <2>6 DEF ShownInv, SentHasLast
  <2>10. ReplyOrOvertaken'
    BY <1>1, <2>3, <2>7 DEF ShownInv, ReplyOrOvertaken
  <2>11. StaleOnlyIfOvertaken'
    BY <1>1, <2>3, <2>6, <2>7 DEF ShownInv, StaleOnlyIfOvertaken, LoggedIn
  <2> QED BY <2>8, <2>9, <2>10, <2>11 DEF ShownInv
<1> QED BY <1>2, <1>3

\* Steps of a connection that bring no login to its reply or to its end
LEMMA ShownAside ==
    ASSUME Rest, ShownInv, UNCHANGED Aside, UNCHANGED reply,
           \A d \in Conns : conn'[d] = "open" /\ login'[d] \in {"reply", "done"} =>
                conn[d] = "open" /\ login'[d] = login[d]
    PROVE  ShownInv'
<1>1. UNCHANGED <<last, shown, overtaken>>
  BY DEF Aside, broadcast, sent
<1> QED BY <1>1, UnderwayAside
    DEF ShownInv, ShownType, SentHasLast, ReplyOrOvertaken, StaleOnlyIfOvertaken, LoggedIn

LEMMA ShownInLoginSteps ==
    ASSUME Rest, ShownInv, NEW c \in Conns,
           Accept(c) \/ SubmitLogin(c) \/ InsertId(c) \/ RefuseLogin(c) \/ Hangup(c) \/ OnClose(c)
    PROVE  ShownInv'
<1>1. UNCHANGED Aside /\ UNCHANGED reply
  BY DEF Accept, SubmitLogin, InsertId, RefuseLogin, Hangup, OnClose, Aside
<1>2. CASE Accept(c)
  <2>1. login[c] = "none"
    BY <1>2 DEF Accept, Rest, LoginInv, NoLoginYet
  <2> QED BY <1>1, <1>2, <2>1, ShownAside DEF Accept, Rest, Types
<1>3. CASE SubmitLogin(c)
  BY <1>1, <1>3, ShownAside, StepOrder DEF SubmitLogin, Rest, Types
<1>4. CASE InsertId(c)
  <2>1. login' = [login EXCEPT ![c] = "snapshot"] /\ UNCHANGED conn
    BY <1>4, StepIs, StepOrder DEF InsertId, Rest
  <2> QED BY <1>1, <2>1, ShownAside DEF Rest, Types
<1>5. CASE RefuseLogin(c)
  BY <1>1, <1>5, ShownAside DEF RefuseLogin, Rest, Types
<1>6. CASE Hangup(c) \/ OnClose(c)
  BY <1>1, <1>6, ShownAside DEF Hangup, OnClose, Rest, Types
<1> QED BY <1>2, <1>3, <1>4, <1>5, <1>6

LEMMA ShownInTakeSnapshot == Rest /\ ShownInv /\ (\E c \in Conns : TakeSnapshot(c)) => ShownInv'
<1> SUFFICES ASSUME Rest, ShownInv, NEW c \in Conns, TakeSnapshot(c) PROVE ShownInv'
  OBVIOUS
<1>1. login' = [login EXCEPT ![c] = "reply"]
  BY StepIs, StepOrder DEF TakeSnapshot, Rest
<1>2. reply' = [reply EXCEPT ![c] = last] /\ UNCHANGED Aside /\ UNCHANGED conn
  BY DEF TakeSnapshot, Aside
<1>3. UNCHANGED <<last, shown, overtaken>>
  BY <1>2 DEF Aside, broadcast, sent
<1>4. ShownType' /\ SentHasLast' /\ ReplyOrOvertaken'
  BY <1>1, <1>2, <1>3, UnderwayAside
     DEF Rest, Types, ShownInv, ShownType, SentHasLast, ReplyOrOvertaken
<1>5. StaleOnlyIfOvertaken'
  BY <1>1, <1>2, <1>3, UnderwayAside DEF Rest, Types, ShownInv, StaleOnlyIfOvertaken, LoggedIn
<1> QED BY <1>4, <1>5 DEF ShownInv

LEMMA ShownInSendReply == Rest /\ ShownInv /\ (\E c \in Conns : SendReply(c)) => ShownInv'
<1> SUFFICES ASSUME Rest, ShownInv, NEW c \in Conns, SendReply(c) PROVE ShownInv'
  OBVIOUS
<1>1. login[c] = "reply" /\ login' = [login EXCEPT ![c] = "done"]
  BY StepIs, StepOrder DEF SendReply, Rest
<1>2. /\ reply' = [reply EXCEPT ![c] = None]
      /\ UNCHANGED <<thread, last, quote, targets, overtaken, conn>>
  BY DEF SendReply, broadcast
<1>3. \A d \in Conns, k \in Contracts : Underway(d, k)' <=> Underway(d, k)
  BY <1>2 DEF Underway
<1>4. ASSUME NEW d \in Conns, NEW k \in Contracts
      PROVE  shown'[d][k] = IF d = c /\ conn[c] = "open" /\ reply[c][k] # 0
                            THEN reply[c][k] ELSE shown[d][k]
  BY DEF SendReply, Rest, Types, ShownInv, ShownType
<1>5. \A d \in Conns, k \in Contracts : reply'[d][k] # 0 => reply'[d][k] = reply[d][k]
  BY <1>2 DEF None, Rest, Types
<1>6. SentHasLast'
  BY <1>2, <1>4, <1>5 DEF ShownInv, SentHasLast
<1>7. ReplyOrOvertaken'
  BY <1>1, <1>2, <1>3 DEF Rest, Types, ShownInv, ReplyOrOvertaken
<1>8. StaleOnlyIfOvertaken'
  BY <1>1, <1>2, <1>3, <1>4
     DEF Rest, Types, ShownInv, SentHasLast, ReplyOrOvertaken, StaleOnlyIfOvertaken, LoggedIn
<1>9. ShownType'
  <2>1. [k \in Contracts |-> IF reply[c][k] # 0 THEN reply[c][k] ELSE shown[c][k]]
            \in [Contracts -> Nat]
    BY DEF Rest, Types, ShownInv, ShownType
  <2>2. \/ UNCHANGED shown
        \/ shown' = [shown EXCEPT ![c] =
               [k \in Contracts |-> IF reply[c][k] # 0 THEN reply[c][k] ELSE shown[c][k]]]
    BY DEF SendReply
  <2> HIDE DEF SendReply
  <2> QED BY <2>1, <2>2 DEF ShownInv, ShownType
<1> QED BY <1>6, <1>7, <1>8, <1>9 DEF ShownInv

-----------------------------------------------------------------------------
(* The window of IsNewTick *)

\* The quote that passed n quotes ago is the n-th from the end of the list.
WindowInv ==
    /\ unique \in Seq(Quotes) /\ Len(unique) < Window
    /\ since \in [Quotes -> Nat]
    /\ \A q \in Quotes : since[q] < Window - 1 =>
          since[q] < Len(unique) /\ unique[Len(unique) - since[q]] = q

LEMMA WindowInit == Init => WindowInv
BY WindowAssumption DEF Init, WindowInv

LEMMA WindowAfterAppend ==
    ASSUME WindowInv, NEW q \in Quotes
    PROVE  /\ Append(unique, q) \in Seq(Quotes)
           /\ Len(Append(unique, q)) = Len(unique) + 1
           /\ Len(unique) \in Nat
           /\ \A i \in 1..Len(unique) : Append(unique, q)[i] = unique[i]
           /\ Append(unique, q)[Len(unique) + 1] = q
BY AppendProperties, LenProperties DEF WindowInv

LEMMA WindowInFilter ==
    ASSUME WindowInv, NEW q \in Quotes,
           unique' = Evict(Append(unique, q)),
           since' = [p \in Quotes |-> IF p = q THEN 0 ELSE Least(since[p] + 1, Window)]
    PROVE  WindowInv'
<1> DEFINE n == Len(unique)
           longer == Append(unique, q)
<1>1. /\ longer \in Seq(Quotes) /\ Len(longer) = n + 1 /\ n \in Nat /\ n < Window
      /\ \A i \in 1..n : longer[i] = unique[i]
      /\ longer[n + 1] = q
  BY WindowAfterAppend DEF WindowInv
<1>2. Window \in Nat /\ Window > 0
  BY WindowAssumption
<1>3. since' \in [Quotes -> Nat]
  BY <1>2 DEF WindowInv, Least
<1>4. \A p \in Quotes : since'[p] < Window - 1 =>
          \/ p = q /\ since'[p] = 0
          \/ since'[p] = since[p] + 1 /\ since[p] < n /\ unique[n - since[p]] = p
  BY <1>2 DEF WindowInv, Least
<1>5. \A p \in Quotes : since'[p] < Window - 1 =>
          since'[p] < n + 1 /\ longer[(n + 1) - since'[p]] = p
  <2> TAKE p \in Quotes
  <2> HAVE since'[p] < Window - 1
  <2>1. CASE p = q /\ since'[p] = 0
    BY <1>1, <2>1
  <2>2. CASE since'[p] = since[p] + 1 /\ since[p] < n /\ unique[n - since[p]] = p
    <3>1. since[p] \in Nat
      BY DEF WindowInv
    <3>2. n - since[p] \in 1..n /\ (n + 1) - since'[p] = n - since[p]
      BY <1>1, <2>2, <3>1
    <3> QED BY <1>1, <2>2, <3>1, <3>2
  <2> QED BY <1>4, <2>1, <2>2
<1> HIDE DEF longer, n
<1>6. CASE n + 1 >= Window
  <2>1. n + 1 = Window /\ unique' = Tail(longer)
    BY <1>1, <1>2, <1>6 DEF Evict, longer
  <2>2. /\ Tail(longer) \in Seq(Quotes) /\ Len(Tail(longer)) = n
        /\ \A i \in 1..n : Tail(longer)[i] = longer[i + 1]
    BY <1>1
  <2>3. \A p \in Quotes : since'[p] < Window - 1 =>
            since'[p] < n /\ Tail(longer)[n - since'[p]] = p
    <3> TAKE p \in Quotes
    <3> HAVE since'[p] < Window - 1
    <3>1. since'[p] \in Nat /\ since'[p] < n /\ n - since'[p] \in 1..n
      BY <1>1, <1>3, <2>1
    <3>2. Tail(longer)[n - since'[p]] = longer[n - since'[p] + 1]
      BY <2>2, <3>1
    <3>3. n - since'[p] + 1 = (n + 1) - since'[p]
      BY <1>1, <3>1
    <3> QED BY <1>5, <3>1, <3>2, <3>3
  <2> QED BY <1>1, <1>3, <2>1, <2>2, <2>3 DEF WindowInv
<1>7. CASE n + 1 < Window
  <2>1. unique' = longer
    BY <1>1, <1>2, <1>7 DEF Evict, longer
  <2>2. unique' \in Seq(Quotes) /\ Len(unique') = n + 1
    BY <1>1, <2>1
  <2>3. \A p \in Quotes : since'[p] < Window - 1 =>
            since'[p] < Len(unique') /\ unique'[Len(unique') - since'[p]] = p
    <3> TAKE p \in Quotes
    <3> HAVE since'[p] < Window - 1
    <3>1. since'[p] < n + 1 /\ longer[(n + 1) - since'[p]] = p
      BY <1>5
    <3> QED BY <2>1, <2>2, <3>1
  <2> QED BY <1>3, <1>7, <2>2, <2>3 DEF WindowInv
<1> QED BY <1>1, <1>2, <1>6, <1>7

LEMMA WindowKeeps == QueueTypes /\ WindowInv /\ [Next]_vars => WindowInv'
<1> SUFFICES ASSUME QueueTypes, WindowInv, [Next]_vars PROVE WindowInv'
  OBVIOUS
<1>1. CASE Filter
  <2>1. Head(raw) \in Quotes
    BY <1>1, SomeHead DEF Filter, QueueTypes
  <2>2. CASE UNCHANGED <<unique, since>>
    BY <2>2 DEF WindowInv
  <2>3. CASE /\ unique' = Evict(Append(unique, Head(raw)))
             /\ since' = [p \in Quotes |-> IF p = Head(raw) THEN 0 ELSE Least(since[p] + 1, Window)]
    BY <2>1, <2>3, WindowInFilter
  <2> QED BY <1>1, <2>2, <2>3 DEF Filter
<1>2. CASE UNCHANGED <<unique, since>>
  BY <1>2 DEF WindowInv
<1>3. ASSUME Next, ~Filter PROVE UNCHANGED <<unique, since>>
  BY <1>3 DEF Next, FilterThread, HandlerThread, PoolThread, Deliver, FilterWaits, HandlerWaits,
     HandleQuote, CopyFrontEnds, SendQuote, Accept, SubmitLogin, InsertId, TakeSnapshot, SendReply,
     RefuseLogin, Hangup, OnClose, queues
<1> QED BY <1>1, <1>2, <1>3 DEF vars, queues

-----------------------------------------------------------------------------
(* The theorems *)

IInv == QueueTypes /\ Rest /\ ShownInv /\ WindowInv

LEMMA NextCases ==
    Next => \/ QueueStep \/ HandleQuote \/ CopyFrontEnds \/ SendQuote
            \/ \E c \in Conns :
                 \/ Accept(c) \/ SubmitLogin(c) \/ Hangup(c) \/ OnClose(c)
                 \/ InsertId(c) \/ TakeSnapshot(c) \/ SendReply(c) \/ RefuseLogin(c)
BY DEF Next, FilterThread, HandlerThread, PoolThread, QueueStep

LEMMA Inductive == Spec => []IInv
<1>1. Init => IInv
  BY QueuesInit, RestInit, ShownInit, WindowInit DEF IInv
<1>2. IInv /\ [Next]_vars => IInv'
  <2> SUFFICES ASSUME IInv, [Next]_vars PROVE Rest' /\ ShownInv'
    BY QueuesKeep, WindowKeeps DEF IInv
  <2>1. QueueTypes /\ Rest /\ ShownInv
    BY DEF IInv
  <2>2. CASE Next
    <3>1. Rest'
      BY <2>1, <2>2, NextCases, KeepInQueueStep, KeepInHandleQuote, KeepInCopyFrontEnds,
         KeepInSendQuote, KeepInAccept, KeepInSubmitLogin, KeepInInsertId, KeepInTakeSnapshot,
         KeepInSendReply, KeepInRefuseLogin, KeepInClose
    <3>2. ShownInv'
      BY <2>1, <2>2, NextCases, ShownInQueueStep, ShownInHandleQuote, ShownInCopyFrontEnds,
         ShownInSendQuote, ShownInLoginSteps, ShownInTakeSnapshot, ShownInSendReply
    <3> QED BY <3>1, <3>2
  <2>3. CASE UNCHANGED vars
    BY <2>1, <2>3, KeepInQueueStep, ShownInQueueStep
  <2> QED BY <2>2, <2>3
<1> QED BY <1>1, <1>2, PTL DEF Spec

\* A front-end whose login is through was sent the newest quote of every contract, or
\* HandleQuoteProc is about to send it: whatever broadcasts and closes fall between the
\* steps of LGIN, because the id enters the set before the snapshot is taken.
THEOREM LoginMissesNothing == Spec => []NoQuoteMissed
<1>1. IInv => NoQuoteMissed
  BY DEF IInv, Rest, LoginInv
<1> QED BY <1>1, Inductive, PTL

\* What it was sent last is the newest quote, unless a broadcast went out between its
\* snapshot and its reply, and then only until the next quote of that contract.
THEOREM StaleNeedsOvertaking == Spec => []StaleOnlyIfOvertaken
<1>1. IInv => StaleOnlyIfOvertaken
  BY DEF IInv, ShownInv
<1> QED BY <1>1, Inductive, PTL

\* IsNewTick recognises the last Window - 1 quotes that passed it, for every length of
\* the list and every way the feeds repeat each other.
THEOREM WindowRemembers == Spec => []RepeatNeedsWindow
<1>1. ASSUME WindowInv PROVE RepeatNeedsWindow
  <2>1. ASSUME NEW q \in Quotes, since[q] < Window - 1 PROVE ~IsNewTick(q)
    <3>1. /\ since[q] \in Nat /\ Len(unique) \in Nat /\ since[q] < Len(unique)
          /\ unique[Len(unique) - since[q]] = q /\ DOMAIN unique = 1..Len(unique)
      BY <1>1, <2>1, LenProperties DEF WindowInv
    <3>2. Len(unique) - since[q] \in DOMAIN unique
      BY <3>1
    <3> QED BY <3>1, <3>2 DEF IsNewTick, Range
  <2> QED BY <2>1 DEF RepeatNeedsWindow
<1>2. IInv => RepeatNeedsWindow
  BY <1>1 DEF IInv
<1> QED BY <1>2, Inductive, PTL

-----------------------------------------------------------------------------
(* Types *)

\* The bounds of TypeOK that the invariants above do not need.
QueueBounds ==
    /\ delivered \in [Feeds -> 0..Len(Tape)]
    /\ Len(raw) + Len(handled) <= MaxQueue
    /\ since \in [Quotes -> 0..Window]

SentBounds ==
    /\ last \in [Contracts -> 0..Len(Tape)] /\ quote \in 0..Len(Tape)
    /\ targets \subseteq Conns
    /\ reply \in [Conns -> [Contracts -> 0..Len(Tape)]]
    /\ shown \in [Conns -> [Contracts -> 0..Len(Tape)]]
    /\ fresh \subseteq Conns \X Contracts /\ overtaken \subseteq Conns \X Contracts

LEMMA BoundsInit == Init => QueueBounds /\ SentBounds
<1> SUFFICES ASSUME Init PROVE QueueBounds /\ SentBounds
  OBVIOUS
<1>1. None \in [Contracts -> 0..Len(Tape)] /\ Len(Tape) \in Nat /\ 0 \in 0..Len(Tape)
  BY TapeIsSeq DEF None
<1>2. Len(raw) = 0 /\ Len(handled) = 0
  BY DEF Init
<1>3. Len(raw) + Len(handled) <= MaxQueue /\ Window \in 0..Window
  BY <1>2, WindowAssumption
<1>4. QueueBounds
  BY <1>1, <1>3 DEF Init, QueueBounds
<1>5. SentBounds
  BY <1>1 DEF Init, SentBounds
<1> QED BY <1>4, <1>5

LEMMA QueueBoundsKeep == IInv /\ QueueBounds /\ [Next]_vars => QueueBounds'
<1> SUFFICES ASSUME IInv, QueueBounds, [Next]_vars PROVE QueueBounds'
  OBVIOUS
<1>0. /\ raw \in Seq(Quotes) /\ handled \in Seq(Quotes) /\ MaxQueue \in Nat
      /\ Len(raw) \in Nat /\ Len(handled) \in Nat
  BY LenProperties, WindowAssumption DEF IInv, QueueTypes
<1>1. ASSUME NEW f \in Feeds, Deliver(f) PROVE QueueBounds'
  <2>1. PICK q \in (delivered[f] + 1)..Len(Tape) :
            delivered' = [delivered EXCEPT ![f] = q] /\ raw' = Append(raw, q)
    BY <1>1 DEF Deliver
  <2>2. q \in 0..Len(Tape) /\ q \in Quotes
    BY <2>1, TapeIsSeq DEF QueueBounds
  <2>3. Len(raw') = Len(raw) + 1
    BY <1>0, <2>1, <2>2, AppendProperties
  <2>4. UNCHANGED <<handled, since>> /\ Len(raw) + Len(handled) < MaxQueue
    BY <1>1 DEF Deliver
  <2>5. Len(raw') + Len(handled') <= MaxQueue
    BY <1>0, <2>3, <2>4
  <2> QED BY <2>1, <2>2, <2>4, <2>5 DEF QueueBounds
<1>2. CASE Filter
  <2>1. raw # <<>> /\ raw' = Tail(raw) /\ UNCHANGED delivered
    BY <1>2 DEF Filter
  <2>2. Len(raw') = Len(raw) - 1 /\ Head(raw) \in Quotes
    BY <1>0, <2>1, HeadTailProperties
  <2>3. \/ UNCHANGED <<handled, since>>
        \/ /\ handled' = Append(handled, Head(raw))
           /\ since' = [p \in Quotes |-> IF p = Head(raw) THEN 0 ELSE Least(since[p] + 1, Window)]
    BY <1>2 DEF Filter
  <2>4. Len(handled') <= Len(handled) + 1 /\ Len(handled') \in Nat
    BY <1>0, <2>2, <2>3, AppendProperties
  <2>5. Len(raw') + Len(handled') <= MaxQueue
    BY <1>0, <2>2, <2>4 DEF QueueBounds
  <2>6. since' \in [Quotes -> 0..Window]
    BY <2>3, WindowAssumption DEF QueueBounds, Least
  <2> QED BY <2>1, <2>5, <2>6 DEF QueueBounds
<1>3. CASE HandleQuote
  <2>1. handled # <<>> /\ handled' = Tail(handled) /\ UNCHANGED <<delivered, raw, since>>
    BY <1>3 DEF HandleQuote
  <2>2. Len(handled') = Len(handled) - 1
    BY <1>0, <2>1, HeadTailProperties
  <2>3. Len(raw') + Len(handled') <= MaxQueue
    BY <1>0, <2>1, <2>2 DEF QueueBounds
  <2> QED BY <2>1, <2>3 DEF QueueBounds
<1>4. CASE UNCHANGED queues
  BY <1>4 DEF queues, QueueBounds
<1>5. ASSUME NEW c \in Conns,
             Accept(c) \/ SubmitLogin(c) \/ Hangup(c) \/ OnClose(c) \/ PoolThread(c)
      PROVE  UNCHANGED queues
  BY <1>5 DEF Accept, SubmitLogin, Hangup, OnClose, PoolThread, InsertId, TakeSnapshot, SendReply,
     RefuseLogin
<1>6. FilterWaits \/ HandlerWaits \/ CopyFrontEnds \/ SendQuote \/ UNCHANGED vars =>
        UNCHANGED queues
  BY DEF FilterWaits, HandlerWaits, CopyFrontEnds, SendQuote, vars
<1> QED BY <1>1, <1>2, <1>3, <1>4, <1>5, <1>6 DEF Next, FilterThread, HandlerThread

LEMMA SentBoundsKeep == IInv /\ SentBounds /\ [Next]_vars => SentBounds'
<1> SUFFICES ASSUME IInv, SentBounds, [Next]_vars PROVE SentBounds'
  OBVIOUS
<1>0. Quotes = 1..Len(Tape) /\ Len(Tape) \in Nat /\ Types /\ QuoteIsLast
  BY TapeIsSeq DEF IInv, Rest
<1>1. CASE QueueStep \/ UNCHANGED vars
  <2>1. UNCHANGED <<last, quote, targets, reply, shown, fresh, overtaken>>
    BY <1>1 DEF QueueStep, FilterWaits, Filter, HandlerWaits, Deliver, vars, broadcast, sent, logins
  <2> QED BY <2>1 DEF SentBounds
<1>2. CASE HandleQuote
  <2> DEFINE q == Head(handled)
  <2>1. q \in Quotes /\ Tape[q].contract \in Contracts /\ q \in 0..Len(Tape)
    <3>1. Head(handled) \in Quotes
      BY <1>2, SomeHead DEF HandleQuote, IInv, QueueTypes
    <3> QED BY <1>0, <3>1, ContractOf
  <2>2. /\ quote' = q \/ quote' = 0
        /\ last' = last \/ last' = [last EXCEPT ![Tape[q].contract] = q]
        /\ fresh' \subseteq fresh
        /\ UNCHANGED <<targets, shown, overtaken, reply>>
    BY <1>2 DEF HandleQuote, logins
  <2> HIDE DEF q
  <2>3. last' \in [Contracts -> 0..Len(Tape)]
    BY <2>1, <2>2 DEF SentBounds
  <2>4. quote' \in 0..Len(Tape)
    BY <1>0, <2>1, <2>2
  <2> QED BY <2>2, <2>3, <2>4 DEF SentBounds
<1>3. CASE CopyFrontEnds
  BY <1>0, <1>3 DEF CopyFrontEnds, SentBounds, Types, sent, logins
<1>4. CASE SendQuote
  <2>1. UNCHANGED <<last, reply>>
    BY <1>4 DEF SendQuote, logins
  <2>2. CASE targets = {}
    <3>1. quote' = 0 /\ UNCHANGED <<targets, shown, fresh, overtaken>>
      BY <1>4, <2>2 DEF SendQuote, sent
    <3>2. quote' \in 0..Len(Tape)
      BY <1>0, <3>1
    <3> QED BY <2>1, <3>1, <3>2 DEF SentBounds
  <2>3. CASE targets # {}
    <3>1. PICK c \in targets :
              /\ targets' = targets \ {c} /\ UNCHANGED quote
              /\ \/ Send(c, Tape[quote].contract)
                 \/ UNCHANGED sent
      BY <1>4, <2>3 DEF SendQuote
    <3>2. c \in Conns /\ Tape[quote].contract \in Contracts
      <4>1. quote \in Quotes
        BY <1>0, <1>4 DEF SendQuote, QuoteIsLast
      <4> QED BY <3>1, <4>1, ContractOf DEF SentBounds
    <3>3. /\ shown' \in [Conns -> [Contracts -> 0..Len(Tape)]]
          /\ fresh' \subseteq Conns \X Contracts /\ overtaken' \subseteq Conns \X Contracts
      <4>1. CASE UNCHANGED sent
        BY <4>1 DEF sent, SentBounds
      <4>2. CASE Send(c, Tape[quote].contract)
        <5> DEFINE k == Tape[quote].contract
        <5>1. /\ shown' = [shown EXCEPT ![c][k] = quote]
              /\ fresh' \subseteq fresh \cup {<<c, k>>}
              /\ overtaken' \subseteq overtaken \cup {<<c, k>>}
          BY <4>2 DEF Send
        <5>2. k \in Contracts
          BY <3>2
        <5> HIDE DEF k
        <5>3. shown' \in [Conns -> [Contracts -> 0..Len(Tape)]]
          BY <3>2, <5>1, <5>2 DEF SentBounds
        <5>4. <<c, k>> \in Conns \X Contracts
          BY <3>2, <5>2
        <5> QED BY <5>1, <5>3, <5>4 DEF SentBounds
      <4> QED BY <3>1, <4>1, <4>2
    <3>4. targets' \subseteq Conns /\ quote' \in 0..Len(Tape)
      BY <3>1 DEF SentBounds
    <3> QED BY <2>1, <3>3, <3>4 DEF SentBounds
  <2> QED BY <2>2, <2>3
<1>5. ASSUME NEW c \in Conns,
             Accept(c) \/ SubmitLogin(c) \/ Hangup(c) \/ OnClose(c) \/ RefuseLogin(c)
      PROVE  SentBounds'
  <2>1. UNCHANGED <<last, quote, targets, reply, shown, fresh, overtaken>>
    BY <1>5 DEF Accept, SubmitLogin, Hangup, OnClose, RefuseLogin, broadcast, sent
  <2> QED BY <2>1 DEF SentBounds
<1>6. ASSUME NEW c \in Conns, InsertId(c)
      PROVE  SentBounds'
  BY <1>6 DEF InsertId, SentBounds, broadcast, sent
<1>7. ASSUME NEW c \in Conns, TakeSnapshot(c)
      PROVE  SentBounds'
  BY <1>7 DEF TakeSnapshot, SentBounds, broadcast, sent
<1>8. ASSUME NEW c \in Conns, SendReply(c)
      PROVE  SentBounds'
  <2>1. UNCHANGED <<last, quote, targets, overtaken>>
    BY <1>8 DEF SendReply, broadcast
  <2>2. reply' = [reply EXCEPT ![c] = None] /\ None \in [Contracts -> 0..Len(Tape)]
    BY <1>0, <1>8 DEF SendReply, None
  <2>3. reply' \in [Conns -> [Contracts -> 0..Len(Tape)]]
    BY <2>2 DEF SentBounds
  <2>4. fresh' \subseteq Conns \X Contracts
    BY <1>8 DEF SendReply, SentBounds
  <2>5. [k \in Contracts |-> IF reply[c][k] # 0 THEN reply[c][k] ELSE shown[c][k]]
          \in [Contracts -> 0..Len(Tape)]
    <3>1. \A k \in Contracts : reply[c][k] \in 0..Len(Tape) /\ shown[c][k] \in 0..Len(Tape)
      BY DEF SentBounds
    <3> QED BY <3>1
  <2>6. shown' \in [Conns -> [Contracts -> 0..Len(Tape)]]
    <3>1. \/ UNCHANGED shown
          \/ shown' = [shown EXCEPT ![c] =
                 [k \in Contracts |-> IF reply[c][k] # 0 THEN reply[c][k] ELSE shown[c][k]]]
      BY <1>8 DEF SendReply
    <3> QED BY <2>5, <3>1 DEF SentBounds
  <2> QED BY <2>1, <2>3, <2>4, <2>6 DEF SentBounds
<1> QED
  BY <1>1, <1>2, <1>3, <1>4, <1>5, <1>6, <1>7, <1>8, NextCases

\* Every variable keeps its type: the queues stay within their bound, the window of
\* IsNewTick below its length.
THEOREM TypeCorrect == Spec => []TypeOK
<1>1. Init => QueueBounds /\ SentBounds
  BY BoundsInit
<1>2. IInv /\ QueueBounds /\ SentBounds /\ [Next]_vars => (QueueBounds /\ SentBounds)'
  BY QueueBoundsKeep, SentBoundsKeep
<1>3. IInv /\ QueueBounds /\ SentBounds => TypeOK
  <2> SUFFICES ASSUME IInv, QueueBounds, SentBounds PROVE TypeOK
    OBVIOUS
  <2>1. Range(LoginSteps) = {"insert", "snapshot", "reply", "done"}
    <3>1. DOMAIN LoginSteps = {1, 2, 3, 4}
      BY DEF LoginSteps
    <3>2. /\ LoginSteps[1] = "insert" /\ LoginSteps[2] = "snapshot"
          /\ LoginSteps[3] = "reply" /\ LoginSteps[4] = "done"
      BY DEF LoginSteps
    <3> QED BY <3>1, <3>2, Zenon DEF Range
  <2>2. login \in [Conns -> Range(LoginSteps) \cup {"none", "refuse", "refused"}]
    BY <2>1 DEF IInv, Rest, Types, LoginPcs
  <2>3. /\ raw \in Seq(Quotes) /\ handled \in Seq(Quotes)
        /\ unique \in Seq(Quotes) /\ Len(unique) < Window
    BY DEF IInv, QueueTypes, WindowInv
  <2>4. /\ thread.filter \in {"ready", "waiting"}
        /\ thread.handler \in {"ready", "waiting", "copy", "send"}
        /\ clients \subseteq Conns /\ conn \in [Conns -> {"none", "open", "closing", "closed"}]
    BY DEF IInv, Rest, Types, HandlerPcs, ConnStates
  <2> QED BY <2>2, <2>3, <2>4 DEF TypeOK, QueueBounds, SentBounds
<1> QED BY <1>1, <1>2, <1>3, Inductive, PTL DEF Spec
=============================================================================
