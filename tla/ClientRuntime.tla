--------------------------- MODULE ClientRuntime ---------------------------
(***************************************************************************)
(* One client process of the clock manager: the application thread in      *)
(* ClockManager's calls (clkmgr/client/clockmanager.cpp, client_state.cpp),*)
(* the listener thread (clkmgr/common/msgq_tport.cpp) and the orderly      *)
(* stop of both (clkmgr/common/termin.cpp), against a proxy that answers,  *)
(* dies, or says goodbye.                                                  *)
(*                                                                         *)
(* The data a subscription brings are the subject of TimeBaseState, the    *)
(* proxy's side and its notifications that of ProxyClients; here the proxy *)
(* is reduced to its answers.                                              *)
(***************************************************************************)
EXTENDS Integers, Sequences, FiniteSets

CONSTANTS
  ProxyQueue,   \* capacity of the proxy's queue, which clients block on
  ClientQueue,  \* capacity of the client's queue (2)
  MaxSession,   \* bound: sessions the proxy opens for this client
  MaxCall,      \* bound: calls of the application
  ProxyMayDie   \* whether the proxy may stop answering

ASSUME ConstantsAssumption ==
  /\ ProxyQueue \in Nat \ {0}
  /\ ClientQueue \in Nat \ {0}
  /\ MaxSession \in Nat
  /\ MaxCall \in Nat
  /\ ProxyMayDie \in BOOLEAN

VARIABLES
  doInit, connected, sessionId,     \* clockmanager.cpp, ClientState
  subscribed,                       \* TimeBaseState::subscribed
  tx,           \* txContext is open
  rx,           \* the listener's queue is open
  m_exitVal,    \* the listener thread is asked to end
  m_retVal,     \* the listener thread's future is ready
  thread,       \* the listener thread
  msg,          \* the message it handles
  pc,           \* the application thread
  request,      \* the request it sends
  cont,         \* where it goes on once connected
  ret,          \* ret of End::stopAll
  finalized,    \* history: Ends that stopAll finalized in its last call
  timedOut,     \* history: some connect timed out
  call,         \* calls so far: bounds the model
  outbox,       \* the proxy's queue
  inbox,        \* the client's queue
  proxy,        \* "up", "dead" (its queue remains) or "gone"
  sessions,     \* sessions of this client in the proxy's sessionMap
  opened        \* number of sessions the proxy opened

listenerVars == <<m_exitVal, m_retVal, thread, msg>>
apiVars == <<pc, request, cont, ret, finalized, timedOut, call>>
stateVars == <<doInit, connected, sessionId, subscribed, tx, rx>>
proxyVars == <<proxy, sessions, opened>>
queues == <<outbox, inbox>>
vars == <<stateVars, listenerVars, apiVars, queues, proxyVars>>

InvalidSessionId == 0
Session == 0 .. MaxSession
Message == [type : {"CONNECT", "SUBSCRIBE", "DISCONNECT"}, sid : Session]
NoMessage == [type |-> "CONNECT", sid |-> InvalidSessionId]

\* std::terminate: an uncaught exception of the listener thread.
Aborted == pc = "aborted"

---------------------------------------------------------------------------
(* The listener thread *)

\* dispatchLoop's test of m_exitVal.  A thread that ends sets the promise, which
\* throws if an earlier thread has set it.
ThreadLoop ==
  /\ thread = "loop" /\ ~Aborted
  /\ \/ /\ ~m_exitVal /\ thread' = "enter" /\ UNCHANGED <<m_retVal, pc>>
     \/ /\ m_exitVal /\ ~m_retVal
        /\ thread' = "done" /\ m_retVal' = TRUE /\ UNCHANGED pc
     \/ /\ m_exitVal /\ m_retVal
        /\ pc' = "aborted" /\ UNCHANGED <<thread, m_retVal>>
  /\ UNCHANGED <<stateVars, m_exitVal, msg, request, cont, ret, finalized, timedOut,
                 call, queues, proxyVars>>

\* mq_receive is entered: from now on a signal interrupts it.
ThreadReceive ==
  /\ thread = "enter" /\ thread' = "receive" /\ ~Aborted
  /\ UNCHANGED <<stateVars, m_exitVal, m_retVal, msg, apiVars, queues, proxyVars>>

ThreadReceived ==
  /\ thread = "receive" /\ inbox # <<>> /\ ~Aborted
  /\ msg' = Head(inbox) /\ inbox' = Tail(inbox)
  /\ thread' = "handle"
  /\ UNCHANGED <<stateVars, m_exitVal, m_retVal, apiVars, outbox, proxyVars>>

\* parseBufferTail of the three messages.  connectReply sets m_connected first,
\* m_sessionId in ThreadSetSession, holding connect_cv_mtx over both.
ThreadHandle ==
  /\ thread = "handle" /\ ~Aborted
  /\ \/ /\ msg.type = "CONNECT"
        /\ connected' = TRUE /\ thread' = "setSession" /\ UNCHANGED <<subscribed, msg>>
     \/ /\ msg.type = "SUBSCRIBE"
        /\ subscribed' = TRUE /\ thread' = "loop" /\ msg' = NoMessage
        /\ UNCHANGED connected
     \/ /\ msg.type = "DISCONNECT"
        /\ connected' = FALSE /\ thread' = "loop" /\ msg' = NoMessage
        /\ UNCHANGED subscribed
  /\ UNCHANGED <<doInit, sessionId, tx, rx, m_exitVal, m_retVal, apiVars, queues,
                 proxyVars>>

ThreadSetSession ==
  /\ thread = "setSession" /\ ~Aborted
  /\ sessionId' = msg.sid
  /\ thread' = "loop" /\ msg' = NoMessage
  /\ UNCHANGED <<doInit, connected, subscribed, tx, rx, m_exitVal, m_retVal, apiVars,
                 queues, proxyVars>>

ListenerThread ==
  ThreadLoop \/ ThreadReceive \/ ThreadReceived \/ ThreadHandle \/ ThreadSetSession

---------------------------------------------------------------------------
(* The application thread: connect *)

\* A step that only moves the application thread on.
Go(label) ==
  /\ pc' = label
  /\ UNCHANGED <<stateVars, listenerVars, request, cont, ret, finalized, timedOut,
                 call, queues, proxyVars>>

\* A call of the application begins at label, and once connected goes on at then.
Call(label, then) ==
  /\ pc = "idle" /\ call < MaxCall
  /\ call' = call + 1
  /\ pc' = label /\ cont' = then
  /\ UNCHANGED <<stateVars, listenerVars, request, ret, finalized, timedOut, queues,
                 proxyVars>>

\* ClockManager::connect: initialise unless doInit.
ConnectLabel == IF doInit THEN "connect" ELSE "init"

connect == Call(ConnectLabel, "idle")

\* ClientState::init: open the proxy's queue, create the own one, start the
\* listener thread.  It fails without a proxy's queue, and when the own queue cannot
\* be created, which leaves the proxy's queue open.
InitFails ==
  /\ pc = "init"
  /\ tx' = (proxy # "gone")
  /\ pc' = "idle"
  /\ UNCHANGED <<doInit, connected, sessionId, subscribed, rx, listenerVars, request,
                 cont, ret, finalized, timedOut, call, queues, proxyVars>>

InitClient ==
  /\ pc = "init" /\ proxy # "gone"
  /\ tx' = TRUE /\ rx' = TRUE
  /\ thread' = "loop"
  /\ inbox' = <<>>
  /\ pc' = "started"
  /\ UNCHANGED <<doInit, connected, sessionId, subscribed, m_exitVal, m_retVal, msg,
                 request, cont, ret, finalized, timedOut, call, outbox, proxyVars>>

\* Listener::init: a future that is ready means the thread ended early, and
\* joins it.  That only happens to a thread started after a disconnect, whose
\* end is ThreadLoop's abort, so there is no step after the join.
InitDone ==
  /\ pc = "started" /\ ~m_retVal
  /\ doInit' = TRUE
  /\ pc' = "connect"
  /\ UNCHANGED <<connected, sessionId, subscribed, tx, rx, listenerVars, request, cont,
                 ret, finalized, timedOut, call, queues, proxyVars>>

\* Mutant: every connect asks for a new session.
ConnectBuildNew ==
  /\ pc = "connect"
  /\ connected' = FALSE
  /\ request' = [type |-> "CONNECT", sid |-> InvalidSessionId]
  /\ pc' = "send"
  /\ UNCHANGED <<doInit, sessionId, subscribed, tx, rx, listenerVars, cont, ret,
                 finalized, timedOut, call, queues, proxyVars>>

\* ClientState::connect builds the request with the session it may still have.
ConnectBuild ==
  /\ pc = "connect"
  /\ connected' = FALSE
  /\ request' = [type |-> "CONNECT", sid |-> sessionId]
  /\ pc' = "send"
  /\ UNCHANGED <<doInit, sessionId, subscribed, tx, rx, listenerVars, cont, ret,
                 finalized, timedOut, call, queues, proxyVars>>

\* ClientState::sendMessage: mq_send blocks while the proxy's queue is full, and
\* fails at once when the queue was closed; connect and subscribe ignore that.
AfterSend ==
  CASE request.type = "CONNECT"    -> "connecting"
    [] request.type = "SUBSCRIBE"  -> "subscribing"
    [] request.type = "DISCONNECT" -> IF tx THEN "disconnected" ELSE "idle"

\* Mutant: a message that finds the queue full is queued all the same.
HasRoomAlways == TRUE

HasRoom == Len(outbox) < ProxyQueue

Send ==
  /\ pc = "send"
  /\ \/ ~tx /\ UNCHANGED outbox
     \/ tx /\ HasRoom /\ outbox' = Append(outbox, request)
  /\ pc' = AfterSend /\ request' = NoMessage
  /\ UNCHANGED <<stateVars, listenerVars, cont, ret, finalized, timedOut, call, inbox,
                 proxyVars>>

\* connect waits with connect_cv_mtx, which connectReply holds in "setSession".
ConnectDone ==
  /\ pc = "connecting" /\ connected /\ thread # "setSession"
  /\ Go(cont)

\* The timeout, of connect or of check_proxy_liveness, is over.  subscribe tests
\* get_connected once more, every other call fails.
ConnectTimeout ==
  /\ pc = "connecting" /\ ~connected /\ thread # "setSession"
  /\ pc' = (IF cont = "subscribe" THEN cont ELSE "idle")
  /\ timedOut' = TRUE
  /\ UNCHANGED <<stateVars, listenerVars, request, cont, ret, finalized, call, queues,
                 proxyVars>>

---------------------------------------------------------------------------
(* The application thread: subscribe and statusWait *)

subscribe == Call(IF connected THEN "subscribe" ELSE ConnectLabel, "subscribe")

\* The tests of get_connected in ClockManager::subscribe and TimeBaseStates::subscribe.
SubscribeCheck ==
  /\ pc = "subscribe"
  /\ Go(IF connected THEN "ask" ELSE "idle")

SubscribeBuild ==
  /\ pc = "ask"
  /\ request' = [type |-> "SUBSCRIBE", sid |-> sessionId]
  /\ pc' = "send"
  /\ UNCHANGED <<stateVars, listenerVars, cont, ret, finalized, timedOut, call, queues,
                 proxyVars>>

\* A reply has come, to this request or to an earlier one, or the wait times out.
SubscribeDone == pc = "subscribing" /\ Go("idle")

statusWait == subscribed /\ connected /\ Call("wait", "wait")

\* A round of statusWait's loop: it ends with an event, with the timeout or
\* because the connection is lost; else, when the proxy was silent for 200 ms,
\* check_proxy_liveness connects again.
WaitEnds == pc = "wait" /\ Go("idle")

WaitChecksProxy == pc = "wait" /\ connected /\ Go("connect")

---------------------------------------------------------------------------
(* The application thread: disconnect *)

\* ClockManager::disconnect, nothing to do unless doInit.
disconnect == doInit /\ Call(IF connected THEN "goodbye" ELSE "stop", "idle")

DisconnectBuild ==
  /\ pc = "goodbye"
  /\ request' = [type |-> "DISCONNECT", sid |-> sessionId]
  /\ pc' = "send"
  /\ UNCHANGED <<stateVars, listenerVars, cont, ret, finalized, timedOut, call, queues,
                 proxyVars>>

\* Mutant: the connection is not marked as closed.
DisconnectedNotMarked ==
  /\ pc = "disconnected"
  /\ pc' = "stop"
  /\ UNCHANGED <<stateVars, listenerVars, request, cont, ret, finalized, timedOut,
                 call, queues, proxyVars>>

\* notifyDisconnect once the message is sent.
Disconnected ==
  /\ pc = "disconnected"
  /\ connected' = FALSE
  /\ pc' = "stop"
  /\ UNCHANGED <<doInit, sessionId, subscribed, tx, rx, listenerVars, request, cont,
                 ret, finalized, timedOut, call, queues, proxyVars>>

\* The stop pass of End::stopAll: Listener::stop asks the thread to end and
\* interrupts it.  The signal is spent unless mq_receive is waiting.
Stop ==
  /\ pc = "stop"
  /\ m_exitVal' = TRUE
  /\ thread' = IF ~m_retVal /\ thread = "receive" THEN "loop" ELSE thread
  /\ ret' = TRUE /\ finalized' = {}
  /\ pc' = "finalizeTx"
  /\ UNCHANGED <<stateVars, m_retVal, msg, request, cont, timedOut, call, queues,
                 proxyVars>>

\* The finalize pass: ClientStateEnd closes txContext, which fails when closed.
FinalizeTx ==
  /\ pc = "finalizeTx"
  /\ ret' = tx /\ tx' = FALSE
  /\ finalized' = {"ClientStateEnd"}
  /\ pc' = "finalizeRx"
  /\ UNCHANGED <<doInit, connected, sessionId, subscribed, rx, listenerVars, request,
                 cont, timedOut, call, queues, proxyVars>>

\* Mutant: the queue is closed before the thread is waited for.
FinalizeRxEarly ==
  /\ pc = "finalizeRx" /\ ret
  /\ rx' = FALSE /\ inbox' = <<>>
  /\ finalized' = finalized \cup {"Listener"}
  /\ \/ m_retVal /\ thread' = "none" /\ UNCHANGED ret
     \/ ~m_retVal /\ ret' = FALSE /\ UNCHANGED thread
  /\ pc' = "stopped"
  /\ UNCHANGED <<doInit, connected, sessionId, subscribed, tx, m_exitVal, m_retVal, msg,
                 request, cont, timedOut, call, outbox, proxyVars>>

\* Mutant: the thread is joined without looking whether it has ended.
FinalizeRxJoins ==
  /\ pc = "finalizeRx" /\ ret /\ m_retVal
  /\ finalized' = finalized \cup {"Listener"}
  /\ thread' = "none" /\ rx' = FALSE /\ inbox' = <<>>
  /\ pc' = "stopped"
  /\ UNCHANGED <<doInit, connected, sessionId, subscribed, tx, m_exitVal, m_retVal, msg,
                 request, cont, ret, timedOut, call, outbox, proxyVars>>

\* Listener::finalize: join the thread and close the queue, unless the thread
\* has not ended after EXIT_TIMEOUT.
FinalizeRx ==
  /\ pc = "finalizeRx" /\ ret
  /\ finalized' = finalized \cup {"Listener"}
  /\ \/ /\ m_retVal
        /\ thread' = "none" /\ rx' = FALSE /\ inbox' = <<>> /\ UNCHANGED ret
     \/ ~m_retVal /\ ret' = FALSE /\ UNCHANGED <<thread, rx, inbox>>
  /\ pc' = "stopped"
  /\ UNCHANGED <<doInit, connected, sessionId, subscribed, tx, m_exitVal, m_retVal, msg,
                 request, cont, timedOut, call, outbox, proxyVars>>

\* ret && e->finalize(): a failure keeps the Ends that follow from being finalized.
FinalizeSkipped == pc = "finalizeRx" /\ ~ret /\ Go("stopped")

\* Mutant: the client counts as not initialised whatever stopAll returned.
StoppedAlways ==
  /\ pc = "stopped"
  /\ doInit' = FALSE
  /\ pc' = "idle"
  /\ UNCHANGED <<connected, sessionId, subscribed, tx, rx, listenerVars, request, cont,
                 ret, finalized, timedOut, call, queues, proxyVars>>

\* disconnect returns; only a clean stop allows to initialise again.
Stopped ==
  /\ pc = "stopped"
  /\ doInit' = ~ret
  /\ pc' = "idle"
  /\ UNCHANGED <<connected, sessionId, subscribed, tx, rx, listenerVars, request, cont,
                 ret, finalized, timedOut, call, queues, proxyVars>>

Calls == connect \/ subscribe \/ statusWait \/ disconnect

AppThread ==
  \/ InitFails \/ InitClient \/ InitDone \/ ConnectBuild \/ Send
  \/ ConnectDone \/ ConnectTimeout
  \/ SubscribeCheck \/ SubscribeBuild \/ SubscribeDone
  \/ WaitEnds \/ WaitChecksProxy
  \/ DisconnectBuild \/ Disconnected
  \/ Stop \/ FinalizeTx \/ FinalizeRx \/ FinalizeSkipped \/ Stopped

---------------------------------------------------------------------------
(* The proxy, as far as this client sees it *)

\* A reply that finds the client's queue full, or an error, ends the listener
\* thread of the proxy.  A queue that the client has closed keeps its sessions'
\* transmitters open: what is sent there is lost.
Reply(m) ==
  \/ rx /\ Len(inbox) < ClientQueue /\ inbox' = Append(inbox, m) /\ UNCHANGED proxy
  \/ rx /\ Len(inbox) = ClientQueue /\ proxy' = "dead" /\ UNCHANGED inbox
  \/ ~rx /\ UNCHANGED <<inbox, proxy>>

\* A session can only be opened while the client has its queue.
ProxyConnect(sid) ==
  \/ /\ sid = InvalidSessionId /\ rx /\ opened < MaxSession
     /\ opened' = opened + 1
     /\ sessions' = sessions \cup {opened + 1}
     /\ Reply([type |-> "CONNECT", sid |-> opened + 1])
  \/ /\ sid \in sessions
     /\ Reply([type |-> "CONNECT", sid |-> sid])
     /\ UNCHANGED <<sessions, opened>>
  \/ /\ sid \notin sessions /\ (sid # InvalidSessionId \/ ~rx)
     /\ proxy' = "dead"
     /\ UNCHANGED <<inbox, sessions, opened>>

ProxySubscribe(sid) ==
  /\ \/ sid \in sessions /\ Reply([type |-> "SUBSCRIBE", sid |-> sid])
     \/ sid \notin sessions /\ proxy' = "dead" /\ UNCHANGED inbox
  /\ UNCHANGED <<sessions, opened>>

ProxyDisconnect(sid) ==
  sessions' = sessions \ {sid} /\ UNCHANGED <<inbox, proxy, opened>>

ProxyServes ==
  /\ proxy = "up" /\ outbox # <<>>
  /\ outbox' = Tail(outbox)
  /\ LET m == Head(outbox) IN
     \/ m.type = "CONNECT" /\ ProxyConnect(m.sid)
     \/ m.type = "SUBSCRIBE" /\ ProxySubscribe(m.sid)
     \/ m.type = "DISCONNECT" /\ ProxyDisconnect(m.sid)
  /\ UNCHANGED <<stateVars, listenerVars, apiVars>>

\* The proxy crashes, or another client ends its listener thread.
ProxyDies ==
  /\ ProxyMayDie /\ proxy = "up" /\ proxy' = "dead"
  /\ UNCHANGED <<stateVars, listenerVars, apiVars, queues, sessions, opened>>

\* An orderly end: Client::notifyDisconnect, and the proxy's queue is unlinked.
ProxyGoodbye ==
  /\ ProxyMayDie /\ proxy = "up" /\ proxy' = "gone"
  /\ sessions' = {}
  /\ LET told == {i \in 1 .. Cardinality(sessions) : rx /\ Len(inbox) + i <= ClientQueue}
     IN  inbox' = inbox \o [i \in 1 .. Cardinality(told) |->
                              [type |-> "DISCONNECT", sid |-> InvalidSessionId]]
  /\ UNCHANGED <<stateVars, listenerVars, apiVars, outbox, opened>>

Proxy == ProxyServes \/ ProxyDies \/ ProxyGoodbye

---------------------------------------------------------------------------

Init ==
  /\ doInit = FALSE /\ connected = FALSE /\ sessionId = InvalidSessionId
  /\ subscribed = FALSE
  /\ tx = FALSE /\ rx = FALSE
  /\ m_exitVal = FALSE /\ m_retVal = FALSE
  /\ thread = "none" /\ msg = NoMessage
  /\ pc = "idle" /\ request = NoMessage /\ cont = "idle"
  /\ ret = TRUE /\ finalized = {} /\ timedOut = FALSE /\ call = 0
  /\ outbox = <<>> /\ inbox = <<>>
  /\ proxy = "up" /\ sessions = {} /\ opened = 0

Next == ListenerThread \/ Calls \/ AppThread \/ Proxy

Spec == Init /\ [][Next]_vars

\* The threads run and time-outs pass; nothing makes an application call, the
\* scheduler's fairness to the proxy's listener is as for the client's threads.
FairSpec ==
  /\ Spec
  /\ WF_vars(ListenerThread)
  /\ WF_vars(AppThread)
  /\ WF_vars(ProxyServes)

---------------------------------------------------------------------------
(* Properties *)

Label == {"idle", "init", "started", "connect", "send", "connecting", "subscribe",
          "ask", "subscribing", "wait", "goodbye", "disconnected", "stop",
          "finalizeTx", "finalizeRx", "stopped", "aborted"}

\* Types; the proxy's and the client's queue (two outstanding messages,
\* client_state.cpp) hold no more than their capacity.
TypeOK ==
  /\ doInit \in BOOLEAN /\ connected \in BOOLEAN /\ sessionId \in Session
  /\ subscribed \in BOOLEAN
  /\ tx \in BOOLEAN /\ rx \in BOOLEAN
  /\ m_exitVal \in BOOLEAN /\ m_retVal \in BOOLEAN
  /\ thread \in {"none", "loop", "enter", "receive", "handle", "setSession", "done"}
  /\ msg \in Message
  /\ pc \in Label /\ request \in Message /\ cont \in {"idle", "subscribe", "wait"}
  /\ ret \in BOOLEAN /\ finalized \subseteq {"ClientStateEnd", "Listener"}
  /\ timedOut \in BOOLEAN /\ call \in 0 .. MaxCall
  /\ outbox \in Seq(Message) /\ Len(outbox) <= ProxyQueue
  /\ inbox \in Seq(Message) /\ Len(inbox) <= ClientQueue
  /\ proxy \in {"up", "dead", "gone"}
  /\ sessions \subseteq Session \ {InvalidSessionId} /\ opened \in 0 .. MaxSession

\* Listener::finalize closes the queue only after the thread has ended: the
\* thread never receives from a queue that is closed, whichever of an interrupt,
\* a message and a timeout comes first.
QueueOutlivesThread == ~rx => thread = "none"

\* A disconnect whose stopAll succeeds leaves no thread and no open queue behind,
\* also when an earlier one failed half way (ClockManager::disconnect, End::stopAll).
\* While the client counts as not initialised it has no thread and no queue of its
\* own, so that ClientState::init may start them, also after an init that failed.
DisconnectIsClean ==
  /\ pc = "stopped" /\ ret => thread = "none" /\ ~rx /\ ~tx
  /\ ~doInit /\ pc = "idle" => thread = "none" /\ ~rx

\* After a successful disconnect the client takes itself for connected only if
\* a reply came to a connect that had timed out.
OnlyLateReplyConnects ==
  ~doInit /\ pc = "idle" /\ connected => timedOut

\* A client has one session, whatever it calls and however often it connects
\* again to check that the proxy lives, unless a connect timed out
\* (ClientState::connect sends the session it has).
OneSession == ~timedOut => Cardinality(sessions) <= 1

\* connect, subscribe and disconnect return, as long as the proxy serves requests.
CallsReturn ==
  [](proxy = "up") => (pc \notin {"idle", "wait"} ~> pc \in {"idle", "wait", "aborted"})

\* clockmanager.h: disconnect will "Remove the connection between Client and
\* Proxy": once it returned true, the client is not connected.
DisconnectedAfterDisconnect == ~doInit /\ pc = "idle" => ~connected

\* timebase_state.cpp: subscribe passes its check of "whether connection between
\* Proxy and Client is established or not" only with a session to subscribe for.
SubscribesWithSession == pc = "ask" => sessionId # InvalidSessionId

\* clockmanager.h: disconnect returns "true on success", and returns true at once
\* while the client counts as not initialised: there is nothing it would have to close.
NothingLeftOpen == ~doInit /\ pc = "idle" => ~tx

\* termin.hpp: stopAll "will call all stop and finalize regarding the result!"
FinalizesAll == pc = "stopped" => finalized = {"ClientStateEnd", "Listener"}

\* timebase_state.cpp, clockmanager.cpp: subscribe waits "DEFAULT_SUBSCRIBE_TIME_OUT
\* seconds for response from Proxy Daemon" and connect its own timeout, and return
\* even if the proxy died.
CallsAlwaysReturn ==
  pc \notin {"idle", "wait"} ~> pc \in {"idle", "wait", "aborted"}

\* clockmanager.h: connect returns "True on success, false on failure": it does
\* not end the process.
ConnectReturns == ~Aborted

===========================================================================
