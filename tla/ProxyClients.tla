---------------------------- MODULE ProxyClients ----------------------------
(***************************************************************************)
(* The client table of the Clock Manager proxy daemon                      *)
(* (clkmgr/proxy/client.cpp), with every thread that works on it:          *)
(*   - the listener thread, which serves CONNECT, SUBSCRIBE and DISCONNECT *)
(*     requests from the proxy's message queue and sends the replies;      *)
(*   - one publisher thread per status source (a ptp4l or a chronyd        *)
(*     instance of a time base), which stores a new status and notifies    *)
(*     the subscribed clients;                                             *)
(*   - the main thread, which on a stop signal says goodbye to every       *)
(*     client and stops the others.                                        *)
(* The clients appear as the environment: they send the requests the       *)
(* client runtime sends, and read their bounded queues at their own pace.  *)
(*                                                                         *)
(* A critical section that takes no second lock is one action.  The shared *)
(* lock a publisher keeps over its whole scan is explicit (Readers).       *)
(* A status is the number of times its source changed it; 0 is the empty   *)
(* status of a source that reported nothing yet.                           *)
(***************************************************************************)
EXTENDS Integers, Sequences, FiniteSets

CONSTANTS
  Client,       \* client processes; each is named by its message queue
  NoClient,     \* "no such session"
  TimeBase,     \* indices of the configured time bases, counted from 1
  Source,       \* the <<time base, clock type>> pairs that have a thread
  MaxSession,   \* ValidMaskSessionId: session ids are 0..MaxSession
  Depth,        \* messages a client's queue holds
  ProxyDepth,   \* messages the proxy's queue holds (MAX_CLIENT_COUNT)
  MaxEvent,     \* bound: status changes of one source
  MaxSend       \* bound: requests one client sends

ClockType == {"PTP", "Sys"}
Status == TimeBase \X ClockType

ASSUME ConstantsAssumption ==
  /\ NoClient \notin Client
  /\ TimeBase \subseteq Nat \ {0}
  /\ TimeBase # {}
  /\ Source \subseteq Status
  /\ MaxSession \in Nat
  /\ Depth \in Nat \ {0}
  /\ ProxyDepth \in Nat \ {0}
  /\ MaxEvent \in Nat
  /\ MaxSend \in Nat

SessionId == 0 .. MaxSession
InvalidSessionId == MaxSession + 1      \* stands for 65535, outside the mask

Lst == <<0, "Listener">>
Main == <<0, "Main">>
Thread == {Lst, Main} \cup Source

NullTx == -1                            \* getTransmitter returned nullptr
FreedTx == -2                           \* the transmitter was deleted meanwhile

Label == {"loop", "recv", "gettx", "insert", "readptp", "readsys", "send", "spin",
          "dead", "done", "idle", "notify", "scan", "rm", "rmbase", "wait", "stop",
          "finalize", "join", "clear", "last", "exit"}

Request == [type : {"CONNECT", "SUBSCRIBE", "DISCONNECT"}, client : Client,
            sid : SessionId \cup {InvalidSessionId}, tb : TimeBase \cup {0}]

\* What a message to a client carries: a session id, and for each clock of a
\* time base its status, or 0 for none.
NoNews == [k \in ClockType |-> 0]
Message == [type : {"CONNECT", "SUBSCRIBE", "NOTIFY", "DISCONNECT"},
            sid : SessionId \cup {InvalidSessionId}, tb : TimeBase \cup {0},
            news : [ClockType -> Nat]]
Disconnect == [type |-> "DISCONNECT", sid |-> InvalidSessionId, tb |-> 0,
               news |-> NoNews]

VARIABLES
  sessionMap,   \* session id -> the client its transmitter sends to
  nextSession,  \* the id to try first for the next session
  subscribed,   \* time base -> session ids in subscribedClients
  ev,           \* the stored ptp_event and chrony_event of each time base
  pc,           \* where each thread is
  cur,          \* the session a thread is working on
  ptx,          \* the transmitter a thread fetched, named by its session
  todo,         \* sessions a publisher's scan still has to notify
  rm,           \* sessions a thread has decided to remove
  left,         \* time bases the current removal still has to visit
  reply,        \* the listener's buffer
  exitVal,      \* the stop flags (m_exitVal and stopThread) are set
  inbox,        \* the proxy's message queue
  queue,        \* the clients' message queues
  linked,       \* the clients whose queue can be opened by its name
  up,           \* state of the client processes
  csid,         \* the session id each client runtime holds
  sent,         \* requests sent, bounds the model
  owner,        \* history: the client a session id was last given to
  informed,     \* history: statuses whose current value was sent to a session
  fresh,        \* history: ... by the last message that carried that status
  full          \* history: sessions whose queue was full when it was written

table == <<sessionMap, nextSession, subscribed>>
thread == <<pc, cur, ptx, todo, rm, left, reply>>
clients == <<linked, up, csid, sent>>
history == <<owner, informed, fresh, full>>
vars == <<table, ev, thread, exitVal, inbox, queue, clients, history>>

---------------------------------------------------------------------------
(* Helpers *)

Live == {s \in SessionId : sessionMap[s] # NoClient}

\* Mutant: a publisher removes sessions inside the block that holds its shared lock.
ReadersKeepLock(b) ==
  {p \in Source : p[1] = b /\ pc[p] \in {"scan", "send", "rm", "rmbase"}}

\* Publishers holding clientListMutex of time base b in shared mode.
Readers(b) == {p \in Source : p[1] = b /\ pc[p] \in {"scan", "send"}}

\* sessionMapLock is free: nobody spins in CreateClientSession holding it.
MapFree == pc[Lst] # "spin"

\* The process has not exited.
Running == pc[Main] # "exit"

\* Steps from n to s going up and around at the mask.
Around(n, s) == IF s >= n THEN s - n ELSE s - n + MaxSession + 1

First(S, x) == x \in S /\ \A y \in S : x <= y

Goto(t, label) == pc' = [pc EXCEPT ![t] = label]

\* The statuses message m carries, and those of them that are current.
Carried(m) == {x \in Status : x[1] = m.tb /\ m.news[x[2]] # 0}
Current(m) == {x \in Carried(m) : m.news[x[2]] = ev[x]}

\* Mutant: a full queue takes one more message.
CanSendOffByOne(t) ==
  ptx[t] \in SessionId /\ Len(queue[sessionMap[ptx[t]]]) <= Depth

\* mq_send on a non-blocking descriptor: it fails when the queue is full.
CanSend(t) == ptx[t] \in SessionId /\ Len(queue[sessionMap[ptx[t]]]) < Depth

Send(t, m) ==
  /\ queue' = [queue EXCEPT ![sessionMap[ptx[t]]] = Append(@, m)]
  /\ informed' = [informed EXCEPT ![ptx[t]] = @ \cup Current(m)]
  /\ fresh' = [fresh EXCEPT ![ptx[t]] = (@ \ Carried(m)) \cup Current(m)]

FullAfter(t) ==
  IF ptx[t] \in SessionId /\ ~CanSend(t) THEN full \cup {ptx[t]} ELSE full

---------------------------------------------------------------------------
(* The clients *)

\* A client writes a request to the proxy's queue (blocking when it is full).
Post(c, req) ==
  /\ up[c] = "up"
  /\ sent[c] < MaxSend
  /\ Len(inbox) < ProxyDepth
  /\ inbox' = Append(inbox, req)
  /\ sent' = [sent EXCEPT ![c] = @ + 1]

\* ClientState::connect: the first connection, the retry of one that timed
\* out, or a liveness check; it carries the session id the client holds.
ClientConnect(c) ==
  /\ Post(c, [type |-> "CONNECT", client |-> c, sid |-> csid[c], tb |-> 0])
  /\ UNCHANGED <<table, ev, thread, exitVal, queue, linked, up, csid, history>>

ClientSubscribe(c, b) ==
  /\ csid[c] # InvalidSessionId
  /\ Post(c, [type |-> "SUBSCRIBE", client |-> c, sid |-> csid[c], tb |-> b])
  /\ UNCHANGED <<table, ev, thread, exitVal, queue, linked, up, csid, history>>

\* ClockManager::disconnect, before End::stopAll.
ClientDisconnect(c) ==
  /\ csid[c] # InvalidSessionId
  /\ Post(c, [type |-> "DISCONNECT", client |-> c, sid |-> csid[c], tb |-> 0])
  /\ up' = [up EXCEPT ![c] = "closing"]
  /\ UNCHANGED <<table, ev, thread, exitVal, queue, linked, csid, history>>

\* The client's listener takes one message.
ClientReceive(c) ==
  /\ up[c] # "gone"
  /\ queue[c] # <<>>
  /\ csid' = [csid EXCEPT ![c] = IF Head(queue[c]).type = "CONNECT"
                                 THEN Head(queue[c]).sid ELSE @]
  /\ queue' = [queue EXCEPT ![c] = Tail(@)]
  /\ UNCHANGED <<table, ev, thread, exitVal, inbox, linked, up, sent, history>>

\* A leaving client closes and unlinks its queue.  (A crashed one just never
\* takes another step, and leaves its queue behind.)
ClientGone(c) ==
  /\ up[c] = "closing"
  /\ linked' = linked \ {c}
  /\ up' = [up EXCEPT ![c] = "gone"]
  /\ UNCHANGED <<table, ev, thread, exitVal, inbox, queue, csid, sent, history>>

---------------------------------------------------------------------------
(* The listener thread *)

\* Top of dispatchLoop.
ListenerLoop ==
  /\ pc[Lst] = "loop"
  /\ Goto(Lst, IF exitVal THEN "done" ELSE "recv")
  /\ UNCHANGED <<table, ev, cur, ptx, todo, rm, left, reply, exitVal, inbox,
                 queue, clients, history>>

\* The stop signal ends mq_receive with EINTR.
ListenerInterrupted ==
  /\ pc[Lst] = "recv"
  /\ exitVal
  /\ Goto(Lst, "loop")
  /\ UNCHANGED <<table, ev, cur, ptx, todo, rm, left, reply, exitVal, inbox,
                 queue, clients, history>>

Receive(type) ==
  /\ pc[Lst] = "recv"
  /\ inbox # <<>>
  /\ Head(inbox).type = type
  /\ inbox' = Tail(inbox)

\* A failing parse or reply makes MqListenerWork return false, and that ends
\* the listener thread for good.
ListenerFails == Goto(Lst, "dead")

\* CONNECT with a session id: the session must exist.
ListenerReconnect ==
  /\ Receive("CONNECT")
  /\ LET r == Head(inbox) IN
       /\ r.sid # InvalidSessionId
       /\ IF r.sid \in Live
          THEN /\ reply' = [type |-> "CONNECT", sid |-> r.sid, tb |-> 0,
                           news |-> NoNews]
               /\ Goto(Lst, "gettx")
          ELSE ListenerFails /\ UNCHANGED reply
  /\ UNCHANGED <<table, ev, cur, ptx, todo, rm, left, exitVal, queue, clients, history>>

\* Mutant: nextSession is not advanced past the id just given out.
NextIdSame(s) == s

\* ++nextSession, masked.
NextId(s) == IF s = MaxSession THEN 0 ELSE s + 1

\* Mutant: nextSession is taken without looking whether it is in use.
NewIdUnchecked(s) == s = nextSession

\* The id for a new session: the first free one from nextSession on.
NewId(s) ==
  /\ s \notin Live
  /\ \A o \in SessionId \ Live : Around(nextSession, s) <= Around(nextSession, o)

\* CreateClientSession of request r, with s the id: a transmitter is opened on
\* the client's queue, and without one nothing is created.  Memory of a
\* transmitter deleted under a publisher may be allocated again.
NewSession(r, s) ==
  /\ NewId(s)
  /\ IF r.client \in linked
     THEN /\ sessionMap' = [sessionMap EXCEPT ![s] = r.client]
          /\ nextSession' = NextId(s)
          /\ \E R \in SUBSET {p \in Source : ptx[p] = FreedTx} :
               ptx' = [t \in Thread |-> IF t \in R THEN s ELSE ptx[t]]
          /\ reply' = [type |-> "CONNECT", sid |-> s, tb |-> 0, news |-> NoNews]
          /\ Goto(Lst, "gettx")
          /\ owner' = [owner EXCEPT ![s] = r.client]
          /\ informed' = [informed EXCEPT ![s] = {x \in Status : ev[x] = 0}]
          /\ fresh' = [fresh EXCEPT ![s] = {x \in Status : ev[x] = 0}]
          /\ full' = full \ {s}
     ELSE /\ nextSession' = s
          /\ ListenerFails
          /\ UNCHANGED <<sessionMap, ptx, reply, history>>
  /\ UNCHANGED subscribed

\* CONNECT without a session id.  With no free id CreateClientSession spins
\* forever, holding the lock.
ListenerConnect ==
  /\ Receive("CONNECT")
  /\ Head(inbox).sid = InvalidSessionId
  /\ \/ /\ Live = SessionId
        /\ Goto(Lst, "spin")
        /\ UNCHANGED <<table, ptx, reply, history>>
     \/ \E s \in SessionId : NewSession(Head(inbox), s)
  /\ UNCHANGED <<ev, cur, todo, rm, left, exitVal, queue, clients>>

\* SUBSCRIBE: Client::subscribe looks the session up under sessionMapLock
\* and lets the lock go before it enters the subscription.
ListenerSubscribe ==
  /\ Receive("SUBSCRIBE")
  /\ LET r == Head(inbox) IN
       IF r.sid \in Live /\ r.tb \in TimeBase
       THEN /\ reply' = [type |-> "SUBSCRIBE", sid |-> r.sid, tb |-> r.tb,
                         news |-> NoNews]
            /\ Goto(Lst, "insert")
       ELSE ListenerFails /\ UNCHANGED reply
  /\ UNCHANGED <<table, ev, cur, ptx, todo, rm, left, exitVal, queue, clients, history>>

ListenerInsert ==
  /\ pc[Lst] = "insert"
  /\ Readers(reply.tb) = {}
  /\ subscribed' = [subscribed EXCEPT ![reply.tb] = @ \cup {reply.sid}]
  /\ Goto(Lst, "readptp")
  /\ UNCHANGED <<sessionMap, nextSession, ev, cur, ptx, todo, rm, left, reply,
                 exitVal, inbox, queue, clients, history>>

\* makeBufferTail of the subscribe reply: getPTPEvent, then getChronyEvent.
ListenerRead(k, from, to) ==
  /\ pc[Lst] = from
  /\ reply' = [reply EXCEPT !.news[k] = ev[<<reply.tb, k>>]]
  /\ Goto(Lst, to)
  /\ UNCHANGED <<table, ev, cur, ptx, todo, rm, left, exitVal, inbox, queue,
                 clients, history>>

ListenerGetTx ==
  /\ pc[Lst] = "gettx"
  /\ IF reply.sid \in Live
     THEN Goto(Lst, "send") /\ ptx' = [ptx EXCEPT ![Lst] = reply.sid]
     ELSE ListenerFails /\ UNCHANGED ptx
  /\ UNCHANGED <<table, ev, cur, todo, rm, left, reply, exitVal, inbox, queue,
                 clients, history>>

ListenerSend ==
  /\ pc[Lst] = "send"
  /\ IF CanSend(Lst) THEN Send(Lst, reply) /\ Goto(Lst, "loop")
                     ELSE ListenerFails /\ UNCHANGED <<queue, informed, fresh>>
  /\ full' = FullAfter(Lst)
  /\ ptx' = [ptx EXCEPT ![Lst] = NullTx]
  /\ reply' = Disconnect
  /\ UNCHANGED <<table, ev, cur, todo, rm, left, exitVal, inbox, clients,
                 owner>>

\* DISCONNECT: removeClient, no reply.
ListenerDisconnect ==
  /\ Receive("DISCONNECT")
  /\ rm' = [rm EXCEPT ![Lst] = {Head(inbox).sid} \cap SessionId]
  /\ Goto(Lst, IF Head(inbox).sid \in SessionId THEN "rm" ELSE "loop")
  /\ UNCHANGED <<table, ev, cur, ptx, todo, left, reply, exitVal, queue, clients,
                 history>>

---------------------------------------------------------------------------
(* The publisher threads: notifyClients *)

\* A source reports a change: copy() stores it, and notifyClients builds the
\* message from the stored event.
Publish(p) ==
  /\ pc[p] = "idle"
  /\ ev[p] < MaxEvent
  /\ ev' = [ev EXCEPT ![p] = @ + 1]
  /\ Goto(p, "notify")
  /\ informed' = [s \in SessionId |-> informed[s] \ {p}]
  /\ fresh' = [s \in SessionId |-> fresh[s] \ {p}]
  /\ UNCHANGED <<table, cur, ptx, todo, rm, left, reply, exitVal, inbox, queue,
                 clients, owner, full>>

\* Take clientListMutex shared; the list cannot change until it is released.
BeginScan(p) ==
  /\ pc[p] = "notify"
  /\ todo' = [todo EXCEPT ![p] = subscribed[p[1]]]
  /\ Goto(p, "scan")
  /\ UNCHANGED <<table, ev, cur, ptx, rm, left, reply, exitVal, inbox, queue,
                 clients, history>>

\* Mutant: a session without transmitter is passed over.
ScanGetTxSkipsDead(p) ==
  /\ pc[p] = "scan"
  /\ MapFree
  /\ \E s \in todo[p] :
       /\ First(todo[p], s)
       /\ todo' = [todo EXCEPT ![p] = @ \ {s}]
       /\ IF s \in Live
          THEN /\ cur' = [cur EXCEPT ![p] = s]
               /\ ptx' = [ptx EXCEPT ![p] = s]
               /\ Goto(p, "send")
          ELSE UNCHANGED <<cur, ptx, pc>>
  /\ UNCHANGED <<table, ev, rm, left, reply, exitVal, inbox, queue, clients, history>>

\* getTransmitter of the next subscribed session; sessionMapLock is held only
\* for the lookup, and a session that does not exist is put on the list.
ScanGetTx(p) ==
  /\ pc[p] = "scan"
  /\ MapFree
  /\ \E s \in todo[p] :
       /\ First(todo[p], s)
       /\ todo' = [todo EXCEPT ![p] = @ \ {s}]
       /\ IF s \in Live
          THEN /\ cur' = [cur EXCEPT ![p] = s]
               /\ ptx' = [ptx EXCEPT ![p] = s]
               /\ Goto(p, "send")
               /\ UNCHANGED rm
          ELSE rm' = [rm EXCEPT ![p] = @ \cup {s}] /\ UNCHANGED <<cur, ptx, pc>>
  /\ UNCHANGED <<table, ev, left, reply, exitVal, inbox, queue, clients, history>>

\* Mutant: a failed send is forgotten.
ToRemoveNone(p) == {}

\* Mutant: the result of sendBuffer is taken the wrong way round.
ToRemoveInverted(p) == IF CanSend(p) THEN {cur[p]} ELSE {}

\* A session the message could not be sent to is put on the list to remove.
ToRemove(p) == IF CanSend(p) THEN {} ELSE {cur[p]}

Notification(p) ==
  [type |-> "NOTIFY", sid |-> InvalidSessionId, tb |-> p[1],
   news |-> [NoNews EXCEPT ![p[2]] = ev[p]]]

ScanSend(p) ==
  /\ pc[p] = "send"
  /\ IF CanSend(p) THEN Send(p, Notification(p))
                   ELSE UNCHANGED <<queue, informed, fresh>>
  /\ rm' = [rm EXCEPT ![p] = @ \cup ToRemove(p)]
  /\ full' = FullAfter(p)
  /\ Goto(p, "scan")
  /\ ptx' = [ptx EXCEPT ![p] = NullTx]
  /\ cur' = [cur EXCEPT ![p] = 0]
  /\ UNCHANGED <<table, ev, todo, left, reply, exitVal, inbox, clients,
                 owner>>

\* Release the shared lock, then remove the sessions that failed.
EndScan(p) ==
  /\ pc[p] = "scan"
  /\ todo[p] = {}
  /\ Goto(p, IF rm[p] = {} THEN "idle" ELSE "rm")
  /\ UNCHANGED <<table, ev, cur, ptx, todo, rm, left, reply, exitVal, inbox,
                 queue, clients, history>>

PublisherStop(p) ==
  /\ pc[p] = "idle"
  /\ exitVal
  /\ Goto(p, "done")
  /\ UNCHANGED <<table, ev, cur, ptx, todo, rm, left, reply, exitVal, inbox,
                 queue, clients, history>>

---------------------------------------------------------------------------
(* removeClient, as run by any thread *)

\* Under sessionMapLock: close the transmitter, unlink the client's queue and
\* erase the session, which deletes the transmitter under whoever fetched it.
RemoveFromMap(t) ==
  /\ pc[t] = "rm"
  /\ MapFree
  /\ \E s \in rm[t] :
       /\ First(rm[t], s)
       /\ cur' = [cur EXCEPT ![t] = s]
       /\ linked' = linked \ {sessionMap[s]}
       /\ sessionMap' = [sessionMap EXCEPT ![s] = NoClient]
       /\ ptx' = [u \in Thread |-> IF ptx[u] = s THEN FreedTx ELSE ptx[u]]
  /\ left' = [left EXCEPT ![t] = TimeBase]
  /\ Goto(t, "rmbase")
  /\ UNCHANGED <<nextSession, subscribed, ev, todo, rm, reply, exitVal, inbox,
                 queue, up, csid, sent, history>>

\* Where a thread goes when it has removed every session on its list.
AfterRemove(t) == IF t = Lst THEN "loop" ELSE IF t = Main THEN "stop" ELSE "idle"

\* Then erase the session from each time base, under that base's exclusive lock.
RemoveFromBase(t) ==
  /\ pc[t] = "rmbase"
  /\ \E b \in left[t] :
       /\ First(left[t], b)
       /\ Readers(b) = {}
       /\ subscribed' = [subscribed EXCEPT ![b] = @ \ {cur[t]}]
       /\ left' = [left EXCEPT ![t] = @ \ {b}]
       /\ IF left[t] = {b}
          THEN /\ rm' = [rm EXCEPT ![t] = @ \ {cur[t]}]
               /\ cur' = [cur EXCEPT ![t] = 0]
               /\ Goto(t, IF rm[t] \subseteq {cur[t]} THEN AfterRemove(t) ELSE "rm")
          ELSE UNCHANGED <<rm, cur, pc>>
  /\ UNCHANGED <<sessionMap, nextSession, ev, ptx, todo, reply, exitVal,
                 inbox, queue, clients, history>>

---------------------------------------------------------------------------
(* The main thread *)

Least(m, n) == IF m <= n THEN m ELSE n

\* notifyDisconnect: one critical section sends a DISCONNECT to every session
\* whose queue has room, and lists all sessions for removal.
NotifyDisconnect ==
  /\ pc[Main] = "wait"
  /\ MapFree
  /\ queue' = [c \in Client |->
       LET sessions == Cardinality({s \in Live : sessionMap[s] = c})
           copies == Least(sessions, Depth - Len(queue[c]))
       IN  queue[c] \o [i \in 1 .. copies |-> Disconnect]]
  /\ rm' = [rm EXCEPT ![Main] = Live]
  /\ Goto(Main, IF Live = {} THEN "stop" ELSE "rm")
  /\ UNCHANGED <<table, ev, cur, ptx, todo, left, reply, exitVal, inbox, clients,
                 history>>

\* The stop pass of End::stopAll.
MainStop ==
  /\ pc[Main] = "stop"
  /\ exitVal' = TRUE
  /\ Goto(Main, "finalize")
  /\ UNCHANGED <<table, ev, cur, ptx, todo, rm, left, reply, inbox, queue,
                 clients, history>>

\* The finalize pass visits the End objects in the order they were built.
\* The listener's comes last; the order of the others is up to the linker.
\* ClientRemoveAll closes and deletes every transmitter.
MainRemoveAll ==
  /\ pc[Main] \in {"finalize", "clear"}
  /\ MapFree
  /\ sessionMap' = [s \in SessionId |-> NoClient]
  /\ ptx' = [u \in Thread |-> IF ptx[u] \in SessionId THEN FreedTx ELSE ptx[u]]
  /\ Goto(Main, IF pc[Main] = "finalize" THEN "join" ELSE "last")
  /\ UNCHANGED <<nextSession, subscribed, ev, cur, todo, rm, left, reply, exitVal,
                 inbox, queue, clients, history>>

\* ConnectSrv waits for its publisher threads to end.
MainJoin ==
  /\ pc[Main] \in {"finalize", "join"}
  /\ \A p \in Source : pc[p] = "done"
  /\ Goto(Main, IF pc[Main] = "finalize" THEN "clear" ELSE "last")
  /\ UNCHANGED <<table, ev, cur, ptx, todo, rm, left, reply, exitVal, inbox, queue,
                 clients, history>>

\* Listener::finalize waits a limited time for the listener thread, then the
\* process exits, and every thread with it.  When the stop pass failed (the
\* interrupt could not be sent) no End object is finalized.
MainExit ==
  /\ pc[Main] \in {"finalize", "last"}
  /\ pc' = [t \in Thread |-> "exit"]
  /\ UNCHANGED <<table, ev, cur, ptx, todo, rm, left, reply, exitVal, inbox, queue,
                 clients, history>>

---------------------------------------------------------------------------

Init ==
  /\ sessionMap = [s \in SessionId |-> NoClient]
  /\ nextSession = 0
  /\ subscribed = [b \in TimeBase |-> {}]
  /\ ev = [x \in Status |-> 0]
  /\ pc = [t \in Thread |-> IF t = Lst THEN "loop" ELSE IF t = Main THEN "wait" ELSE "idle"]
  /\ cur = [t \in Thread |-> 0]
  /\ ptx = [t \in Thread |-> NullTx]
  /\ todo = [t \in Thread |-> {}]
  /\ rm = [t \in Thread |-> {}]
  /\ left = [t \in Thread |-> {}]
  /\ reply = Disconnect
  /\ exitVal = FALSE
  /\ inbox = <<>>
  /\ queue = [c \in Client |-> <<>>]
  /\ linked = Client
  /\ up = [c \in Client |-> "up"]
  /\ csid = [c \in Client |-> InvalidSessionId]
  /\ sent = [c \in Client |-> 0]
  /\ owner = [s \in SessionId |-> NoClient]
  /\ informed = [s \in SessionId |-> {}]
  /\ fresh = [s \in SessionId |-> {}]
  /\ full = {}

ClientStep(c) ==
  \/ ClientConnect(c)
  \/ \E b \in TimeBase : ClientSubscribe(c, b)
  \/ ClientDisconnect(c)
  \/ ClientReceive(c)
  \/ ClientGone(c)

Remove(t) == RemoveFromMap(t) \/ RemoveFromBase(t)

ListenerWork ==
  \/ ListenerLoop
  \/ ListenerReconnect \/ ListenerConnect \/ ListenerSubscribe \/ ListenerDisconnect
  \/ ListenerInsert
  \/ ListenerRead("PTP", "readptp", "readsys")
  \/ ListenerRead("Sys", "readsys", "gettx")
  \/ ListenerGetTx \/ ListenerSend
  \/ Remove(Lst)

\* A publisher's own steps, once a report of its source has started it.
NotifyWork(p) ==
  \/ BeginScan(p) \/ ScanGetTx(p) \/ ScanSend(p) \/ EndScan(p)
  \/ Remove(p)

MainWork == Remove(Main) \/ MainStop \/ MainRemoveAll \/ MainJoin \/ MainExit

Next ==
  \/ ListenerWork \/ ListenerInterrupted
  \/ \E p \in Source : NotifyWork(p) \/ Publish(p) \/ PublisherStop(p)
  \/ MainWork \/ NotifyDisconnect
  \/ \E c \in Client : ClientStep(c)

Spec == Init /\ [][Next]_vars

\* The threads keep running.  Status reports, the stop signal and the clients
\* are not obliged to come, and the stop signal may miss a blocked receive.
Fairness ==
  /\ WF_vars(ListenerWork)
  /\ \A p \in Source : WF_vars(NotifyWork(p) \/ PublisherStop(p))
  /\ WF_vars(MainWork)

FairSpec == Spec /\ Fairness

---------------------------------------------------------------------------
(* Properties *)

\* Every variable keeps the type its declaration in client.cpp gives it, and
\* no queue exceeds its capacity.
TypeOK ==
  /\ sessionMap \in [SessionId -> Client \cup {NoClient}]
  /\ nextSession \in SessionId
  /\ subscribed \in [TimeBase -> SUBSET SessionId]
  /\ ev \in [Status -> Nat]
  /\ pc \in [Thread -> Label]
  /\ cur \in [Thread -> SessionId]
  /\ ptx \in [Thread -> SessionId \cup {NullTx, FreedTx}]
  /\ todo \in [Thread -> SUBSET SessionId]
  /\ rm \in [Thread -> SUBSET SessionId]
  /\ left \in [Thread -> SUBSET TimeBase]
  /\ reply \in Message
  /\ exitVal \in BOOLEAN
  /\ inbox \in Seq(Request) /\ Len(inbox) <= ProxyDepth
  /\ queue \in [Client -> Seq(Message)]
  /\ \A c \in Client : Len(queue[c]) <= Depth
  /\ linked \subseteq Client
  /\ up \in [Client -> {"up", "closing", "gone"}]
  /\ csid \in [Client -> SessionId \cup {InvalidSessionId}]
  /\ sent \in [Client -> Nat]
  /\ owner \in [SessionId -> Client \cup {NoClient}]
  /\ informed \in [SessionId -> SUBSET Status]
  /\ fresh \in [SessionId -> SUBSET Status]
  /\ full \subseteq SessionId

\* Every id of the mask was given out at least once.  In the daemon this takes
\* 32768 sessions.
Wrapped == \A s \in SessionId : owner[s] # NoClient

\* Until the ids wrap around, a session id held by a client, if the session
\* exists at all, is that client's own session: a client that was dropped
\* without knowing it never acts on another client's session, and the CONNECT
\* reply of one client never reaches another, whatever the publishers and the
\* main thread remove meanwhile.
OwnSession ==
  ~Wrapped => \A c \in Client : csid[c] \in Live => sessionMap[csid[c]] = c

\* Also after a wrap, CreateClientSession never gives a session that is in use
\* to another client: a session changes hands only by being removed first.
SessionNeverStolen ==
  [][\A s \in Live : sessionMap'[s] \in {sessionMap[s], NoClient}]_vars

\* A publisher that is not working on a notification round.
AtRest(p) == p \notin Source \/ pc[p] \in {"idle", "done"}

\* The listener is answering a subscription of session s to time base b.
Answering(s, b) ==
  /\ pc[Lst] \in {"readptp", "readsys", "gettx", "send"}
  /\ reply.type = "SUBSCRIBE" /\ reply.sid = s /\ reply.tb = b

\* No status is lost between a notification round and a subscription: once the
\* publisher of a source is done and the subscriber has been answered, every
\* live subscriber was sent the current status.  The subscription is entered
\* before the reply reads the event, so a change that misses the subscriber in
\* notifyClients is in the reply.  (When the reply itself cannot be sent the
\* listener thread ends, and this promise with it.)
NoLostStatus ==
  ~Wrapped /\ pc[Lst] # "dead" =>
    \A x \in Status : \A s \in subscribed[x[1]] \cap Live :
      AtRest(x) /\ ~Answering(s, x[1]) => x \in informed[s]

\* The proxy drops a session only because its client left, because its queue
\* was full when something was sent to it, or because the proxy is stopping.
OnlySlowClientsDropped ==
  ~Wrapped /\ pc[Main] = "wait" =>
    \A s \in SessionId :
      owner[s] # NoClient /\ s \notin Live => up[owner[s]] # "up" \/ s \in full

\* A subscription whose session is gone (subscribe checks the session under one
\* lock and enters it under another, so it can come back after removeClient
\* passed) is found by the next notification round and removed, and the
\* removal gets its exclusive locks.  (Not
\* when the process ends, or the listener spins with sessionMapLock held.)
DeadSubscriptionDropped ==
  \A p \in Source, s \in SessionId :
    (s \in todo[p] /\ s \notin Live)
      ~> (s \notin subscribed[p[1]] \/ s \in Live \/ ~Running \/ ~MapFree)

\* When the main thread has begun to say goodbye, the process ends: the locks
\* it needs are released, and the publisher threads it joins get theirs, finish
\* and see the stop flag.  The one exception is a listener that spins for a
\* free session id with sessionMapLock held.
ShutdownEnds == pc[Main] # "wait" ~> (~Running \/ ~MapFree)

---------------------------------------------------------------------------
(* What the documents say and the code does not do *)

\* The status a subscribed client was sent last is the current one (HLD: the
\* client library lets applications "obtain real-time ptp4l and chronyd
\* synchronization status").  Violated: the listener builds the subscribe
\* reply before it sends it, and a notification can be sent in between.
LastStatusIsCurrent ==
  ~Wrapped /\ pc[Lst] # "dead" =>
    \A x \in Status : \A s \in subscribed[x[1]] \cap Live :
      AtRest(x) /\ ~Answering(s, x[1]) => x \in fresh[s]

\* "Notify disconnect to ALL subscribed clients" (client.cpp): once the main
\* thread is past notifyDisconnect, every subscribed session was told and
\* removed.  Violated: the listener still serves requests, so a client can
\* connect and subscribe after the loop over the sessions.
GoodbyeToAll ==
  pc[Main] \in {"stop", "finalize"} => \A b \in TimeBase : subscribed[b] \cap Live = {}

=============================================================================
