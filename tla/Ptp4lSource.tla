---------------------------- MODULE Ptp4lSource ----------------------------
(***************************************************************************)
(* The proxy's thread for one ptp4l instance (clkmgr/proxy/                *)
(* connect_ptp4l.cpp): it subscribes to events of ptp4l, turns the         *)
(* messages it receives into a ptp_event, publishes every change (copy()   *)
(* and notifyClients, whose notification round is the subject of           *)
(* ProxyClients), and looks for a lost connection when nothing comes for a *)
(* second.                                                                 *)
(*                                                                         *)
(* ptp4l is the environment: it changes state, answers requests in order,  *)
(* and starts and ends at any time.  A time receiver has reported its      *)
(* grandmaster (NOTIFY_TIME_SYNC) before it reports to be one.  An offset  *)
(* is 0 (none) or 1 (a sample).  The seven port states that only reset the *)
(* port's data are one, "OTHER"; states ptp4l does not report are left out. *)
(***************************************************************************)
EXTENDS Integers, Sequences

CONSTANTS
  Own, Foreign, NoGm,  \* the clock itself, another grandmaster, none (0)
  LogSyncInterval,     \* ptp4l's logSyncInterval
  MaxReq,              \* requests ptp4l's socket holds; a sender blocks on it
  MaxRx,               \* bound: messages from ptp4l on their way
  MaxChange,           \* bound: changes of ptp4l's state
  MaxRestart           \* bound: times ptp4l starts

ASSUME ConstantsAssumption ==
  /\ Own # Foreign /\ Own # NoGm /\ Foreign # NoGm
  /\ LogSyncInterval \in -128 .. 127
  /\ MaxReq \in Nat /\ MaxReq >= 4
  /\ MaxRx \in Nat /\ MaxChange \in Nat /\ MaxRestart \in Nat

Port == {"OTHER", "MASTER", "SLAVE"}
Get == {"TIME_STATUS_NP", "PORT_DATA_SET", "LOG_SYNC_INTERVAL"}
Tlv == Get \cup {"CMLDS_INFO_NP"}
Gm == {Own, Foreign, NoGm}
\* A message: a TLV, and what it carries of ptp4l's state when it was sent.
Message == [tlv : Tlv, port : Port, gm : Gm, capable : BOOLEAN]

\* pow(2.0, log) * USEC_PER_SEC, as an integer.
SyncInterval(log) ==
  IF log >= 0 THEN 1000000 * 2 ^ log ELSE 1000000 \div 2 ^ (-log)

ptp_event == [clockOffset : 0 .. 1, gmClockUUID : Gm,
              syncInterval : {0, SyncInterval(LogSyncInterval)},
              asCapable : BOOLEAN, syncedWithGm : BOOLEAN]
NoEvent == [clockOffset |-> 0, gmClockUUID |-> NoGm, syncInterval |-> 0,
            asCapable |-> FALSE, syncedWithGm |-> FALSE]

VARIABLES
  up, port, gm, capable,  \* ptp4l: whether it runs, and its state
  subscribed,             \* ptp4l has the thread's subscription
  req,                    \* requests to ptp4l on their way
  rx,                     \* messages from ptp4l on their way
  change, restart,        \* changes and starts so far: bound the model
  pc,                     \* the thread
  msg,                    \* the message parsed last
  event, gmIdentity, need_set_action, lost_connection,
  stored,                 \* timeBaseDataMap's ptpEvent, which clients are sent
  stopThread,
  heard                   \* history: the port state in the last PORT_DATA_SET

ptp4l == <<up, port, gm, capable, subscribed, change, restart>>
vars == <<ptp4l, req, rx, pc, msg, event, gmIdentity, need_set_action,
          lost_connection, stored, stopThread, heard>>

---------------------------------------------------------------------------
(* ptp4l *)

\* What ptp4l reports by tlv in the state it is about to be in: a TLV carries the
\* port state, the grandmaster or the capability.
Report(tlv) == [tlv |-> tlv,
                port |-> IF tlv = "PORT_DATA_SET" THEN port' ELSE "OTHER",
                gm |-> IF tlv = "TIME_STATUS_NP" THEN gm' ELSE NoGm,
                capable |-> tlv = "CMLDS_INFO_NP" /\ capable']

\* Send reports to a subscriber.
Notify(tlvs) ==
  rx' = IF subscribed THEN rx \o [i \in 1 .. Len(tlvs) |-> Report(tlvs[i])] ELSE rx

Change ==
  /\ up /\ change < MaxChange /\ Len(rx) < MaxRx
  /\ change' = change + 1
  /\ UNCHANGED <<up, subscribed, restart, req, pc, msg, event, gmIdentity,
                 need_set_action, lost_connection, stored, stopThread, heard>>

PortChange(s) ==
  /\ Change
  /\ s # port /\ port' = s
  /\ gm' = CASE s = "MASTER" -> Own [] s = "SLAVE" -> Foreign [] s = "OTHER" -> gm
  /\ UNCHANGED capable
  /\ Notify(IF s = "SLAVE" THEN <<"TIME_STATUS_NP", "PORT_DATA_SET">>
                           ELSE <<"PORT_DATA_SET">>)

CapableChange ==
  /\ Change
  /\ capable' = ~capable
  /\ UNCHANGED <<port, gm>>
  /\ Notify(<<"CMLDS_INFO_NP">>)

\* A synchronisation of a time receiver.
TimeSync ==
  /\ Change
  /\ port = "SLAVE"
  /\ UNCHANGED <<port, gm, capable>>
  /\ Notify(<<"TIME_STATUS_NP">>)

\* ptp4l takes the next request.  (Its response to a subscription has no callback.)
Answer ==
  /\ up /\ req # <<>>
  /\ req' = Tail(req)
  /\ UNCHANGED <<up, port, gm, capable, change, restart>>
  /\ \/ Head(req) = "SUBSCRIBE_EVENTS_NP" /\ subscribed' = TRUE /\ UNCHANGED rx
     \/ /\ Head(req) \in Get
        /\ rx' = Append(rx, Report(Head(req))) /\ UNCHANGED subscribed
  /\ UNCHANGED <<pc, msg, event, gmIdentity, need_set_action, lost_connection,
                 stored, stopThread, heard>>

Start ==
  /\ ~up /\ restart < MaxRestart
  /\ up' = TRUE /\ restart' = restart + 1
  /\ port' = "OTHER" /\ gm' = NoGm /\ capable' = FALSE
  /\ UNCHANGED <<subscribed, change, req, rx, pc, msg, event, gmIdentity,
                 need_set_action, lost_connection, stored, stopThread, heard>>

End ==
  /\ up /\ up' = FALSE
  /\ subscribed' = FALSE /\ req' = <<>>
  /\ UNCHANGED <<port, gm, capable, change, restart, rx, pc, msg, event, gmIdentity,
                 need_set_action, lost_connection, stored, stopThread, heard>>

\* ConnectSrv::stop, from the main thread.
Stop ==
  /\ ~stopThread /\ stopThread' = TRUE
  /\ UNCHANGED <<ptp4l, req, rx, pc, msg, event, gmIdentity, need_set_action,
                 lost_connection, stored, heard>>

---------------------------------------------------------------------------
(* The callbacks *)

\* static_cast<Integer8_t>.
Integer8(n) == IF n % 256 < 128 THEN n % 256 ELSE (n % 256) - 256

\* ptpEvent::portDataClear.
portDataClear(e) ==
  [e EXCEPT !.clockOffset = 0, !.syncInterval = 0, !.syncedWithGm = FALSE]

\* Mutant: the socket takes any number of requests.
SendUnbounded(id) ==
  \/ up /\ req' = Append(req, id)
  \/ ~up /\ UNCHANGED req

\* sendto blocks while ptp4l's socket is full, and fails when there is none.
Send(id) ==
  \/ up /\ Len(req) < MaxReq /\ req' = Append(req, id)
  \/ ~up /\ UNCHANGED req

\* Each callback ends in do_notify, whether the event is to be published.
Done(do_notify) == pc' = IF do_notify THEN "publish" ELSE "poll"

TIME_STATUS_NP_h ==
  /\ event' = [event EXCEPT !.clockOffset = 1, !.gmClockUUID = msg.gm]
  /\ gmIdentity' = msg.gm
  /\ UNCHANGED <<need_set_action, heard>>
  /\ Done(TRUE)

LOG_SYNC_INTERVAL_h ==
  LET differs == Integer8(event.syncInterval) # LogSyncInterval IN
  /\ event' = IF differs
              THEN [event EXCEPT !.syncInterval = SyncInterval(LogSyncInterval)]
              ELSE event
  /\ UNCHANGED <<gmIdentity, need_set_action, heard>>
  /\ Done(differs)

\* Mutant: the capability is stored without publishing it.
CMLDS_INFO_NP_hSilent ==
  /\ event' = [event EXCEPT !.asCapable = msg.capable]
  /\ UNCHANGED <<gmIdentity, need_set_action, heard>>
  /\ Done(FALSE)

\* (A report without port number is ignored; ptp4l's reports have one.)
CMLDS_INFO_NP_h ==
  /\ event' = [event EXCEPT !.asCapable = msg.capable]
  /\ UNCHANGED <<gmIdentity, need_set_action, heard>>
  /\ Done(event.asCapable # msg.capable)

\* Mutant: a new master keeps the data of the time receiver it was.
MasterEventKept(e) == [e EXCEPT !.gmClockUUID = Own]

MasterEvent(e) == [portDataClear(e) EXCEPT !.gmClockUUID = Own]

PORT_DATA_SET_h ==
  /\ heard' = msg.port
  /\ \/ /\ msg.port = "OTHER"
        /\ event' = portDataClear(event) /\ need_set_action' = TRUE
        /\ UNCHANGED gmIdentity /\ Done(TRUE)
     \/ /\ msg.port = "MASTER" /\ gmIdentity = Own
        /\ UNCHANGED <<event, gmIdentity, need_set_action>> /\ Done(FALSE)
     \/ /\ msg.port = "MASTER" /\ gmIdentity # Own
        /\ event' = MasterEvent(event)
        /\ gmIdentity' = Own
        /\ need_set_action' = FALSE /\ pc' = "request"
     \/ /\ msg.port = "SLAVE"
        /\ event' = [event EXCEPT !.syncedWithGm = TRUE]
        /\ need_set_action' = FALSE
        /\ pc' = IF need_set_action THEN "request" ELSE "publish"
        /\ UNCHANGED gmIdentity

---------------------------------------------------------------------------
(* The thread *)

\* Mutant: no test of stopThread in the loop that waits for ptp4l to come back.
ThreadEndsNotRetry ==
  /\ pc \in {"start", "poll", "handle", "publish", "publishLost"}
  /\ stopThread /\ pc' = "done"
  /\ UNCHANGED <<ptp4l, req, rx, msg, event, gmIdentity, need_set_action,
                 lost_connection, stored, stopThread, heard>>

\* Return on stopThread.
ThreadEnds ==
  /\ pc \in {"start", "poll", "handle", "publish", "publishLost", "retry"}
  /\ stopThread /\ pc' = "done"
  /\ UNCHANGED <<ptp4l, req, rx, msg, event, gmIdentity, need_set_action,
                 lost_connection, stored, stopThread, heard>>

\* Where the thread is once a test of stopThread has let it pass; what follows the
\* test is a step of its own, as the main thread may stop it in between.
Tested ==
  [start |-> "connect", handle |-> "callback", publish |-> "copy",
   publishLost |-> "copyLost", retry |-> "subscribe"]

GoOn ==
  /\ pc \in DOMAIN Tested /\ ~stopThread
  /\ pc' = Tested[pc]
  /\ UNCHANGED <<ptp4l, req, rx, msg, event, gmIdentity, need_set_action,
                 lost_connection, stored, stopThread, heard>>

\* thread_loop before its loop.
ThreadStarts ==
  /\ pc = "connect" /\ pc' = "poll"
  /\ \/ up /\ UNCHANGED lost_connection
        /\ req' = req \o <<"SUBSCRIBE_EVENTS_NP", "TIME_STATUS_NP", "PORT_DATA_SET",
                           "LOG_SYNC_INTERVAL">>
     \/ ~up /\ lost_connection' = TRUE /\ UNCHANGED req
  /\ UNCHANGED <<ptp4l, rx, msg, event, gmIdentity, need_set_action, stored,
                 stopThread, heard>>

\* poll, the test of stopThread, rcv and parse.
Receive ==
  /\ pc = "poll" /\ ~stopThread /\ rx # <<>>
  /\ msg' = Head(rx) /\ rx' = Tail(rx)
  /\ pc' = "handle"
  /\ UNCHANGED <<ptp4l, req, event, gmIdentity, need_set_action, lost_connection,
                 stored, stopThread, heard>>

\* callHadler: the callback of the message.
event_handle ==
  /\ pc = "callback"
  /\ \/ msg.tlv = "TIME_STATUS_NP" /\ TIME_STATUS_NP_h
     \/ msg.tlv = "PORT_DATA_SET" /\ PORT_DATA_SET_h
     \/ msg.tlv = "LOG_SYNC_INTERVAL" /\ LOG_SYNC_INTERVAL_h
     \/ msg.tlv = "CMLDS_INFO_NP" /\ CMLDS_INFO_NP_h
  /\ UNCHANGED <<ptp4l, req, rx, msg, lost_connection, stored, stopThread>>

\* msg_set_action(LOG_SYNC_INTERVAL) in the middle of PORT_DATA_SET_h.
Request ==
  /\ pc = "request" /\ pc' = "publish"
  /\ Send("LOG_SYNC_INTERVAL")
  /\ UNCHANGED <<ptp4l, rx, msg, event, gmIdentity, need_set_action, lost_connection,
                 stored, stopThread, heard>>

\* event.copy() and notifyClients.
Publish ==
  /\ pc \in {"copy", "copyLost"}
  /\ stored' = event
  /\ pc' = IF pc = "copy" THEN "poll" ELSE "retry"
  /\ UNCHANGED <<ptp4l, req, rx, msg, event, gmIdentity, need_set_action,
                 lost_connection, stopThread, heard>>

\* Mutant: a silent ptp4l is waited for, without asking it.
PollTimeoutWaits ==
  /\ pc = "poll" /\ ~stopThread /\ rx = <<>> /\ pc' = "poll"
  /\ UNCHANGED <<ptp4l, req, rx, msg, event, gmIdentity, need_set_action,
                 lost_connection, stored, stopThread, heard>>

\* poll's timeout: subscribe again, to see whether ptp4l is there.
PollTimeout ==
  /\ pc = "poll" /\ ~stopThread /\ rx = <<>> /\ pc' = "retry"
  /\ UNCHANGED <<ptp4l, req, rx, msg, event, gmIdentity, need_set_action,
                 lost_connection, stored, stopThread, heard>>

RetrySucceeds ==
  /\ pc = "subscribe" /\ up /\ Send("SUBSCRIBE_EVENTS_NP")
  /\ lost_connection' = FALSE
  /\ pc' = "poll"
  /\ UNCHANGED <<ptp4l, rx, msg, event, gmIdentity, need_set_action, stored,
                 stopThread, heard>>

\* Mutant: the loss of the connection keeps the last data.
portResetKept == UNCHANGED event

portReset == event' = NoEvent

\* The connection is lost: reset, publish, and go on trying.
RetryLoses ==
  /\ pc = "subscribe" /\ ~up /\ ~lost_connection
  /\ portReset /\ need_set_action' = TRUE
  /\ lost_connection' = TRUE
  /\ pc' = "publishLost"
  /\ UNCHANGED <<ptp4l, req, rx, msg, gmIdentity, stored, stopThread, heard>>

\* Still lost: sleep and try again.
RetryFails ==
  /\ pc = "subscribe" /\ ~up /\ lost_connection /\ pc' = "retry"
  /\ UNCHANGED <<ptp4l, req, rx, msg, event, gmIdentity, need_set_action,
                 lost_connection, stored, stopThread, heard>>

---------------------------------------------------------------------------

\* gmIdentity is not initialised: it may hold anything.
Init ==
  /\ up \in BOOLEAN /\ port = "OTHER" /\ gm = NoGm /\ capable = FALSE
  /\ subscribed = FALSE /\ req = <<>> /\ rx = <<>>
  /\ change = 0 /\ restart = 0
  /\ pc = "start"
  /\ msg = [tlv |-> "PORT_DATA_SET", port |-> "OTHER", gm |-> NoGm, capable |-> FALSE]
  /\ event = NoEvent /\ stored = NoEvent
  /\ gmIdentity \in Gm
  /\ need_set_action = FALSE /\ lost_connection = FALSE
  /\ stopThread = FALSE
  /\ heard = "OTHER"

Daemon ==
  (\E s \in Port : PortChange(s)) \/ CapableChange \/ TimeSync \/ Answer \/ Start \/ End

Thread ==
  \/ ThreadEnds \/ GoOn \/ ThreadStarts \/ Receive \/ event_handle \/ Publish
  \/ Request \/ PollTimeout \/ RetrySucceeds \/ RetryLoses \/ RetryFails

Next == Daemon \/ Stop \/ Thread

Spec == Init /\ [][Next]_vars

\* The thread runs, and a ptp4l that runs takes its requests.  It owes no reports.
FairSpec == Spec /\ WF_vars(Thread) /\ WF_vars(Answer)

---------------------------------------------------------------------------
(* Properties *)

\* Types of ptpSet's members and of what is on its way.
TypeOK ==
  /\ up \in BOOLEAN /\ port \in Port /\ gm \in Gm /\ capable \in BOOLEAN
  /\ subscribed \in BOOLEAN
  /\ req \in Seq(Get \cup {"SUBSCRIBE_EVENTS_NP"}) /\ Len(req) <= MaxReq
  /\ rx \in Seq(Message)
  /\ change \in Nat /\ restart \in Nat
  /\ pc \in {"start", "connect", "poll", "handle", "callback", "request", "publish",
             "copy", "publishLost", "copyLost", "retry", "subscribe", "done"}
  /\ msg \in Message
  /\ event \in ptp_event /\ stored \in ptp_event
  /\ gmIdentity \in Gm
  /\ need_set_action \in BOOLEAN /\ lost_connection \in BOOLEAN
  /\ stopThread \in BOOLEAN
  /\ heard \in Port

\* While the connection is lost clients are told so: no data of the lost ptp4l
\* stay published (thread_loop's portReset and copy).
LostIsEmpty ==
  lost_connection /\ pc \in {"poll", "retry", "subscribe"} => stored = NoEvent

Source == INSTANCE TimeSource WITH
  Data <- ptp_event, Empty <- NoEvent,
  known <- IF pc = "done" THEN stored ELSE event,
  told <- stored,
  lost <- lost_connection /\ pc # "done",
  phase <- IF pc = "done" THEN "ended"
           ELSE IF ~stopThread THEN "running"
           ELSE IF pc \in {"connect", "callback", "copy", "copyLost", "subscribe"}
           THEN "last" ELSE "stopping"

\* The thread is a time source: although each callback decides on its own whether
\* to notify, no change of the event is left unpublished when the next message is
\* handled; the loss of ptp4l is published before it is talked to again; a thread
\* that is asked to end handles, publishes or tries at most what it is about to, and
\* publishes nothing once it has ended (thread_loop and the callbacks).
IsTimeSource == Source!Spec

\* The published status is synchronised only if the port's last reported state
\* is time receiver: whatever the order of port states, time reports and losses
\* of the connection, no other state leaves syncedWithGm behind.
SyncedOnlyAsSlave ==
  pc \in {"poll", "retry", "subscribe"} /\ stored.syncedWithGm => heard = "SLAVE"

\* A ptp4l that is gone is noticed, unless it comes back or the thread is stopped.
LossNoticed ==
  ~up /\ pc = "poll" ~> (lost_connection \/ up \/ stopThread)

\* The thread ends when it is asked to: ConnectSrv::finalize joins it.
StopEnds == stopThread ~> pc = "done"

\* ptp4l and the thread wait for each other, with nothing on its way.
Settled ==
  /\ up /\ subscribed /\ req = <<>> /\ rx = <<>> /\ pc = "poll"
  /\ ~lost_connection /\ ~stopThread

\* HLD_clkmgr.md: "Synced with GM - A binary event indicates whether the port
\* state is a time receiver."
SyncedIsCurrent == Settled => (stored.syncedWithGm <=> port = "SLAVE")

\* event.h, getSyncInterval: "Get the synchronization interval in microsecond":
\* once ptp4l has answered LOG_SYNC_INTERVAL and nothing has reset the port.
SyncIntervalIsCurrent ==
  pc = "poll" /\ msg.tlv = "LOG_SYNC_INTERVAL" =>
    stored.syncInterval = SyncInterval(LogSyncInterval)

\* The same, of a port that reported to be master or time receiver.
SyncIntervalIsKnown ==
  Settled /\ heard \in {"MASTER", "SLAVE"} => stored.syncInterval # 0

===========================================================================
