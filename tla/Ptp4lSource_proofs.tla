------------------------- MODULE Ptp4lSource_proofs -------------------------
(***************************************************************************)
(* Proofs about Ptp4lSource, for every capacity of ptp4l's socket, every   *)
(* logSyncInterval and any number of changes and restarts.                 *)
(***************************************************************************)
EXTENDS Ptp4lSource, TLAPS

PcType == {"start", "connect", "poll", "handle", "callback", "request", "publish",
           "copy", "publishLost", "copyLost", "retry", "subscribe", "done"}

\* TypeOK, in groups that different actions change.
DaemonType ==
  /\ up \in BOOLEAN /\ port \in Port /\ gm \in Gm /\ capable \in BOOLEAN
  /\ subscribed \in BOOLEAN /\ change \in Nat /\ restart \in Nat
ReqType == req \in Seq(Get \cup {"SUBSCRIBE_EVENTS_NP"}) /\ Len(req) <= MaxReq
RxType == rx \in Seq(Message)
ThreadType ==
  /\ pc \in PcType /\ msg \in Message
  /\ event \in ptp_event /\ stored \in ptp_event
  /\ gmIdentity \in Gm
  /\ need_set_action \in BOOLEAN /\ lost_connection \in BOOLEAN
  /\ stopThread \in BOOLEAN
  /\ heard \in Port

\* A thread that starts has asked nothing, and nothing has reached it.
Fresh == req = <<>> /\ rx = <<>> /\ ~subscribed

\* The inductive invariant: what is published, and that a connection is only lost
\* where no message is on its way that could change the event.
PublishInv ==
  /\ pc \in {"start", "connect", "poll", "handle", "callback", "retry", "subscribe"} =>
       stored = event
  /\ pc \in {"start", "connect"} => Fresh /\ ~lost_connection /\ event = NoEvent
  /\ pc = "poll" /\ lost_connection => Fresh
  /\ lost_connection => pc \notin {"handle", "callback", "request", "publish", "copy"}
  /\ lost_connection => event = NoEvent

IInv == DaemonType /\ ReqType /\ RxType /\ ThreadType /\ PublishInv

LEMMA NoEventType == NoEvent \in ptp_event
  BY DEF NoEvent, ptp_event, Gm

LEMMA PortDataClearType ==
  ASSUME NEW e \in ptp_event
  PROVE  portDataClear(e) \in ptp_event /\ ~portDataClear(e).syncedWithGm
<1> DEFINE I == {0, SyncInterval(LogSyncInterval)}
           R == [clockOffset : 0 .. 1, gmClockUUID : Gm, syncInterval : I,
                 asCapable : BOOLEAN, syncedWithGm : BOOLEAN]
<1>1. e \in R /\ 0 \in I
  BY DEF ptp_event
<1> HIDE DEF I
<1> DEFINE e1 == [e EXCEPT !.clockOffset = 0]
           e2 == [e1 EXCEPT !.syncInterval = 0]
           e3 == [e2 EXCEPT !.syncedWithGm = FALSE]
<1>2. portDataClear(e) = e3
  BY Zenon DEF portDataClear
<1>3. e1 \in R
  BY <1>1
<1> HIDE DEF e1
<1>4. e2 \in R
  BY <1>1, <1>3
<1> HIDE DEF e2
<1>5. e3 \in R /\ ~e3.syncedWithGm
  BY <1>4
<1> QED
  BY <1>2, <1>5 DEF ptp_event, I

LEMMA InitIInv == Init => IInv
<1> SUFFICES ASSUME Init PROVE IInv
  OBVIOUS
<1>1. DaemonType
  BY DEF Init, DaemonType, Port, Gm
<1>2. ReqType /\ RxType
  BY ConstantsAssumption DEF Init, ReqType, RxType
<1>3. ThreadType
  <2>1. msg \in Message
    BY DEF Init, Message, Tlv, Get, Port, Gm
  <2> QED
    BY <2>1, NoEventType DEF Init, ThreadType, PcType, Port
<1>4. PublishInv
  BY DEF Init, PublishInv, Fresh
<1> QED
  BY <1>1, <1>2, <1>3, <1>4 DEF IInv

\* A report has the form of a message.
LEMMA ReportType ==
  ASSUME port' \in Port, gm' \in Gm, capable' \in BOOLEAN, NEW t \in Tlv
  PROVE  Report(t) \in Message
<1>1. (IF t = "PORT_DATA_SET" THEN port' ELSE "OTHER") \in Port
  BY DEF Port
<1>2. (IF t = "TIME_STATUS_NP" THEN gm' ELSE NoGm) \in Gm
  BY DEF Gm
<1>3. (t = "CMLDS_INFO_NP" /\ capable') \in BOOLEAN
  OBVIOUS
<1> QED
  BY <1>1, <1>2, <1>3, Zenon DEF Report, Message

\* What ptp4l sends to a subscriber.
LEMMA NotifyType ==
  ASSUME RxType, port' \in Port, gm' \in Gm, capable' \in BOOLEAN,
         NEW tlvs \in Seq(Tlv), Notify(tlvs)
  PROVE  RxType' /\ (~subscribed => rx' = rx)
<1>1. \A t \in Tlv : Report(t) \in Message
  BY ReportType
<1>2. [i \in 1 .. Len(tlvs) |-> Report(tlvs[i])] \in Seq(Message)
  <2>1. \A i \in 1 .. Len(tlvs) : Report(tlvs[i]) \in Message
    BY <1>1
  <2> QED
    BY <2>1
<1> QED
  BY <1>2 DEF Notify, RxType

LEMMA DaemonIInv == IInv /\ Daemon => IInv'
<1> SUFFICES ASSUME IInv, Daemon PROVE IInv'
  OBVIOUS
<1> USE DEF IInv
<1>1. ASSUME NEW s \in Port, PortChange(s) PROVE IInv'
  <2>1. DaemonType' /\ UNCHANGED subscribed
    BY <1>1 DEF PortChange, Change, DaemonType, Port, Gm
  <2>2. \E tlvs \in Seq(Tlv) : Notify(tlvs)
    <3>1. <<"TIME_STATUS_NP", "PORT_DATA_SET">> \in Seq(Tlv) /\ <<"PORT_DATA_SET">> \in Seq(Tlv)
      BY DEF Tlv, Get
    <3>2. CASE s = "SLAVE"
      BY <1>1, <3>1, <3>2 DEF PortChange
    <3>3. CASE s # "SLAVE"
      BY <1>1, <3>1, <3>3 DEF PortChange
    <3> QED
      BY <3>2, <3>3
  <2>3. RxType' /\ (~subscribed => rx' = rx)
    BY <2>1, <2>2, NotifyType DEF DaemonType
  <2>4. ReqType' /\ ThreadType'
    BY <1>1 DEF PortChange, Change, ReqType, ThreadType
  <2>5. PublishInv'
    BY <1>1, <2>3 DEF PortChange, Change, PublishInv, Fresh
  <2> QED
    BY <2>1, <2>3, <2>4, <2>5
<1>2. CASE CapableChange
  <2>1. DaemonType' /\ UNCHANGED subscribed
    BY <1>2 DEF CapableChange, Change, DaemonType
  <2>2. <<"CMLDS_INFO_NP">> \in Seq(Tlv) /\ Notify(<<"CMLDS_INFO_NP">>)
    BY <1>2 DEF CapableChange, Tlv
  <2>3. RxType' /\ (~subscribed => rx' = rx)
    BY <2>1, <2>2, NotifyType, SMTT(40) DEF DaemonType
  <2>4. ReqType' /\ ThreadType'
    BY <1>2 DEF CapableChange, Change, ReqType, ThreadType
  <2>5. PublishInv'
    BY <1>2, <2>3 DEF CapableChange, Change, PublishInv, Fresh
  <2> QED
    BY <2>1, <2>3, <2>4, <2>5
<1>3. CASE TimeSync
  <2>1. DaemonType' /\ UNCHANGED subscribed
    BY <1>3 DEF TimeSync, Change, DaemonType
  <2>2. <<"TIME_STATUS_NP">> \in Seq(Tlv) /\ Notify(<<"TIME_STATUS_NP">>)
    BY <1>3 DEF TimeSync, Tlv, Get
  <2>3. RxType' /\ (~subscribed => rx' = rx)
    BY <2>1, <2>2, NotifyType, SMTT(40) DEF DaemonType
  <2>4. ReqType' /\ ThreadType'
    BY <1>3 DEF TimeSync, Change, ReqType, ThreadType
  <2>5. PublishInv'
    BY <1>3, <2>3 DEF TimeSync, Change, PublishInv, Fresh
  <2> QED
    BY <2>1, <2>3, <2>4, <2>5
<1>4. CASE Answer
  <2>1. DaemonType' /\ ThreadType'
    BY <1>4 DEF Answer, DaemonType, ThreadType
  <2>2. ReqType'
    <3>1. req # <<>> /\ req' = Tail(req)
      BY <1>4 DEF Answer
    <3>2. Tail(req) \in Seq(Get \cup {"SUBSCRIBE_EVENTS_NP"}) /\ Len(Tail(req)) = Len(req) - 1
      BY <3>1 DEF ReqType
    <3>3. Len(req) \in Nat
      BY DEF ReqType
    <3> QED
      BY <3>1, <3>2, <3>3, ConstantsAssumption DEF ReqType
  <2>3. RxType'
    <3>1. \A t \in Get : Report(t) \in Message
      BY <2>1, ReportType DEF DaemonType, Tlv
    <3> QED
      <4>1. CASE UNCHANGED rx
        BY <4>1 DEF RxType
      <4>2. CASE Head(req) \in Get /\ rx' = Append(rx, Report(Head(req)))
        BY <3>1, <4>2 DEF RxType
      <4> QED
        BY <1>4, <4>1, <4>2 DEF Answer
  <2>4. PublishInv'
    BY <1>4 DEF Answer, PublishInv, Fresh
  <2> QED
    BY <2>1, <2>2, <2>3, <2>4
<1>5. CASE Start
  <2>1. DaemonType'
    <3>1. restart' \in Nat
      BY <1>5 DEF Start, DaemonType
    <3>2. port' \in Port /\ gm' \in Gm
      BY <1>5 DEF Start, Port, Gm
    <3> QED
      BY <1>5, <3>1, <3>2 DEF Start, DaemonType
  <2>2. ReqType' /\ RxType' /\ ThreadType'
    BY <1>5 DEF Start, ReqType, RxType, ThreadType
  <2>3. PublishInv'
    BY <1>5 DEF Start, PublishInv, Fresh
  <2> QED
    BY <2>1, <2>2, <2>3
<1>6. CASE End
  <2>1. DaemonType' /\ RxType' /\ ThreadType'
    BY <1>6 DEF End, DaemonType, RxType, ThreadType
  <2>2. ReqType'
    BY <1>6, ConstantsAssumption DEF End, ReqType
  <2>3. PublishInv'
    BY <1>6 DEF End, PublishInv, Fresh
  <2> QED
    BY <2>1, <2>2, <2>3
<1> QED
  BY <1>1, <1>2, <1>3, <1>4, <1>5, <1>6 DEF Daemon

LEMMA StopIInv == IInv /\ Stop => IInv'
<1> SUFFICES ASSUME IInv, Stop PROVE IInv'
  OBVIOUS
<1>1. UNCHANGED <<ptp4l, req, rx, pc, msg, event, gmIdentity, need_set_action,
                  lost_connection, stored, heard>> /\ stopThread' = TRUE
  BY DEF Stop
<1>2. DaemonType' /\ ReqType' /\ RxType' /\ ThreadType'
  BY <1>1 DEF IInv, ptp4l, DaemonType, ReqType, RxType, ThreadType
<1>3. PublishInv'
  BY <1>1 DEF IInv, ptp4l, PublishInv, Fresh
<1> QED
  BY <1>2, <1>3 DEF IInv

\* Each field can be set on its own.
LEMMA EventExcept ==
  ASSUME NEW e \in ptp_event
  PROVE  /\ \A o \in 0 .. 1 : [e EXCEPT !.clockOffset = o] \in ptp_event
         /\ \A g \in Gm : [e EXCEPT !.gmClockUUID = g] \in ptp_event
         /\ \A i \in {0, SyncInterval(LogSyncInterval)} :
              [e EXCEPT !.syncInterval = i] \in ptp_event
         /\ \A b \in BOOLEAN : [e EXCEPT !.asCapable = b] \in ptp_event
         /\ \A b \in BOOLEAN : [e EXCEPT !.syncedWithGm = b] \in ptp_event
<1>1. ASSUME NEW o \in 0 .. 1 PROVE [e EXCEPT !.clockOffset = o] \in ptp_event
  BY DEF ptp_event
<1>2. ASSUME NEW g \in Gm PROVE [e EXCEPT !.gmClockUUID = g] \in ptp_event
  BY DEF ptp_event
<1>3. ASSUME NEW i \in {0, SyncInterval(LogSyncInterval)}
      PROVE  [e EXCEPT !.syncInterval = i] \in ptp_event
  BY DEF ptp_event
<1>4. ASSUME NEW b \in BOOLEAN PROVE [e EXCEPT !.asCapable = b] \in ptp_event
  BY DEF ptp_event
<1>5. ASSUME NEW b \in BOOLEAN PROVE [e EXCEPT !.syncedWithGm = b] \in ptp_event
  BY DEF ptp_event
<1> QED
  BY <1>1, <1>2, <1>3, <1>4, <1>5, Zenon

\* A capability that does not change leaves the event as it is.
LEMMA SameCapable ==
  ASSUME NEW e \in ptp_event PROVE [e EXCEPT !.asCapable = e.asCapable] = e
  BY DEF ptp_event

\* What a callback does: it stays in the types, it touches nothing a lost
\* connection is about, and it goes back to poll only with the event unchanged.
Handled ==
  /\ event' \in ptp_event /\ gmIdentity' \in Gm /\ need_set_action' \in BOOLEAN
  /\ heard' \in Port
  /\ pc' \in {"poll", "publish", "request"}
  /\ pc' = "poll" => event' = event

LEMMA CallbacksHandle ==
  ASSUME IInv, event_handle PROVE Handled
<1> USE DEF IInv, ThreadType, Handled
<1>0. msg \in Message /\ msg.gm \in Gm /\ msg.capable \in BOOLEAN /\ msg.port \in Port
  BY DEF Message
<1>1. CASE TIME_STATUS_NP_h
  <2>1. [event EXCEPT !.clockOffset = 1] \in ptp_event
    <3>1. 1 \in 0 .. 1
      OBVIOUS
    <3> QED
      BY <3>1, EventExcept, Zenon
  <2>2. [[event EXCEPT !.clockOffset = 1] EXCEPT !.gmClockUUID = msg.gm] \in ptp_event
    BY <1>0, <2>1, EventExcept, Zenon
  <2>3. event' = [[event EXCEPT !.clockOffset = 1] EXCEPT !.gmClockUUID = msg.gm]
    BY <1>1, Zenon DEF TIME_STATUS_NP_h
  <2> QED
    BY <1>0, <1>1, <2>2, <2>3, Zenon DEF TIME_STATUS_NP_h, Done
<1>2. CASE LOG_SYNC_INTERVAL_h
  <2>1. [event EXCEPT !.syncInterval = SyncInterval(LogSyncInterval)] \in ptp_event
    BY EventExcept, Zenon
  <2>2. CASE Integer8(event.syncInterval) # LogSyncInterval
    BY <1>2, <2>1, <2>2, Zenon DEF LOG_SYNC_INTERVAL_h, Done
  <2>3. CASE Integer8(event.syncInterval) = LogSyncInterval
    BY <1>2, <2>3, Zenon DEF LOG_SYNC_INTERVAL_h, Done
  <2> QED
    BY <2>2, <2>3
<1>3. CASE CMLDS_INFO_NP_h
  <2>1. [event EXCEPT !.asCapable = msg.capable] \in ptp_event
    BY <1>0, EventExcept, Zenon
  <2>2. CASE event.asCapable = msg.capable
    BY <1>3, <2>1, <2>2, SameCapable, Zenon DEF CMLDS_INFO_NP_h, Done
  <2>3. CASE event.asCapable # msg.capable
    BY <1>3, <2>1, <2>3, Zenon DEF CMLDS_INFO_NP_h, Done
  <2> QED
    BY <2>2, <2>3
<1>4. CASE PORT_DATA_SET_h
  <2>1. heard' \in Port
    BY <1>0, <1>4 DEF PORT_DATA_SET_h
  <2>2. CASE msg.port = "OTHER"
    BY <1>4, <2>1, <2>2, PortDataClearType DEF PORT_DATA_SET_h, Done
  <2>3. CASE msg.port = "MASTER" /\ gmIdentity = Own
    BY <1>4, <2>1, <2>3 DEF PORT_DATA_SET_h, Done
  <2>4. CASE msg.port = "MASTER" /\ gmIdentity # Own
    <3>1. Own \in Gm /\ portDataClear(event) \in ptp_event
      BY PortDataClearType DEF Gm
    <3>2. MasterEvent(event) \in ptp_event
      BY <3>1, EventExcept, Zenon DEF MasterEvent
    <3> QED
      BY <1>4, <2>1, <2>4, <3>1, <3>2 DEF PORT_DATA_SET_h
  <2>5. CASE msg.port = "SLAVE"
    <3>1. [event EXCEPT !.syncedWithGm = TRUE] \in ptp_event
      BY EventExcept, Zenon
    <3> QED
      BY <1>4, <2>1, <2>5, <3>1, Zenon DEF PORT_DATA_SET_h
  <2> QED
    BY <1>0, <2>2, <2>3, <2>4, <2>5 DEF Port
<1> QED
  BY <1>1, <1>2, <1>3, <1>4 DEF event_handle

\* A request joins the queue only where there is room for it.
LEMMA SendType ==
  ASSUME ReqType, NEW id \in Get \cup {"SUBSCRIBE_EVENTS_NP"}, Send(id) PROVE ReqType'
<1>1. CASE Len(req) < MaxReq /\ req' = Append(req, id)
  BY <1>1, ConstantsAssumption DEF ReqType
<1>2. CASE UNCHANGED req
  BY <1>2 DEF ReqType
<1> QED
  BY <1>1, <1>2 DEF Send

\* The steps that only move the thread.
LEMMA MovesIInv ==
  ASSUME IInv, ThreadEnds \/ GoOn \/ PollTimeout \/ RetryFails PROVE IInv'
<1>1. UNCHANGED <<up, port, gm, capable, subscribed, change, restart, req, rx, msg, event,
                  gmIdentity, need_set_action, lost_connection, stored, stopThread, heard>>
  BY SMTT(40) DEF ThreadEnds, GoOn, PollTimeout, RetryFails, ptp4l
<1>2. \/ pc' = "done"
      \/ pc = "poll" /\ pc' = "retry"
      \/ pc = "subscribe" /\ pc' = "retry"
      \/ pc = "start" /\ pc' = "connect"
      \/ pc = "handle" /\ pc' = "callback"
      \/ pc = "publish" /\ pc' = "copy"
      \/ pc = "publishLost" /\ pc' = "copyLost"
      \/ pc = "retry" /\ pc' = "subscribe"
  BY SMTT(40) DEF ThreadEnds, GoOn, Tested, PollTimeout, RetryFails
<1>3. DaemonType' /\ ReqType' /\ RxType'
  BY <1>1 DEF IInv, DaemonType, ReqType, RxType
<1>4. ThreadType'
  BY <1>1, <1>2 DEF IInv, ThreadType, PcType
<1>5. PublishInv'
  BY <1>1, <1>2 DEF IInv, PublishInv, Fresh
<1> QED
  BY <1>3, <1>4, <1>5 DEF IInv

LEMMA ThreadIInv == IInv /\ Thread => IInv'
<1> SUFFICES ASSUME IInv, Thread PROVE IInv'
  OBVIOUS
<1> USE DEF IInv, ptp4l
<1>1. CASE ThreadEnds \/ GoOn \/ PollTimeout \/ RetryFails
  BY <1>1, MovesIInv
<1>2. CASE ThreadStarts
  <2>1. DaemonType' /\ RxType'
    BY <1>2 DEF ThreadStarts, DaemonType, RxType
  <2>2. ReqType'
    <3> DEFINE first == <<"SUBSCRIBE_EVENTS_NP", "TIME_STATUS_NP", "PORT_DATA_SET",
                          "LOG_SYNC_INTERVAL">>
    <3>1. req = <<>>
      BY <1>2 DEF ThreadStarts, PublishInv, Fresh
    <3>2. first \in Seq(Get \cup {"SUBSCRIBE_EVENTS_NP"}) /\ Len(first) = 4
      BY DEF Get
    <3>3. req' = req \/ req' = req \o first
      BY <1>2 DEF ThreadStarts
    <3> HIDE DEF first
    <3>4. <<>> \o first = first
      BY <3>2
    <3> QED
      BY <3>1, <3>2, <3>3, <3>4, ConstantsAssumption DEF ReqType
  <2>3. ThreadType'
    BY <1>2 DEF ThreadStarts, ThreadType, PcType
  <2>4. PublishInv'
    BY <1>2 DEF ThreadStarts, PublishInv, Fresh
  <2> QED
    BY <2>1, <2>2, <2>3, <2>4
<1>3. CASE Receive
  <2>1. DaemonType' /\ ReqType'
    BY <1>3 DEF Receive, DaemonType, ReqType
  <2>2. RxType' /\ msg' \in Message
    BY <1>3 DEF Receive, RxType
  <2>3. ThreadType'
    BY <1>3, <2>2 DEF Receive, ThreadType, PcType
  <2>4. PublishInv'
    BY <1>3 DEF Receive, PublishInv, Fresh
  <2> QED
    BY <2>1, <2>2, <2>3, <2>4
<1>4. CASE event_handle
  <2>1. Handled
    BY <1>4, CallbacksHandle
  <2>2. /\ pc = "callback"
        /\ UNCHANGED <<up, port, gm, capable, subscribed, change, restart, req, rx, msg,
                       lost_connection, stored, stopThread>>
    BY <1>4 DEF event_handle
  <2>3. DaemonType' /\ ReqType' /\ RxType'
    BY <2>2 DEF DaemonType, ReqType, RxType
  <2>4. ThreadType'
    BY <2>1, <2>2 DEF Handled, ThreadType, PcType
  <2>5. PublishInv'
    BY <2>1, <2>2 DEF Handled, PublishInv, Fresh
  <2> QED
    BY <2>3, <2>4, <2>5
<1>5. CASE Request
  <2>1. DaemonType' /\ RxType' /\ ThreadType'
    BY <1>5 DEF Request, DaemonType, RxType, ThreadType, PcType
  <2>2. ReqType'
    BY <1>5, SendType DEF Request, Get
  <2>3. PublishInv'
    BY <1>5 DEF Request, PublishInv, Fresh
  <2> QED
    BY <2>1, <2>2, <2>3
<1>6. CASE Publish
  <2>1. DaemonType' /\ ReqType' /\ RxType'
    BY <1>6 DEF Publish, DaemonType, ReqType, RxType
  <2>2. ThreadType'
    BY <1>6 DEF Publish, ThreadType, PcType
  <2>3. PublishInv'
    BY <1>6 DEF Publish, PublishInv, Fresh
  <2> QED
    BY <2>1, <2>2, <2>3
<1>7. CASE RetrySucceeds
  <2>1. DaemonType' /\ RxType' /\ ThreadType'
    BY <1>7 DEF RetrySucceeds, DaemonType, RxType, ThreadType, PcType
  <2>2. ReqType'
    BY <1>7, SendType DEF RetrySucceeds
  <2>3. PublishInv'
    BY <1>7 DEF RetrySucceeds, PublishInv, Fresh
  <2> QED
    BY <2>1, <2>2, <2>3
<1>8. CASE RetryLoses
  <2>1. DaemonType' /\ ReqType' /\ RxType'
    BY <1>8 DEF RetryLoses, DaemonType, ReqType, RxType
  <2>2. ThreadType'
    BY <1>8, NoEventType DEF RetryLoses, portReset, ThreadType, PcType
  <2>3. PublishInv'
    BY <1>8 DEF RetryLoses, portReset, PublishInv, Fresh
  <2> QED
    BY <2>1, <2>2, <2>3
<1> QED
  BY <1>1, <1>2, <1>3, <1>4, <1>5, <1>6, <1>7, <1>8, SMTT(40) DEF Thread

LEMMA Invariant == Spec => []IInv
<1>1. IInv /\ [Next]_vars => IInv'
  <2> SUFFICES ASSUME IInv, [Next]_vars PROVE IInv'
    OBVIOUS
  <2>1. CASE UNCHANGED vars
    BY <2>1, SMTT(40) DEF vars, ptp4l, IInv, DaemonType, ReqType, RxType, ThreadType, PublishInv, Fresh
  <2> QED
    BY <2>1, DaemonIInv, StopIInv, ThreadIInv DEF Next
<1> QED
  BY <1>1, InitIInv, PTL DEF Spec

\* The types of the thread's data, and that requests never outgrow the socket.
THEOREM TypeCorrect == Spec => []TypeOK
<1>1. IInv => TypeOK
  BY DEF IInv, TypeOK, DaemonType, ReqType, RxType, ThreadType, PcType
<1> QED
  BY <1>1, Invariant, PTL

\* What the daemon or a move of the thread leaves alone of the time source.
LEMMA Unseen ==
  ASSUME UNCHANGED <<event, stored, lost_connection, stopThread>>,
         \/ pc' = pc
         \/ ~stopThread /\ pc # "done" /\ pc' # "done"
         \/ /\ pc \in {"poll", "request"} /\ pc' \in {"handle", "publish", "retry"}
  PROVE  UNCHANGED Source!vars
  BY DEF Source!vars

\* A step in the middle of which the thread was asked to end, and that shows nothing.
LEMMA Skipped ==
  ASSUME UNCHANGED <<event, stored, stopThread>>,
         (lost_connection') = lost_connection, stopThread,
         pc \in {"connect", "subscribe"}, pc' \in {"poll", "retry"}
  PROVE  Source!Next
<1>1. Source!Skip
  BY DEF Source!Skip
<1> QED
  BY <1>1, SMTT(40) DEF Source!Next

\* Every step of the thread and of ptp4l is one of a time source, or none: the
\* publications are the Tell steps, the callbacks the Learn steps.
LEMMA StepIsSource ==
  ASSUME IInv, IInv', [Next]_vars PROVE [Source!Next]_(Source!vars)
<1> USE DEF IInv, ThreadType, PublishInv, ptp4l
<1>1. CASE Daemon
  <2>1. UNCHANGED <<event, stored, lost_connection, stopThread, pc>>
    BY <1>1, SMTT(40) DEF Daemon, PortChange, CapableChange, TimeSync, Change, Answer, Start, End
  <2> QED
    BY SMTT(40), <2>1, Unseen
<1>2. CASE Stop
  <2>1. UNCHANGED <<event, stored, lost_connection, pc>> /\ ~stopThread /\ stopThread'
    BY <1>2, SMTT(40) DEF Stop
  <2>2. CASE pc = "done"
    BY <2>1, <2>2, SMTT(40) DEF Source!vars
  <2>3. CASE pc # "done"
    <3>1. Source!Stop
      BY <2>1, <2>3 DEF Source!Stop
    <3> QED
      BY <3>1 DEF Source!Next
  <2> QED
    BY <2>2, <2>3
<1>3. CASE ThreadEnds
  <2>1. /\ pc \in {"start", "poll", "handle", "publish", "publishLost", "retry"}
        /\ pc' = "done" /\ stopThread
        /\ UNCHANGED <<event, stored, lost_connection, stopThread>>
    BY <1>3 DEF ThreadEnds
  <2>2. Source!End
    BY <2>1 DEF Source!End
  <2> QED
    BY <2>2, SMTT(40) DEF Source!Next
<1>4. CASE ThreadStarts
  <2>1. /\ pc = "connect" /\ pc' = "poll"
        /\ UNCHANGED <<event, stored, stopThread>>
        /\ lost_connection' = lost_connection \/ lost_connection' = TRUE
        /\ ~lost_connection /\ event = NoEvent /\ stored = event
    BY <1>4, SMTT(40) DEF ThreadStarts
  <2>2. CASE lost_connection' = lost_connection
    <3>1. CASE stopThread
      BY SMTT(40), <2>1, <2>2, <3>1, Skipped
    <3>2. CASE ~stopThread
      BY SMTT(40), <2>1, <2>2, <3>2, Unseen
    <3> QED
      BY <3>1, <3>2, Zenon
  <2>3. CASE lost_connection' = TRUE
    <3>1. Source!Lose
      BY <2>1, <2>3, SMTT(40) DEF Source!Lose, Source!Step
    <3> QED
      BY <3>1 DEF Source!Next
  <2> QED
    BY <2>1, <2>2, <2>3
<1>5. CASE Receive \/ Request \/ PollTimeout \/ GoOn
  <2>1. UNCHANGED <<event, stored, lost_connection, stopThread>>
    BY <1>5, SMTT(40) DEF Receive, Request, PollTimeout, GoOn
  <2>2. CASE Receive \/ Request \/ PollTimeout
    <3>1. pc \in {"poll", "request"} /\ pc' \in {"handle", "publish", "retry"}
      BY <2>2, SMTT(40) DEF Receive, Request, PollTimeout
    <3> QED
      BY SMTT(40), <2>1, <3>1, Unseen
  <2>3. CASE GoOn
    <3>1. ~stopThread /\ pc # "done" /\ pc' # "done"
      BY <2>3, SMTT(40) DEF GoOn, Tested
    <3> QED
      BY SMTT(40), <2>1, <3>1, Unseen
  <2> QED
    BY <1>5, <2>2, <2>3, Zenon
<1>11. CASE RetryFails
  <2>1. /\ UNCHANGED <<event, stored, lost_connection, stopThread>>
        /\ pc = "subscribe" /\ pc' = "retry"
    BY <1>11, SMTT(40) DEF RetryFails
  <2>2. CASE stopThread
    BY SMTT(40), <2>1, <2>2, Skipped
  <2>3. CASE ~stopThread
    BY SMTT(40), <2>1, <2>3, Unseen
  <2> QED
    BY <2>2, <2>3, Zenon
<1>6. CASE event_handle
  <2>1. /\ pc = "callback" /\ UNCHANGED <<stored, lost_connection, stopThread>>
        /\ stored = event /\ ~lost_connection
    BY <1>6, SMTT(40) DEF event_handle
  <2>2. event' \in ptp_event /\ pc' \in {"poll", "publish", "request"}
    BY <1>6, CallbacksHandle, SMTT(40) DEF Handled
  <2>3. Source!Learn(event')
    BY <2>1, <2>2 DEF Source!Learn, Source!Step
  <2> QED
    BY <2>2, <2>3, SMTT(40) DEF Source!Next
<1>7. CASE Publish
  <2>1. /\ pc \in {"copy", "copyLost"} /\ pc' \in {"poll", "retry"} /\ stored' = event
        /\ UNCHANGED <<event, lost_connection, stopThread>>
    BY <1>7, SMTT(40) DEF Publish
  <2>2. Source!Tell
    BY <2>1, SMTT(40) DEF Source!Tell, Source!Step
  <2> QED
    BY <2>2, SMTT(40) DEF Source!Next
<1>8. CASE RetrySucceeds
  <2>1. /\ pc = "subscribe" /\ pc' = "poll" /\ lost_connection' = FALSE
        /\ UNCHANGED <<event, stored, stopThread>>
        /\ stored = event /\ (lost_connection => event = NoEvent)
    BY <1>8, SMTT(40) DEF RetrySucceeds
  <2>2. CASE lost_connection
    <3>1. Source!Regain
      BY <2>1, <2>2, SMTT(40) DEF Source!Regain, Source!Step
    <3> QED
      BY <3>1, SMTT(40) DEF Source!Next
  <2>3. CASE ~lost_connection
    <3>1. lost_connection' = lost_connection
      BY <2>1, <2>3, Zenon
    <3>2. CASE stopThread
      BY SMTT(40), <2>1, <3>1, <3>2, Skipped
    <3>3. CASE ~stopThread
      BY SMTT(40), <2>1, <3>1, <3>3, Unseen
    <3> QED
      BY <3>2, <3>3, Zenon
  <2> QED
    BY SMTT(40), <2>2, <2>3
<1>9. CASE RetryLoses
  <2>1. /\ pc = "subscribe" /\ pc' = "publishLost" /\ ~lost_connection /\ lost_connection'
        /\ event' = NoEvent /\ UNCHANGED <<stored, stopThread>> /\ stored = event
    BY <1>9, SMTT(40) DEF RetryLoses, portReset
  <2>2. Source!Lose
    BY <2>1, SMTT(40) DEF Source!Lose, Source!Step
  <2> QED
    BY <2>2 DEF Source!Next
<1>10. CASE UNCHANGED vars
  <2>1. UNCHANGED <<event, stored, lost_connection, stopThread, pc>>
    BY <1>10 DEF vars
  <2> QED
    BY <2>1, Unseen
<1> QED
  BY <1>1, <1>2, <1>3, <1>4, <1>5, <1>6, <1>7, <1>8, <1>9, <1>10, <1>11, SMTT(40)
     DEF Next, Thread

\* The thread implements TimeSource: no callback leaves a change unpublished, a
\* loss is published before ptp4l is talked to again, and wherever stopThread is set
\* the thread handles, publishes or tries at most one thing more.
THEOREM ImplementsTimeSource == Spec => IsTimeSource
<1>1. Init => Source!Init
  BY DEF Init, Source!Init
<1>2. IInv /\ IInv' /\ [Next]_vars => [Source!Next]_(Source!vars)
  BY StepIsSource
<1> QED
  BY <1>1, <1>2, Invariant, PTL DEF Spec, IsTimeSource, Source!Spec

\* A lost connection leaves no data published.
THEOREM LossIsTold == Spec => []LostIsEmpty
<1>1. IInv => LostIsEmpty
  BY DEF IInv, PublishInv, LostIsEmpty
<1> QED
  BY <1>1, Invariant, PTL

---------------------------------------------------------------------------
(* The published synchronisation *)

\* Whether the thread's event may say synchronised is decided when a message is
\* handled, by what the messages handled before it said.  The invariant follows
\* it through the messages on their way: it labels the thread, before and after
\* each of them, with TRUE where gmIdentity is not the own clock and with FALSE
\* where the event is not synchronised.  A message carries one label to the next.
Carries(a, m, b) ==
  /\ m.tlv = "TIME_STATUS_NP" /\ m.gm = Own => ~a /\ ~b
  /\ m.tlv = "TIME_STATUS_NP" /\ m.gm # Own => (a => b)
  /\ m.tlv = "PORT_DATA_SET" /\ m.port = "SLAVE" => a /\ b
  /\ m.tlv = "PORT_DATA_SET" /\ m.port = "MASTER" => ~b
  /\ m.tlv = "PORT_DATA_SET" /\ m.port = "OTHER" => (b => a)
  /\ m.tlv \notin {"TIME_STATUS_NP", "PORT_DATA_SET"} => (a <=> b)

\* The messages of r carry the label a to b.
Labels(w, r) ==
  /\ w \in [0 .. Len(r) -> BOOLEAN]
  /\ \A i \in 1 .. Len(r) : Carries(w[i - 1], r[i], w[i])
Way(a, r, b) == \E w : Labels(w, r) /\ w[0] = a /\ w[Len(r)] = b

\* The label a is true of the thread.
Fits(a) == (event.syncedWithGm => a) /\ (gmIdentity = Own => ~a)

\* A message has been received and no callback has seen it.
Handling == {"handle", "callback"}

\* The label a is true of the thread when it receives the next message.
StartsWith(a) ==
  /\ pc \in Handling => \E c \in BOOLEAN : Fits(c) /\ Carries(c, msg, a)
  /\ pc \notin Handling /\ pc # "done" => Fits(a)

\* Request k in q is id.
Asked(q, k, id) == k \in 1 .. Len(q) /\ q[k] = id

\* What ptp4l will answer to the requests of thread_loop's start goes on from b.
EndsWith(b) ==
  /\ Asked(req, 1, "TIME_STATUS_NP") /\ gm = Own => ~b
  /\ Asked(req, 1, "PORT_DATA_SET") /\ port = "SLAVE" => b

\* The requests for the time status and the port's data are only made once, right
\* after the subscription.
StartRequests(q, s) ==
  /\ \A k \in Nat : Asked(q, k, "TIME_STATUS_NP") =>
       (k = 1 /\ s) \/ (k = 2 /\ Asked(q, 1, "SUBSCRIBE_EVENTS_NP"))
  /\ \A k \in Nat : Asked(q, k, "PORT_DATA_SET") =>
       (k = 1 /\ s) \/ (k \in {2, 3} /\ Asked(q, k - 1, "TIME_STATUS_NP"))

\* Until ptp4l has taken the subscription nothing reaches the thread.
Unheard ==
  Asked(req, 2, "TIME_STATUS_NP") =>
    ~subscribed /\ rx = <<>> /\ pc \notin Handling /\ ~event.syncedWithGm

SyncInv ==
  /\ event.syncedWithGm => heard = "SLAVE"
  /\ port = "SLAVE" => gm = Foreign
  /\ StartRequests(req, subscribed)
  /\ Unheard
  /\ \E a, b \in BOOLEAN : StartsWith(a) /\ Way(a, rx, b) /\ EndsWith(b)

LEMMA WayEmpty == ASSUME NEW a \in BOOLEAN PROVE Way(a, <<>>, a)
<1> DEFINE w == [i \in 0 .. 0 |-> a]
<1>1. Len(<<>>) = 0 /\ 0 \in 0 .. 0 /\ (1 .. 0) = {}
  BY SMTT(40)
<1>2. w \in [0 .. Len(<<>>) -> BOOLEAN] /\ w[0] = a /\ w[Len(<<>>)] = a
  BY <1>1, Zenon
<1>3. \A i \in 1 .. Len(<<>>) : Carries(w[i - 1], <<>>[i], w[i])
  BY <1>1, Zenon
<1> QED
  BY <1>2, <1>3, Zenon DEF Way, Labels

\* Another message on its way.
LEMMA WayAppend ==
  ASSUME NEW r \in Seq(Message), NEW m \in Message, NEW a \in BOOLEAN, NEW b \in BOOLEAN,
         NEW c \in BOOLEAN, Way(a, r, b), Carries(b, m, c)
  PROVE  Way(a, Append(r, m), c)
<1>1. PICK w : Labels(w, r) /\ w[0] = a /\ w[Len(r)] = b
  BY Zenon DEF Way
<1> DEFINE n == Len(r)
           q == Append(r, m)
           v == [i \in 0 .. n + 1 |-> IF i = n + 1 THEN c ELSE w[i]]
<1>2. /\ n \in Nat /\ Len(q) = n + 1 /\ n + 1 \in 0 .. n + 1 /\ 0 \in 0 .. n + 1 /\ 0 # n + 1
      /\ q[n + 1] = m
      /\ n \in 0 .. n + 1 /\ n # n + 1 /\ (n + 1) - 1 = n
      /\ \A i \in 0 .. n + 1 : i # n + 1 => i \in 0 .. n
      /\ \A i \in 1 .. n + 1 : i # n + 1 => /\ i \in 1 .. n /\ q[i] = r[i]
                                            /\ i - 1 \in 0 .. n + 1 /\ i - 1 # n + 1
                                            /\ i \in 0 .. n + 1
  BY SMTT(40)
<1> HIDE DEF n, q
<1>3. /\ w \in [0 .. n -> BOOLEAN] /\ w[0] = a /\ w[n] = b
      /\ \A i \in 1 .. n : Carries(w[i - 1], r[i], w[i])
  BY <1>1, Zenon DEF Labels, n
<1>4. v \in [0 .. n + 1 -> BOOLEAN]
  BY <1>2, <1>3, Zenon
<1>5. v[0] = a /\ v[n] = b /\ v[n + 1] = c
  BY <1>2, <1>3, Zenon
<1>6. ASSUME NEW i \in 1 .. n + 1 PROVE Carries(v[i - 1], q[i], v[i])
  <2>1. CASE i = n + 1
    BY <1>2, <1>5, <2>1, Zenon
  <2>2. CASE i # n + 1
    <3>1. v[i - 1] = w[i - 1] /\ v[i] = w[i] /\ q[i] = r[i] /\ i \in 1 .. n
      BY <1>2, <2>2, Zenon
    <3> QED
      BY <1>3, <3>1, Zenon
  <2> QED
    BY <2>1, <2>2
<1> QED
  BY <1>2, <1>4, <1>5, <1>6, Zenon DEF Way, Labels, q

\* A message is received.
LEMMA WayTail ==
  ASSUME NEW r \in Seq(Message), r # <<>>, NEW a \in BOOLEAN, NEW b \in BOOLEAN, Way(a, r, b)
  PROVE  \E c \in BOOLEAN : Carries(a, Head(r), c) /\ Way(c, Tail(r), b)
<1>1. PICK w : Labels(w, r) /\ w[0] = a /\ w[Len(r)] = b
  BY Zenon DEF Way
<1> DEFINE n == Len(Tail(r))
           q == Tail(r)
           v == [i \in 0 .. n |-> w[i + 1]]
<1>2. /\ n \in Nat /\ Len(r) = n + 1 /\ 0 \in 0 .. n /\ n \in 0 .. n /\ 0 + 1 = 1 /\ 1 - 1 = 0
      /\ 1 \in 1 .. n + 1 /\ 1 \in 0 .. n + 1 /\ Head(r) = r[1]
      /\ \A i \in 0 .. n : i + 1 \in 0 .. n + 1
      /\ \A i \in 1 .. n : /\ i + 1 \in 1 .. n + 1 /\ q[i] = r[i + 1]
                           /\ i - 1 \in 0 .. n /\ i \in 0 .. n
                           /\ (i - 1) + 1 = i /\ (i + 1) - 1 = i
  BY SMTT(40)
<1> HIDE DEF n
<1>3. /\ w \in [0 .. n + 1 -> BOOLEAN] /\ w[0] = a /\ w[n + 1] = b
      /\ \A i \in 1 .. n + 1 : Carries(w[i - 1], r[i], w[i])
  BY <1>1, <1>2, Zenon DEF Labels
<1>4. v \in [0 .. n -> BOOLEAN] /\ v[0] = w[1] /\ v[n] = b
  BY <1>2, <1>3, Zenon
<1>5. ASSUME NEW i \in 1 .. n PROVE Carries(v[i - 1], q[i], v[i])
  <2>1. v[i - 1] = w[i] /\ v[i] = w[i + 1] /\ q[i] = r[i + 1]
    BY <1>2, Zenon
  <2>2. Carries(w[(i + 1) - 1], r[i + 1], w[i + 1])
    BY <1>2, <1>3, Zenon
  <2> QED
    BY <1>2, <2>1, <2>2, Zenon
<1>6. w[1] \in BOOLEAN /\ Carries(a, Head(r), w[1])
  <2>1. Carries(w[1 - 1], r[1], w[1])
    BY <1>2, <1>3, Zenon
  <2> QED
    BY <1>2, <1>3, <2>1, Zenon
<1>7. Way(w[1], Tail(r), b)
  BY <1>4, <1>5, Zenon DEF Way, Labels, n
<1> QED
  BY <1>6, <1>7, Zenon

LEMMA AskedAppend ==
  ASSUME NEW q \in Seq(Get \cup {"SUBSCRIBE_EVENTS_NP"}), NEW x, NEW k, NEW id, id # x
  PROVE  Asked(Append(q, x), k, id) <=> Asked(q, k, id)
  BY SMTT(40) DEF Asked

LEMMA AskedStays ==
  ASSUME NEW q \in Seq(Get \cup {"SUBSCRIBE_EVENTS_NP"}), NEW x, NEW k, NEW id,
         Asked(q, k, id)
  PROVE  Asked(Append(q, x), k, id)
  BY SMTT(40) DEF Asked

LEMMA AskedTail ==
  ASSUME NEW q \in Seq(Get \cup {"SUBSCRIBE_EVENTS_NP"}), q # <<>>, NEW k \in Nat, NEW id
  PROVE  Asked(Tail(q), k, id) <=> k # 0 /\ Asked(q, k + 1, id)
  BY SMTT(40) DEF Asked

\* Later requests ask for neither the time status nor the port's data.
LEMMA RequestMade ==
  ASSUME NEW q \in Seq(Get \cup {"SUBSCRIBE_EVENTS_NP"}), NEW s,
         NEW x \in {"SUBSCRIBE_EVENTS_NP", "LOG_SYNC_INTERVAL"}, StartRequests(q, s)
  PROVE  StartRequests(Append(q, x), s)
<1>1. "TIME_STATUS_NP" # x /\ "PORT_DATA_SET" # x
  OBVIOUS
<1>2. \A k : /\ Asked(Append(q, x), k, "TIME_STATUS_NP") <=> Asked(q, k, "TIME_STATUS_NP")
             /\ Asked(Append(q, x), k, "PORT_DATA_SET") <=> Asked(q, k, "PORT_DATA_SET")
  BY <1>1, AskedAppend, Zenon
<1>3. Asked(q, 1, "SUBSCRIBE_EVENTS_NP") => Asked(Append(q, x), 1, "SUBSCRIBE_EVENTS_NP")
  BY AskedStays, Zenon
<1> QED
  BY <1>2, <1>3, Zenon DEF StartRequests

\* The subscription is taken before the requests that follow it.
LEMMA RequestTaken ==
  ASSUME NEW q \in Seq(Get \cup {"SUBSCRIBE_EVENTS_NP"}), q # <<>>,
         NEW s \in BOOLEAN, NEW t \in BOOLEAN,
         StartRequests(q, s), s => t, Head(q) = "SUBSCRIBE_EVENTS_NP" => t
  PROVE  StartRequests(Tail(q), t)
<1>1. Asked(q, 1, "SUBSCRIBE_EVENTS_NP") => t
  BY SMTT(40) DEF Asked
<1>2. ASSUME NEW k \in Nat, Asked(Tail(q), k, "TIME_STATUS_NP")
      PROVE  k = 1 /\ t
  <2>1. k # 0 /\ Asked(q, k + 1, "TIME_STATUS_NP") /\ k + 1 \in Nat
    BY <1>2, AskedTail, SMTT(40)
  <2>2. (k + 1 = 1 /\ s) \/ (k + 1 = 2 /\ Asked(q, 1, "SUBSCRIBE_EVENTS_NP"))
    BY <2>1, Zenon DEF StartRequests
  <2> QED
    BY <1>1, <2>1, <2>2
<1>3. ASSUME NEW k \in Nat, Asked(Tail(q), k, "PORT_DATA_SET")
      PROVE  (k = 1 /\ t) \/ (k \in {2, 3} /\ Asked(Tail(q), k - 1, "TIME_STATUS_NP"))
  <2>1. k # 0 /\ Asked(q, k + 1, "PORT_DATA_SET") /\ k + 1 \in Nat
    BY <1>3, AskedTail, SMTT(40)
  <2>2. (k + 1 = 1 /\ s) \/ (k + 1 \in {2, 3} /\ Asked(q, (k + 1) - 1, "TIME_STATUS_NP"))
    BY <2>1, Zenon DEF StartRequests
  <2>3. (k + 1) - 1 = k /\ (k = 1 \/ k = 2) /\ k \in Nat /\ Asked(q, k, "TIME_STATUS_NP")
    BY <2>1, <2>2, SMTT(40)
  <2>4. CASE k = 1
    <3>1. (1 = 1 /\ s) \/ (1 = 2 /\ Asked(q, 1, "SUBSCRIBE_EVENTS_NP"))
      BY <2>3, <2>4, Zenon DEF StartRequests
    <3> QED
      BY <2>4, <3>1
  <2>5. CASE k = 2
    <3>1. 1 \in Nat /\ 1 # 0 /\ 1 + 1 = 2 /\ k - 1 = 1
      BY <2>5, SMTT(40)
    <3>2. Asked(Tail(q), 1, "TIME_STATUS_NP")
      <4>1. Asked(q, 1 + 1, "TIME_STATUS_NP")
        BY <2>3, <2>5, <3>1
      <4> QED
        BY <3>1, <4>1, AskedTail
    <3> QED
      BY <2>5, <3>1, <3>2, Zenon
  <2> QED
    BY <2>3, <2>4, <2>5
<1> QED
  BY <1>2, <1>3, Zenon DEF StartRequests

\* What a subscriber is sent.
LEMMA NotifyOne ==
  ASSUME RxType, NEW t, Notify(<<t>>)
  PROVE  rx' = IF subscribed THEN Append(rx, Report(t)) ELSE rx
<1> DEFINE m == Report(t)
           s == [i \in 1 .. Len(<<t>>) |-> Report(<<t>>[i])]
<1>1. s = <<m>>
  <2>1. Len(<<t>>) = 1 /\ <<t>>[1] = t
    OBVIOUS
  <2>2. s = [i \in 1 .. 1 |-> m]
    <3>1. \A i \in 1 .. 1 : <<t>>[i] = t
      BY <2>1, SMTT(40)
    <3> QED
      BY <2>1, <3>1, Zenon
  <2> HIDE DEF m
  <2>3. [i \in 1 .. 1 |-> m] = <<m>>
    BY SMTT(40)
  <2> QED
    BY <2>2, <2>3, Zenon
<1> HIDE DEF m, s
<1>2. rx \o <<m>> = Append(rx, m)
  BY SMTT(40) DEF RxType
<1> QED
  BY <1>1, <1>2, Zenon DEF Notify, m, s

LEMMA NotifyTwo ==
  ASSUME RxType, NEW t, NEW u, Notify(<<t, u>>)
  PROVE  rx' = IF subscribed THEN Append(Append(rx, Report(t)), Report(u)) ELSE rx
<1> DEFINE m == Report(t)
           n == Report(u)
           s == [i \in 1 .. Len(<<t, u>>) |-> Report(<<t, u>>[i])]
<1>1. s = <<m, n>>
  <2>1. Len(<<t, u>>) = 2 /\ <<t, u>>[1] = t /\ <<t, u>>[2] = u
    OBVIOUS
  <2>2. s = [i \in 1 .. 2 |-> IF i = 1 THEN m ELSE n]
    <3>1. \A i \in 1 .. 2 : <<t, u>>[i] = IF i = 1 THEN t ELSE u
      BY <2>1, SMTT(40)
    <3> QED
      BY <2>1, <3>1, Zenon
  <2> HIDE DEF m, n
  <2>3. [i \in 1 .. 2 |-> IF i = 1 THEN m ELSE n] = <<m, n>>
    BY SMTT(40)
  <2> QED
    BY <2>2, <2>3, Zenon
<1> HIDE DEF m, n, s
<1>2. rx \o <<m, n>> = Append(Append(rx, m), n)
  BY SMTT(40) DEF RxType
<1> QED
  BY <1>1, <1>2, Zenon DEF Notify, m, n, s

LEMMA ReportCarries ==
  ASSUME NEW b \in BOOLEAN
  PROVE  /\ gm' = Own /\ ~b => Carries(b, Report("TIME_STATUS_NP"), FALSE)
         /\ gm' # Own => Carries(b, Report("TIME_STATUS_NP"), TRUE)
         /\ port' = "SLAVE" /\ b => Carries(b, Report("PORT_DATA_SET"), TRUE)
         /\ port' = "MASTER" => Carries(b, Report("PORT_DATA_SET"), FALSE)
         /\ port' = "OTHER" => Carries(b, Report("PORT_DATA_SET"), b)
         /\ \A t : t \notin {"TIME_STATUS_NP", "PORT_DATA_SET"} => Carries(b, Report(t), b)
<1>1. /\ \A t : Report(t).tlv = t
      /\ Report("PORT_DATA_SET").port = port'
      /\ Report("TIME_STATUS_NP").gm = gm'
  BY Zenon DEF Report
<1>2. \A m : m.tlv = "TIME_STATUS_NP" =>
             /\ m.gm = Own /\ ~b => Carries(b, m, FALSE)
             /\ m.gm # Own => Carries(b, m, TRUE)
  BY SMTT(40) DEF Carries
<1>3. \A m : m.tlv = "PORT_DATA_SET" =>
             /\ m.port = "SLAVE" /\ b => Carries(b, m, TRUE)
             /\ m.port = "MASTER" => Carries(b, m, FALSE)
             /\ m.port = "OTHER" => Carries(b, m, b)
  BY SMTT(40) DEF Carries
<1>4. \A m : m.tlv \notin {"TIME_STATUS_NP", "PORT_DATA_SET"} => Carries(b, m, b)
  BY SMTT(40) DEF Carries
<1>5. /\ gm' = Own /\ ~b => Carries(b, Report("TIME_STATUS_NP"), FALSE)
      /\ gm' # Own => Carries(b, Report("TIME_STATUS_NP"), TRUE)
  BY <1>1, <1>2, Zenon
<1>6. /\ port' = "SLAVE" /\ b => Carries(b, Report("PORT_DATA_SET"), TRUE)
      /\ port' = "MASTER" => Carries(b, Report("PORT_DATA_SET"), FALSE)
      /\ port' = "OTHER" => Carries(b, Report("PORT_DATA_SET"), b)
  BY <1>1, <1>3, Zenon
<1>7. \A t : t \notin {"TIME_STATUS_NP", "PORT_DATA_SET"} => Carries(b, Report(t), b)
  BY <1>1, <1>4, Zenon
<1> QED
  BY <1>5, <1>6, <1>7, Zenon

\* ptp4l answers the thread's first requests only once it has its subscription.
LEMMA FirstAnswers ==
  ASSUME StartRequests(req, subscribed),
         Asked(req, 1, "TIME_STATUS_NP") \/ Asked(req, 1, "PORT_DATA_SET")
  PROVE  subscribed
<1>1. 1 \in Nat /\ 1 # 2 /\ 1 \notin {2, 3}
  OBVIOUS
<1> QED
  BY <1>1, Zenon DEF StartRequests

\* A change of ptp4l's state, with the reports it sends to a subscriber.
LEMMA ChangeSync ==
  ASSUME IInv, IInv', SyncInv, Change,
         NEW s \in Port, PortChange(s) \/ CapableChange \/ TimeSync
  PROVE  SyncInv'
<1>0. /\ UNCHANGED <<pc, msg, event, gmIdentity, heard, req, subscribed>>
      /\ rx \in Seq(Message) /\ RxType /\ subscribed \in BOOLEAN
      /\ port' \in Port /\ gm' \in Gm /\ capable' \in BOOLEAN
  <2>1. UNCHANGED <<pc, msg, event, gmIdentity, heard, req, subscribed>>
    BY Zenon DEF Change
  <2> QED
    BY <2>1, Zenon DEF IInv, RxType, DaemonType
<1>1. PICK a \in BOOLEAN, b \in BOOLEAN : StartsWith(a) /\ Way(a, rx, b) /\ EndsWith(b)
  BY Zenon DEF SyncInv
<1>2. StartsWith(a)'
  BY <1>0, <1>1, Zenon DEF StartsWith, Fits
<1>3. port' = "SLAVE" => gm' = Foreign
  <2>1. CASE PortChange(s)
    BY <2>1, SMTT(40) DEF PortChange
  <2>2. CASE CapableChange \/ TimeSync
    BY <2>2, Zenon DEF CapableChange, TimeSync, SyncInv
  <2> QED
    BY <2>1, <2>2
<1>t. \A t \in Tlv : Report(t) \in Message
  BY <1>0, ReportType
<1>d. {"TIME_STATUS_NP", "PORT_DATA_SET", "CMLDS_INFO_NP"} \subseteq Tlv
  BY DEF Tlv, Get
<1>4. /\ ~subscribed => rx' = rx
      /\ \E c \in BOOLEAN : Way(a, rx', c) /\ EndsWith(c)'
  <2>1. ASSUME ~subscribed PROVE EndsWith(b)'
    <3>1. ~Asked(req, 1, "TIME_STATUS_NP") /\ ~Asked(req, 1, "PORT_DATA_SET")
      BY <2>1, FirstAnswers, Zenon DEF SyncInv
    <3> QED
      BY <1>0, <3>1, Zenon DEF EndsWith
  <2>2. CASE PortChange(s)
    <3>1. CASE s = "SLAVE"
      <4>1. port' = "SLAVE" /\ gm' = Foreign
        BY <1>3, <2>2, <3>1, Zenon DEF PortChange
      <4>2. Notify(<<"TIME_STATUS_NP", "PORT_DATA_SET">>)
        BY <2>2, <3>1, Zenon DEF PortChange
      <4>3. rx' = IF subscribed
                  THEN Append(Append(rx, Report("TIME_STATUS_NP")), Report("PORT_DATA_SET"))
                  ELSE rx
        BY <1>0, <4>2, NotifyTwo, Zenon
      <4>4. gm' # Own
        BY <4>1, ConstantsAssumption, Zenon
      <4>5. Way(a, Append(rx, Report("TIME_STATUS_NP")), TRUE)
        BY <1>0, <1>1, <1>t, <1>d, <4>4, WayAppend, ReportCarries, Zenon
      <4>6. Append(rx, Report("TIME_STATUS_NP")) \in Seq(Message)
        <5>1. Report("TIME_STATUS_NP") \in Message
          BY <1>t, <1>d, Zenon
        <5> QED
          BY <1>0, <5>1, SMTT(40)
      <4>7. Way(a, Append(Append(rx, Report("TIME_STATUS_NP")), Report("PORT_DATA_SET")), TRUE)
        BY <1>t, <1>d, <4>1, <4>5, <4>6, WayAppend, ReportCarries, Zenon
      <4>8. EndsWith(TRUE)'
        BY <4>4, Zenon DEF EndsWith
      <4> QED
        BY <1>0, <1>1, <2>1, <4>3, <4>7, <4>8, Zenon
    <3>2. CASE s = "MASTER" \/ s = "OTHER"
      <4>1. port' = s /\ port' # "SLAVE" /\ (s = "OTHER" => gm' = gm)
        BY <2>2, <3>2, SMTT(40) DEF PortChange
      <4>2. Notify(<<"PORT_DATA_SET">>)
        <5>1. s # "SLAVE"
          BY <3>2
        <5> QED
          BY <2>2, <5>1, Zenon DEF PortChange
      <4>3. rx' = IF subscribed THEN Append(rx, Report("PORT_DATA_SET")) ELSE rx
        BY <1>0, <4>2, NotifyOne, Zenon
      <4>4. CASE s = "MASTER"
        <5>1. Way(a, Append(rx, Report("PORT_DATA_SET")), FALSE)
          BY <1>0, <1>1, <1>t, <1>d, <4>1, <4>4, WayAppend, ReportCarries, Zenon
        <5>2. EndsWith(FALSE)'
          BY <4>1, Zenon DEF EndsWith
        <5> QED
          BY <1>0, <1>1, <2>1, <4>3, <5>1, <5>2, Zenon
      <4>5. CASE s = "OTHER"
        <5>1. Way(a, Append(rx, Report("PORT_DATA_SET")), b)
          BY <1>0, <1>1, <1>t, <1>d, <4>1, <4>5, WayAppend, ReportCarries, Zenon
        <5>2. EndsWith(b)'
          BY <1>0, <1>1, <4>1, <4>5, Zenon DEF EndsWith
        <5> QED
          BY <1>0, <1>1, <4>3, <5>1, <5>2, Zenon
      <4> QED
        BY <3>2, <4>4, <4>5
    <3> QED
      BY <3>1, <3>2 DEF Port
  <2>3. CASE CapableChange
    <3>1. UNCHANGED <<port, gm>> /\ Notify(<<"CMLDS_INFO_NP">>)
      BY <2>3, Zenon DEF CapableChange
    <3>2. rx' = IF subscribed THEN Append(rx, Report("CMLDS_INFO_NP")) ELSE rx
      BY <1>0, <3>1, NotifyOne, Zenon
    <3>3. "CMLDS_INFO_NP" \notin {"TIME_STATUS_NP", "PORT_DATA_SET"}
      OBVIOUS
    <3>4. Way(a, Append(rx, Report("CMLDS_INFO_NP")), b)
      BY <1>0, <1>1, <1>t, <1>d, <3>3, WayAppend, ReportCarries, Zenon
    <3>5. EndsWith(b)'
      BY <1>0, <1>1, <3>1, Zenon DEF EndsWith
    <3> QED
      BY <1>0, <1>1, <3>2, <3>4, <3>5, Zenon
  <2>4. CASE TimeSync
    <3>1. UNCHANGED <<port, gm>> /\ port = "SLAVE" /\ Notify(<<"TIME_STATUS_NP">>)
      BY <2>4, Zenon DEF TimeSync
    <3>2. rx' = IF subscribed THEN Append(rx, Report("TIME_STATUS_NP")) ELSE rx
      BY <1>0, <3>1, NotifyOne, Zenon
    <3>3. gm' # Own
      BY <1>3, <3>1, ConstantsAssumption, Zenon
    <3>4. Way(a, Append(rx, Report("TIME_STATUS_NP")), TRUE)
      BY <1>0, <1>1, <1>t, <1>d, <3>3, WayAppend, ReportCarries, Zenon
    <3>5. EndsWith(TRUE)'
      BY <3>3, Zenon DEF EndsWith
    <3> QED
      BY <1>0, <1>1, <2>1, <3>2, <3>4, <3>5, Zenon
  <2> QED
    BY <2>2, <2>3, <2>4
<1>5. StartRequests(req, subscribed)' /\ Unheard' /\ (event.syncedWithGm => heard = "SLAVE")'
  BY <1>0, <1>4, Zenon DEF SyncInv, Unheard
<1> QED
  BY <1>2, <1>3, <1>4, <1>5, Zenon DEF SyncInv

\* ptp4l takes a request.
LEMMA AnswerSync ==
  ASSUME IInv, IInv', SyncInv, Answer
  PROVE  SyncInv'
<1>0. /\ UNCHANGED <<pc, msg, event, gmIdentity, heard, port, gm>>
      /\ req # <<>> /\ req' = Tail(req) /\ req \in Seq(Get \cup {"SUBSCRIBE_EVENTS_NP"})
      /\ rx \in Seq(Message)
      /\ port \in Port /\ port' \in Port /\ gm' \in Gm /\ capable' \in BOOLEAN
  BY Zenon DEF Answer, IInv, ReqType, RxType, DaemonType
<1>1. PICK a \in BOOLEAN, b \in BOOLEAN : StartsWith(a) /\ Way(a, rx, b) /\ EndsWith(b)
  BY Zenon DEF SyncInv
<1>2. \A x \in BOOLEAN : StartsWith(x) => StartsWith(x)'
  BY <1>0, Zenon DEF StartsWith, Fits
<1>3. /\ Asked(req, 1, Head(req))
      /\ \A id : Asked(req, 1, id) => id = Head(req)
  BY <1>0, SMTT(40) DEF Asked
<1>4. \A id : Asked(req', 1, id) => Asked(req, 2, id)
  <2>1. 1 \in Nat /\ 1 + 1 = 2
    OBVIOUS
  <2>2. \A id : Asked(Tail(req), 1, id) => Asked(req, 1 + 1, id)
    BY <1>0, <2>1, AskedTail, Zenon
  <2> QED
    BY <1>0, <2>1, <2>2
<1>5. /\ Asked(req, 2, "TIME_STATUS_NP") => Head(req) = "SUBSCRIBE_EVENTS_NP"
      /\ Asked(req, 2, "PORT_DATA_SET") => Head(req) = "TIME_STATUS_NP"
  <2>1. /\ Asked(req, 2, "TIME_STATUS_NP") => Asked(req, 1, "SUBSCRIBE_EVENTS_NP")
        /\ Asked(req, 2, "PORT_DATA_SET") => Asked(req, 1, "TIME_STATUS_NP")
    <3>1. 2 \in Nat /\ 2 # 1 /\ 2 - 1 = 1
      OBVIOUS
    <3>2. StartRequests(req, subscribed)
      BY Zenon DEF SyncInv
    <3> QED
      BY <3>1, <3>2 DEF StartRequests
  <2> QED
    BY <1>3, <2>1, Zenon
<1>6. /\ (event.syncedWithGm => heard = "SLAVE")' /\ (port = "SLAVE" => gm = Foreign)'
      /\ StartRequests(req, subscribed)'
  <2>1. (subscribed => subscribed') /\ (Head(req) = "SUBSCRIBE_EVENTS_NP" => subscribed')
    BY SMTT(40) DEF Answer, Get
  <2>2. StartRequests(Tail(req), subscribed')
    <3>1. subscribed \in BOOLEAN /\ subscribed' \in BOOLEAN /\ StartRequests(req, subscribed)
      BY Zenon DEF IInv, DaemonType, SyncInv
    <3> QED
      BY <1>0, <2>1, <3>1, RequestTaken, Zenon
  <2> QED
    BY <1>0, <2>2, Zenon DEF SyncInv
<1>7. Unheard'
  <2>1. ~Asked(req', 2, "TIME_STATUS_NP")
    <3>1. 2 \in Nat /\ 2 # 1
      OBVIOUS
    <3>2. ~Asked(req', 1, "SUBSCRIBE_EVENTS_NP") \/ ~Asked(req', 2, "TIME_STATUS_NP")
      <4>1. Asked(req', 2, "TIME_STATUS_NP") => Asked(req, 2 + 1, "TIME_STATUS_NP")
        BY <1>0, <3>1, AskedTail, Zenon
      <4>2. 2 + 1 \in Nat /\ 2 + 1 # 1 /\ 2 + 1 # 2
        OBVIOUS
      <4>3. ~Asked(req, 2 + 1, "TIME_STATUS_NP")
        BY <4>2, Zenon DEF SyncInv, StartRequests
      <4> QED
        BY <4>1, <4>3, Zenon
    <3> QED
      BY <1>6, <3>1, <3>2, Zenon DEF StartRequests
  <2> QED
    BY <2>1, Zenon DEF Unheard
<1>8. \E x \in BOOLEAN, y \in BOOLEAN : StartsWith(x)' /\ Way(x, rx', y) /\ EndsWith(y)'
  <2>t. \A t \in Get : Report(t) \in Message
    BY <1>0, ReportType, Zenon DEF Tlv
  <2>1. CASE Head(req) = "SUBSCRIBE_EVENTS_NP"
    <3>1. rx' = rx
      BY <2>1, SMTT(40) DEF Answer, Get
    <3>2. ~Asked(req', 1, "PORT_DATA_SET")
      BY <1>4, <1>5, <2>1
    <3>3. CASE Asked(req, 2, "TIME_STATUS_NP")
      <4>1. rx = <<>> /\ pc \notin Handling /\ ~event.syncedWithGm
        BY <3>3, Zenon DEF SyncInv, Unheard
      <4>2. StartsWith(FALSE)
        BY <4>1, Zenon DEF StartsWith, Fits
      <4>3. EndsWith(FALSE)'
        BY <3>2, Zenon DEF EndsWith
      <4>4. Way(FALSE, <<>>, FALSE)
        BY WayEmpty, Zenon
      <4> QED
        BY <1>2, <3>1, <4>1, <4>2, <4>3, <4>4, Zenon
    <3>4. CASE ~Asked(req, 2, "TIME_STATUS_NP")
      <4>1. EndsWith(b)'
        BY <1>4, <3>2, <3>4, Zenon DEF EndsWith
      <4> QED
        BY <1>1, <1>2, <3>1, <4>1, Zenon
    <3> QED
      BY <3>3, <3>4
  <2>2. CASE Head(req) = "TIME_STATUS_NP"
    <3>1. rx' = Append(rx, Report("TIME_STATUS_NP")) /\ "TIME_STATUS_NP" \in Get
      BY <2>2, SMTT(40) DEF Answer, Get
    <3>2. ~Asked(req', 1, "TIME_STATUS_NP")
      BY <1>4, <1>5, <2>2
    <3>3. CASE gm' = Own
      <4>1. ~b
        BY <1>0, <1>1, <1>3, <2>2, <3>3, Zenon DEF EndsWith
      <4>2. Way(a, rx', FALSE)
        BY <1>0, <1>1, <2>t, <3>1, <3>3, <4>1, WayAppend, ReportCarries, Zenon
      <4>3. EndsWith(FALSE)'
        BY <1>6, <3>2, <3>3, ConstantsAssumption, Zenon DEF EndsWith
      <4> QED
        BY <1>1, <1>2, <4>2, <4>3, Zenon
    <3>4. CASE gm' # Own
      <4>1. Way(a, rx', TRUE)
        BY <1>0, <1>1, <2>t, <3>1, <3>4, WayAppend, ReportCarries, Zenon
      <4>2. EndsWith(TRUE)'
        BY <3>2, Zenon DEF EndsWith
      <4> QED
        BY <1>1, <1>2, <4>1, <4>2, Zenon
    <3> QED
      BY <3>3, <3>4
  <2>3. CASE Head(req) \in {"PORT_DATA_SET", "LOG_SYNC_INTERVAL"}
    <3>1. rx' = Append(rx, Report(Head(req))) /\ Head(req) \in Get
      BY <2>3, SMTT(40) DEF Answer, Get
    <3>2. ~Asked(req', 1, "TIME_STATUS_NP") /\ ~Asked(req', 1, "PORT_DATA_SET")
      BY <1>4, <1>5, <2>3
    <3>3. \A y \in BOOLEAN : EndsWith(y)'
      BY <3>2, Zenon DEF EndsWith
    <3>4. \E y \in BOOLEAN : Carries(b, Report(Head(req)), y)
      <4>1. CASE Head(req) = "LOG_SYNC_INTERVAL"
        <5>1. "LOG_SYNC_INTERVAL" \notin {"TIME_STATUS_NP", "PORT_DATA_SET"}
          OBVIOUS
        <5> QED
          BY <4>1, <5>1, ReportCarries, Zenon
      <4>2. CASE Head(req) = "PORT_DATA_SET"
        <5>1. CASE port' = "SLAVE"
          <6>1. b
            BY <1>0, <1>1, <1>3, <4>2, <5>1, Zenon DEF EndsWith
          <6> QED
            BY <4>2, <5>1, <6>1, ReportCarries, Zenon
        <5>2. CASE port' = "MASTER" \/ port' = "OTHER"
          BY <4>2, <5>2, ReportCarries, Zenon
        <5> QED
          BY <1>0, <5>1, <5>2, Zenon DEF Port
      <4> QED
        BY <2>3, <4>1, <4>2
    <3> QED
      BY <1>0, <1>1, <1>2, <2>t, <3>1, <3>3, <3>4, WayAppend, Zenon
  <2>4. Head(req) \in Get \cup {"SUBSCRIBE_EVENTS_NP"}
    BY <1>0, SMTT(40)
  <2> QED
    BY <2>1, <2>2, <2>3, <2>4, Zenon DEF Get
<1> QED
  BY <1>6, <1>7, <1>8, Zenon DEF SyncInv

\* ptp4l starts or ends, or the thread is asked to stop.
LEMMA RestartSync ==
  ASSUME IInv, SyncInv, Start \/ End \/ Stop \/ UNCHANGED vars
  PROVE  SyncInv'
<1>0. UNCHANGED <<pc, msg, event, gmIdentity, heard, rx>>
  BY Zenon DEF Start, End, Stop, vars
<1>1. PICK a \in BOOLEAN, b \in BOOLEAN : StartsWith(a) /\ Way(a, rx, b) /\ EndsWith(b)
  BY Zenon DEF SyncInv
<1>2. StartsWith(a)'
  BY <1>0, <1>1, Zenon DEF StartsWith, Fits
<1>3. \/ req' = <<>> /\ UNCHANGED <<port, gm>>
      \/ /\ UNCHANGED <<req, subscribed>>
         /\ \/ UNCHANGED <<port, gm>>
            \/ port' = "OTHER" /\ gm' = NoGm
  BY Zenon DEF Start, End, Stop, vars, ptp4l
<1>4. (port = "SLAVE" => gm = Foreign)'
  BY <1>3 DEF SyncInv
<1>5. \A k, id : ~Asked(<<>>, k, id)
  BY SMTT(40) DEF Asked
<1>6. StartRequests(req, subscribed)'
  <2>1. CASE req' = <<>>
    BY <1>5, <2>1, Zenon DEF StartRequests
  <2>2. CASE UNCHANGED <<req, subscribed>>
    BY <2>2, Zenon DEF SyncInv
  <2> QED
    BY <1>3, <2>1, <2>2, Zenon
<1>7. Unheard'
  BY <1>0, <1>3, <1>5, Zenon DEF SyncInv, Unheard
<1>8. EndsWith(b)'
  <2>1. CASE req' = <<>>
    BY <1>5, <2>1, Zenon DEF EndsWith
  <2>2. CASE UNCHANGED <<req, port, gm>>
    BY <1>1, <2>2, Zenon DEF EndsWith
  <2>3. CASE port' = "OTHER" /\ gm' = NoGm
    <3>1. port' # "SLAVE" /\ gm' # Own
      BY <2>3, ConstantsAssumption
    <3> QED
      BY <3>1, Zenon DEF EndsWith
  <2> QED
    BY <1>3, <2>1, <2>2, <2>3, Zenon
<1> QED
  BY <1>0, <1>1, <1>2, <1>4, <1>6, <1>7, <1>8, Zenon DEF SyncInv

\* A callback: what it makes of the event is what the message's labels promise.
LEMMA HandleSync ==
  ASSUME IInv, SyncInv, event_handle
  PROVE  SyncInv'
<1>0. /\ UNCHANGED <<port, gm, subscribed, req, rx, msg>> /\ pc \in Handling
      /\ pc' \in {"poll", "publish", "request"} /\ event \in ptp_event
      /\ msg.port \in Port
  <2>1. UNCHANGED <<port, gm, subscribed, req, rx, msg>> /\ pc \in Handling
    BY Zenon DEF event_handle, ptp4l, Handling
  <2>2. event \in ptp_event /\ msg \in Message
    BY Zenon DEF IInv, ThreadType
  <2>3. msg.port \in Port
    BY <2>2, SMTT(40) DEF Message
  <2> QED
    BY <2>1, <2>2, <2>3, CallbacksHandle, Zenon DEF Handled
<1>1. PICK a \in BOOLEAN, b \in BOOLEAN : StartsWith(a) /\ Way(a, rx, b) /\ EndsWith(b)
  BY Zenon DEF SyncInv
<1>2. PICK c \in BOOLEAN : Fits(c) /\ Carries(c, msg, a)
  BY <1>0, <1>1, Zenon DEF StartsWith
<1>3. event.syncedWithGm => heard = "SLAVE"
  BY Zenon DEF SyncInv
<1>4. Fits(a)' /\ (event.syncedWithGm => heard = "SLAVE")'
  <2>e. /\ \A x, y : [event EXCEPT !.clockOffset = x, !.gmClockUUID = y].syncedWithGm
                      = event.syncedWithGm
        /\ \A x : [event EXCEPT !.syncInterval = x].syncedWithGm = event.syncedWithGm
        /\ \A x : [event EXCEPT !.asCapable = x].syncedWithGm = event.syncedWithGm
        /\ [event EXCEPT !.syncedWithGm = TRUE].syncedWithGm = TRUE
    BY <1>0, SMTT(40) DEF ptp_event
  <2>1. CASE msg.tlv = "TIME_STATUS_NP" /\ TIME_STATUS_NP_h
    <3>1. event'.syncedWithGm = event.syncedWithGm /\ gmIdentity' = msg.gm /\ heard' = heard
      BY <2>1, <2>e DEF TIME_STATUS_NP_h
    <3> QED
      BY <1>2, <1>3, <2>1, <3>1, Zenon DEF Fits, Carries
  <2>2. CASE \/ msg.tlv = "LOG_SYNC_INTERVAL" /\ LOG_SYNC_INTERVAL_h
             \/ msg.tlv = "CMLDS_INFO_NP" /\ CMLDS_INFO_NP_h
    <3>1. event'.syncedWithGm = event.syncedWithGm /\ UNCHANGED <<gmIdentity, heard>>
      <4>1. CASE LOG_SYNC_INTERVAL_h
        <5>1. /\ UNCHANGED <<gmIdentity, heard>>
              /\ event' = event
                 \/ event' = [event EXCEPT !.syncInterval = SyncInterval(LogSyncInterval)]
          BY <4>1, Zenon DEF LOG_SYNC_INTERVAL_h
        <5> QED
          BY <2>e, <5>1, Zenon
      <4>2. CASE CMLDS_INFO_NP_h
        <5>1. /\ UNCHANGED <<gmIdentity, heard>>
              /\ event' = [event EXCEPT !.asCapable = msg.capable]
          BY <4>2, Zenon DEF CMLDS_INFO_NP_h
        <5> QED
          BY <2>e, <5>1, Zenon
      <4> QED
        BY <2>2, <4>1, <4>2, Zenon
    <3>2. a <=> c
      BY <1>2, <2>2 DEF Carries
    <3> QED
      BY <1>2, <1>3, <3>1, <3>2, Zenon DEF Fits
  <2>3. CASE msg.tlv = "PORT_DATA_SET" /\ PORT_DATA_SET_h
    <3>1. CASE msg.port = "OTHER"
      <4>1. event' = portDataClear(event) /\ gmIdentity' = gmIdentity
        BY <2>3, <3>1 DEF PORT_DATA_SET_h
      <4>2. ~event'.syncedWithGm
        BY <1>0, <4>1, PortDataClearType, Zenon
      <4> QED
        BY <1>2, <2>3, <3>1, <4>1, <4>2, Zenon DEF Fits, Carries
    <3>2. CASE msg.port = "MASTER" /\ gmIdentity = Own
      <4>1. UNCHANGED <<event, gmIdentity>>
        BY <2>3, <3>2 DEF PORT_DATA_SET_h
      <4>2. ~event.syncedWithGm
        BY <1>2, <3>2, Zenon DEF Fits
      <4> QED
        BY <1>2, <2>3, <3>2, <4>1, <4>2, Zenon DEF Fits, Carries
    <3>3. CASE msg.port = "MASTER" /\ gmIdentity # Own
      <4>1. event' = MasterEvent(event)
        BY <2>3, <3>3 DEF PORT_DATA_SET_h
      <4>2. ~event'.syncedWithGm
        <5>1. portDataClear(event) \in ptp_event /\ ~portDataClear(event).syncedWithGm
          BY <1>0, PortDataClearType, Zenon
        <5>2. \A e \in ptp_event : [e EXCEPT !.gmClockUUID = Own].syncedWithGm = e.syncedWithGm
          BY SMTT(40) DEF ptp_event
        <5> QED
          BY <4>1, <5>1, <5>2, Zenon DEF MasterEvent
      <4> QED
        BY <1>2, <2>3, <3>3, <4>2, Zenon DEF Fits, Carries
    <3>4. CASE msg.port = "SLAVE"
      <4>1. event' = [event EXCEPT !.syncedWithGm = TRUE] /\ gmIdentity' = gmIdentity
            /\ heard' = "SLAVE"
        BY <2>3, <3>4 DEF PORT_DATA_SET_h
      <4>2. a /\ c
        BY <1>2, <2>3, <3>4, Zenon DEF Carries
      <4> QED
        BY <1>2, <4>1, <4>2, Zenon DEF Fits
    <3> QED
      BY <1>0, <3>1, <3>2, <3>3, <3>4, Zenon DEF Port
  <2> QED
    BY <2>1, <2>2, <2>3, Zenon DEF event_handle
<1>5. StartsWith(a)'
  BY <1>0, <1>4 DEF StartsWith, Handling
<1>6. EndsWith(b)'
  BY <1>0, <1>1, Zenon DEF EndsWith
<1>7. Unheard' /\ StartRequests(req, subscribed)' /\ (port = "SLAVE" => gm = Foreign)'
  <2>1. ~Asked(req, 2, "TIME_STATUS_NP")
    BY <1>0, Zenon DEF SyncInv, Unheard
  <2> QED
    BY <1>0, <2>1, Zenon DEF SyncInv, Unheard
<1> QED
  BY <1>0, <1>1, <1>4, <1>5, <1>6, <1>7, Zenon DEF SyncInv

\* The other steps of the thread.
LEMMA ThreadSync ==
  ASSUME IInv, SyncInv, Thread
  PROVE  SyncInv'
<1>1. PICK a \in BOOLEAN, b \in BOOLEAN : StartsWith(a) /\ Way(a, rx, b) /\ EndsWith(b)
  BY Zenon DEF SyncInv
<1>t. /\ req \in Seq(Get \cup {"SUBSCRIBE_EVENTS_NP"}) /\ rx \in Seq(Message)
  BY Zenon DEF IInv, ReqType, RxType
<1>2. CASE ThreadEnds \/ GoOn \/ Publish \/ PollTimeout \/ RetryFails
  <2>1. UNCHANGED <<port, gm, subscribed, req, rx, msg, event, gmIdentity, heard>>
    BY <1>2, Zenon DEF ThreadEnds, GoOn, Publish, PollTimeout, RetryFails, ptp4l
  <2>2. \/ pc' = "done"
        \/ pc \in Handling /\ pc' \in Handling
        \/ pc \notin Handling \cup {"done"} /\ pc' \notin Handling \cup {"done"}
    BY <1>2, SMTT(40) DEF ThreadEnds, GoOn, Tested, Publish, PollTimeout, RetryFails,
       Handling
  <2>3. StartsWith(a)'
    <3>1. CASE pc' = "done"
      BY <3>1 DEF StartsWith, Handling
    <3>2. CASE pc' # "done"
      BY <1>1, <2>1, <2>2, <3>2, Zenon DEF StartsWith, Fits
    <3> QED
      BY <3>1, <3>2, Zenon
  <2>4. EndsWith(b)'
    BY <1>1, <2>1, Zenon DEF EndsWith
  <2>5. Unheard'
    <3>1. pc' \in Handling => pc \in Handling
      BY <2>2 DEF Handling
    <3> QED
      BY <2>1, <3>1, Zenon DEF SyncInv, Unheard
  <2> QED
    BY <1>1, <2>1, <2>3, <2>4, <2>5, Zenon DEF SyncInv
<1>3. CASE ThreadStarts
  <2>1. /\ UNCHANGED <<port, gm, subscribed, rx, msg, event, gmIdentity, heard>>
        /\ pc = "connect" /\ pc' = "poll"
        /\ \/ req' = req
           \/ req' = req \o <<"SUBSCRIBE_EVENTS_NP", "TIME_STATUS_NP", "PORT_DATA_SET",
                              "LOG_SYNC_INTERVAL">>
    BY <1>3, Zenon DEF ThreadStarts, ptp4l
  <2>2. req = <<>> /\ rx = <<>> /\ ~subscribed /\ event = NoEvent
    BY <2>1, Zenon DEF IInv, PublishInv, Fresh
  <2>3. StartsWith(a)'
    BY <1>1, <2>1 DEF StartsWith, Fits, Handling
  <2> DEFINE first == <<"SUBSCRIBE_EVENTS_NP", "TIME_STATUS_NP", "PORT_DATA_SET",
                        "LOG_SYNC_INTERVAL">>
  <2>4. req' = req \/ req' = first
    BY <2>1, <2>2, SMTT(40)
  <2>5. /\ \A k \in Nat : Asked(first, k, "TIME_STATUS_NP") => k = 2
        /\ \A k \in Nat : Asked(first, k, "PORT_DATA_SET") => k = 3
        /\ Asked(first, 1, "SUBSCRIBE_EVENTS_NP") /\ Asked(first, 2, "TIME_STATUS_NP")
        /\ ~Asked(first, 1, "TIME_STATUS_NP") /\ ~Asked(first, 1, "PORT_DATA_SET")
    BY SMTT(40) DEF Asked
  <2> HIDE DEF first
  <2>6. EndsWith(b)'
    BY <1>1, <2>1, <2>4, <2>5, Zenon DEF EndsWith
  <2>7. StartRequests(req, subscribed)'
    <3>1. StartRequests(first, subscribed)
      <4>1. \A k \in Nat : Asked(first, k, "PORT_DATA_SET") =>
              k \in {2, 3} /\ Asked(first, k - 1, "TIME_STATUS_NP")
        BY <2>5, SMTT(40)
      <4> QED
        BY <2>5, <4>1, Zenon DEF StartRequests
    <3> QED
      BY <2>1, <2>4, <3>1, Zenon DEF SyncInv
  <2>8. Unheard'
    <3>1. ~NoEvent.syncedWithGm
      BY DEF NoEvent
    <3> QED
      BY <2>1, <2>2, <3>1 DEF Unheard, Handling
  <2> QED
    BY <1>1, <2>1, <2>3, <2>6, <2>7, <2>8, Zenon DEF SyncInv
<1>4. CASE Receive
  <2>1. /\ UNCHANGED <<port, gm, subscribed, req, event, gmIdentity, heard>>
        /\ pc = "poll" /\ pc' = "handle" /\ rx # <<>>
        /\ msg' = Head(rx) /\ rx' = Tail(rx)
    BY <1>4, Zenon DEF Receive, ptp4l
  <2>2. PICK c \in BOOLEAN : Carries(a, Head(rx), c) /\ Way(c, Tail(rx), b)
    BY <1>1, <1>t, <2>1, WayTail, Zenon
  <2>3. Fits(a)
    BY <1>1, <2>1 DEF StartsWith, Handling
  <2>4. StartsWith(c)'
    BY <2>1, <2>2, <2>3, Zenon DEF StartsWith, Fits, Handling
  <2>5. EndsWith(b)'
    BY <1>1, <2>1, Zenon DEF EndsWith
  <2>6. Unheard'
    BY <2>1, Zenon DEF SyncInv, Unheard
  <2> QED
    BY <2>1, <2>2, <2>4, <2>5, <2>6, Zenon DEF SyncInv
<1>5. CASE event_handle
  BY <1>5, HandleSync
<1>6. CASE Request \/ RetrySucceeds
  <2>1. /\ UNCHANGED <<port, gm, subscribed, rx, msg, event, gmIdentity, heard>>
        /\ pc \in {"request", "subscribe"} /\ pc' \in {"publish", "poll"}
        /\ \/ req' = req
           \/ req' = Append(req, "LOG_SYNC_INTERVAL")
           \/ req' = Append(req, "SUBSCRIBE_EVENTS_NP")
    BY <1>6, Zenon DEF Request, RetrySucceeds, Send, ptp4l
  <2>2. StartsWith(a)'
    BY <1>1, <2>1 DEF StartsWith, Fits, Handling
  <2>3. StartRequests(req, subscribed)'
    BY <1>t, <2>1, RequestMade, Zenon DEF SyncInv
  <2>4. \A k : /\ Asked(req', k, "TIME_STATUS_NP") => Asked(req, k, "TIME_STATUS_NP")
               /\ Asked(req', k, "PORT_DATA_SET") => Asked(req, k, "PORT_DATA_SET")
    <3>1. /\ "TIME_STATUS_NP" # "LOG_SYNC_INTERVAL" /\ "PORT_DATA_SET" # "LOG_SYNC_INTERVAL"
          /\ "TIME_STATUS_NP" # "SUBSCRIBE_EVENTS_NP"
          /\ "PORT_DATA_SET" # "SUBSCRIBE_EVENTS_NP"
      OBVIOUS
    <3>2. ASSUME NEW x \in {"SUBSCRIBE_EVENTS_NP", "LOG_SYNC_INTERVAL"}, NEW k
          PROVE  /\ Asked(Append(req, x), k, "TIME_STATUS_NP") <=> Asked(req, k, "TIME_STATUS_NP")
                 /\ Asked(Append(req, x), k, "PORT_DATA_SET") <=> Asked(req, k, "PORT_DATA_SET")
      <4>1. x # "TIME_STATUS_NP" /\ x # "PORT_DATA_SET"
        BY <3>1, <3>2, Zenon
      <4> QED
        BY <1>t, <4>1, AskedAppend, Zenon
    <3> QED
      BY <2>1, <3>2, Zenon
  <2>5. EndsWith(b)'
    BY <1>1, <2>1, <2>4, Zenon DEF EndsWith
  <2>6. Unheard'
    <3>1. pc' \notin Handling
      BY <2>1 DEF Handling
    <3> QED
      BY <2>1, <2>4, <3>1, Zenon DEF SyncInv, Unheard
  <2> QED
    BY <1>1, <2>1, <2>2, <2>3, <2>5, <2>6, Zenon DEF SyncInv
<1>7. CASE RetryLoses
  <2>1. /\ UNCHANGED <<port, gm, subscribed, req, rx, msg, gmIdentity, heard>>
        /\ pc = "subscribe" /\ pc' = "publishLost" /\ event' = NoEvent
    BY <1>7, Zenon DEF RetryLoses, portReset, ptp4l
  <2>2. ~event'.syncedWithGm
    BY <2>1 DEF NoEvent
  <2>3. StartsWith(a)'
    BY <1>1, <2>1, <2>2 DEF StartsWith, Fits, Handling
  <2>4. EndsWith(b)'
    BY <1>1, <2>1, Zenon DEF EndsWith
  <2>5. Unheard'
    BY <2>1, <2>2 DEF SyncInv, Unheard, Handling
  <2> QED
    BY <1>1, <2>1, <2>2, <2>3, <2>4, <2>5, Zenon DEF SyncInv
<1> QED
  BY <1>2, <1>3, <1>4, <1>5, <1>6, <1>7, Zenon DEF Thread

LEMMA SyncInvariant == Spec => []SyncInv
<1>1. Init => SyncInv
  <2> SUFFICES ASSUME Init PROVE SyncInv
    OBVIOUS
  <2>1. /\ port = "OTHER" /\ req = <<>> /\ rx = <<>> /\ pc = "start" /\ event = NoEvent
    BY Zenon DEF Init
  <2>2. ~event.syncedWithGm
    BY <2>1 DEF NoEvent
  <2>3. \A k, id : ~Asked(req, k, id)
    BY <2>1, SMTT(40) DEF Asked
  <2>4. StartsWith(FALSE)
    BY <2>1, <2>2 DEF StartsWith, Fits, Handling
  <2>5. EndsWith(FALSE) /\ Unheard /\ StartRequests(req, subscribed)
    BY <2>3, Zenon DEF EndsWith, Unheard, StartRequests
  <2>6. Way(FALSE, rx, FALSE)
    BY <2>1, WayEmpty, Zenon
  <2>7. port # "SLAVE"
    BY <2>1
  <2> QED
    BY <2>2, <2>4, <2>5, <2>6, <2>7, Zenon DEF SyncInv
<1>2. IInv /\ IInv' /\ SyncInv /\ [Next]_vars => SyncInv'
  <2> SUFFICES ASSUME IInv, IInv', SyncInv, [Next]_vars PROVE SyncInv'
    OBVIOUS
  <2>1. CASE Daemon
    <3>1. ASSUME NEW s \in Port, PortChange(s) PROVE SyncInv'
      BY <3>1, ChangeSync, Zenon DEF PortChange
    <3>2. CASE CapableChange \/ TimeSync
      <4>1. "OTHER" \in Port /\ Change
        BY <3>2, Zenon DEF CapableChange, TimeSync, Port
      <4> QED
        BY <3>2, <4>1, ChangeSync, Zenon
    <3> QED
      BY <2>1, <3>1, <3>2, AnswerSync, RestartSync, Zenon DEF Daemon
  <2>2. CASE Stop \/ UNCHANGED vars
    BY <2>2, RestartSync, Zenon
  <2>3. CASE Thread
    BY <2>3, ThreadSync
  <2> QED
    BY <2>1, <2>2, <2>3, Zenon DEF Next
<1> QED
  BY <1>1, <1>2, Invariant, PTL DEF Spec

\* What is published says synchronised only if the port's last report was that it
\* is a time receiver, in whatever order port states, time reports, answers,
\* restarts and losses of ptp4l reach the thread.
THEOREM SyncedFromSlave == Spec => []SyncedOnlyAsSlave
<1>1. IInv /\ SyncInv => SyncedOnlyAsSlave
  BY DEF IInv, PublishInv, SyncInv, SyncedOnlyAsSlave
<1> QED
  BY <1>1, Invariant, SyncInvariant, PTL

============================================================================
