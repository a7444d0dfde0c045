--------------------------- MODULE TimeBaseState ---------------------------
(***************************************************************************)
(* The state the client runtime keeps of one time base                     *)
(* (clkmgr/client/timebase_state.cpp): event detection and event counts.   *)
(* The client's listener thread applies notifications and subscribe        *)
(* replies; application threads subscribe, and wait for events, each read  *)
(* resetting the counts.  TimeBaseStates::mtx makes every read or update   *)
(* one action.  Time bases share no state, so one is modelled.             *)
(*                                                                         *)
(* Left out: time stamps, and the sync interval and the system clock's     *)
(* source, which are copied through and only tell whether data are empty.  *)
(***************************************************************************)
EXTENDS Integers

CONSTANTS
  App,          \* application threads
  PtpData,      \* ptp_event values the proxy may send
  SysData,      \* chrony_event values the proxy may send
  Subscription, \* what an application may subscribe with
  Half,         \* 2^31: thresholds are stored unsigned and used signed
  MinNegated,   \* what the build makes of the overflow in -(-2^31)
  CountMod,     \* 2^32: event counts wrap around
  MaxData,      \* bound: messages from the proxy
  MaxCall       \* bound: API calls

EventIndex == {"OffsetInRange", "SyncedWithGm", "AsCapable", "GmChanged"}
PTP_COMPOSITE_EVENT_ALL == EventIndex \ {"GmChanged"}
PtpEvent == EventIndex \cup {"Composite"}
\* "Sys": the system clock's offset-in-range event.
Event == PtpEvent \cup {"Sys"}

ptp_event == [offset : Int, gm : Nat, synced : BOOLEAN, capable : BOOLEAN,
              interval : BOOLEAN]
chrony_event == [offset : Int, source : BOOLEAN]
Threshold == 0 .. 2 * Half - 1
\* A ClockSyncSubscription: the clocks it enables, their masks and thresholds.
ClockSyncSubscription ==
  [clocks : SUBSET {"PTP", "Sys"}, mask : SUBSET EventIndex,
   composite : SUBSET PTP_COMPOSITE_EVENT_ALL, threshold : Threshold,
   sysMask : SUBSET {"OffsetInRange"}, sysThreshold : Threshold]

ASSUME ConstantsAssumption ==
  /\ PtpData \subseteq ptp_event
  /\ SysData \subseteq chrony_event
  /\ Half \in Nat \ {0}
  /\ MinNegated \in {-Half, Half}
  /\ Subscription \subseteq ClockSyncSubscription
  /\ CountMod \in Nat \ {0, 1}
  /\ CountMod % 2 = 0
  /\ MaxData \in Nat
  /\ MaxCall \in Nat

NoSubscription ==
  [clocks |-> {}, mask |-> {}, composite |-> {}, threshold |-> 0,
   sysMask |-> {}, sysThreshold |-> 0]
NoPtpData == [offset |-> 0, gm |-> 0, synced |-> FALSE, capable |-> FALSE,
              interval |-> FALSE]
NoSysData == [offset |-> 0, source |-> FALSE]

VARIABLES
  sub,          \* ptpEventSub and sysEventSub
  flag,         \* the binary events of ptpEventState and sysEventState
  count,        \* ... and how often each was counted since the last read
  offset, gm,   \* ptpEventState: clockOffset, gmClockUUID
  sysOffset,    \* sysEventState: clockOffset
  have,         \* havePtPData, haveSysData: the clocks data were received of
  event_changed,
  subscribed,   \* a subscribe reply was received
  lpc, reply,   \* the listener thread, and the system clock data it still holds
  apc, asking,  \* the application threads, and what each subscribes to
  asked, answered,  \* subscribe requests sent, and answered
  data, call,   \* messages and calls so far: bound the model
  total,        \* history: how often each event was counted
  reported,     \* history: how often it was reported to the application
  seen,         \* history: the binary events when they were last read
  latest        \* history: {last PTP data since the subscription was set}

clockState == <<flag, count, offset, gm, sysOffset, have, event_changed>>
history == <<total, reported, seen, latest>>
vars == <<sub, clockState, subscribed, lpc, reply, apc, asking, asked, answered,
          data, call, history>>

---------------------------------------------------------------------------
(* Event detection *)

\* int32_t ptpThreshold = static_cast<uint32_t>(...).
AsSigned(t) == IF t < Half THEN t ELSE t - 2 * Half

\* The lower limit, -ptpThreshold.
Negated(s) == IF s = -Half THEN MinNegated ELSE -s

InRange(o, t) == o >= Negated(AsSigned(t)) /\ o <= AsSigned(t)

\* The state of binary event ev once PTP data e are applied.
SimpleFlag(ev, e) ==
  CASE ev \notin sub.mask   -> flag[ev]
    [] ev \in sub.mask /\ ev = "OffsetInRange" ->
         IF e.offset # offset THEN InRange(e.offset, sub.threshold) ELSE flag[ev]
    [] ev \in sub.mask /\ ev = "SyncedWithGm"  -> e.synced
    [] ev \in sub.mask /\ ev = "AsCapable"     -> e.capable
    [] ev \in sub.mask /\ ev = "GmChanged"     -> e.gm # gm \/ flag[ev]

NewFlag(ev, e) ==
  IF ev # "Composite" THEN SimpleFlag(ev, e)
  ELSE IF sub.composite = {} THEN flag[ev]
  ELSE \A part \in sub.composite : SimpleFlag(part, e)

\* Mutant: every new offset counts as an offset-in-range event.
CountsEveryOffset(ev, e) ==
  CASE ev = "GmChanged"     -> ev \in sub.mask /\ e.gm # gm
    [] ev = "OffsetInRange" -> ev \in sub.mask /\ e.offset # offset
    [] OTHER                -> NewFlag(ev, e) # flag[ev]

\* Whether e makes event ev count: its state changes or, for GmChanged, a new
\* grandmaster is seen.
Counts(ev, e) ==
  IF ev = "GmChanged" THEN ev \in sub.mask /\ e.gm # gm
                      ELSE NewFlag(ev, e) # flag[ev]

\* Mutant: counts that do not wrap around.
PlusWide(m, n) == m + n

\* uint32_t addition of two counts.
Plus(m, n) == IF m + n < CountMod THEN m + n ELSE m + n - CountMod

EventCounts(f, hits) ==
  [ev \in Event |-> IF ev \in hits THEN Plus(f[ev], 1) ELSE f[ev]]

\* Mutant: the composite event is counted without setting event_changed.
EventChangedNotComposite(hits) == event_changed \/ hits \ {"Composite"} # {}

EventChanged(hits) == event_changed \/ hits # {}

setTimeBaseStatePtp(e) ==
  LET hits == {ev \in PtpEvent : Counts(ev, e)} IN
  /\ flag' = [ev \in Event |-> IF ev \in PtpEvent THEN NewFlag(ev, e) ELSE flag[ev]]
  /\ count' = EventCounts(count, hits)
  /\ offset' = IF "OffsetInRange" \in sub.mask THEN e.offset ELSE offset
  /\ gm' = IF "GmChanged" \in sub.mask THEN e.gm ELSE gm
  /\ have' = have \cup {"PTP"}
  /\ event_changed' = EventChanged(hits)
  /\ total' = EventCounts(total, hits)
  /\ UNCHANGED sysOffset

NewSysFlag(e) ==
  IF sub.sysMask # {} /\ e.offset # sysOffset
  THEN InRange(e.offset, sub.sysThreshold) ELSE flag["Sys"]

setTimeBaseStateSys(e) ==
  LET hits == IF NewSysFlag(e) # flag["Sys"] THEN {"Sys"} ELSE {} IN
  /\ flag' = [flag EXCEPT !["Sys"] = NewSysFlag(e)]
  /\ count' = EventCounts(count, hits)
  /\ sysOffset' = IF sub.sysMask # {} THEN e.offset ELSE sysOffset
  /\ have' = have \cup {"Sys"}
  /\ event_changed' = EventChanged(hits)
  /\ total' = EventCounts(total, hits)
  /\ UNCHANGED <<offset, gm>>

---------------------------------------------------------------------------
(* The listener thread *)

\* ClientNotificationMessage: new data of one clock, once subscribed.
NotifyPtp(e) ==
  /\ lpc = "idle" /\ asked > 0 /\ data < MaxData
  /\ data' = data + 1
  /\ setTimeBaseStatePtp(e)
  /\ latest' = {e}
  /\ UNCHANGED <<sub, subscribed, lpc, reply, apc, asking, asked, answered, call,
                 reported, seen>>

NotifySys(e) ==
  /\ lpc = "idle" /\ asked > 0 /\ data < MaxData
  /\ data' = data + 1
  /\ setTimeBaseStateSys(e)
  /\ UNCHANGED <<sub, subscribed, lpc, reply, apc, asking, asked, answered, call,
                 reported, seen, latest>>

isPTPDataEmpty(e) == e = NoPtpData
isChronyDataEmpty(e) == e = NoSysData

\* subscribeReply: apply the PTP data, then the system clock's, then mark the
\* time base as subscribed.  Empty data are skipped.
subscribeReply(e, s) ==
  /\ lpc = "idle" /\ answered < asked /\ data < MaxData
  /\ data' = data + 1
  /\ answered' = answered + 1
  /\ lpc' = "sys" /\ reply' = s
  /\ \/ ~isPTPDataEmpty(e) /\ setTimeBaseStatePtp(e)
     \/ isPTPDataEmpty(e) /\ UNCHANGED <<clockState, total>>
  /\ latest' = {e}
  /\ UNCHANGED <<sub, subscribed, apc, asking, asked, call, reported, seen>>

ReplySys ==
  /\ lpc = "sys" /\ lpc' = "set" /\ reply' = NoSysData
  /\ \/ ~isChronyDataEmpty(reply) /\ setTimeBaseStateSys(reply)
     \/ isChronyDataEmpty(reply) /\ UNCHANGED <<clockState, total>>
  /\ UNCHANGED <<sub, subscribed, apc, asking, asked, answered, data, call, reported,
                 seen, latest>>

ReplySubscribed ==
  /\ lpc = "set" /\ lpc' = "idle"
  /\ subscribed' = TRUE
  /\ UNCHANGED <<sub, clockState, reply, apc, asking, asked, answered, data, call,
                 history>>

---------------------------------------------------------------------------
(* Application threads *)

\* Called from ClockManager::subscribe, which passed its checks of the
\* connection and of the time base.
subscribe(a, s) ==
  /\ apc[a] = "idle" /\ call < MaxCall
  /\ call' = call + 1
  /\ apc' = [apc EXCEPT ![a] = "send"]
  /\ asking' = [asking EXCEPT ![a] = s]
  /\ \/ /\ "PTP" \in s.clocks
        /\ sub' = [sub EXCEPT !.mask = s.mask, !.composite = s.composite,
                              !.threshold = s.threshold]
        /\ latest' = {}
     \/ "PTP" \notin s.clocks /\ UNCHANGED <<sub, latest>>
  /\ UNCHANGED <<clockState, subscribed, lpc, reply, asked, answered, data, total,
                 reported, seen>>

\* The system clock's subscription is set on its own, then the request is sent.
SubscribeSend(a) ==
  /\ apc[a] = "send" /\ apc' = [apc EXCEPT ![a] = "reply"]
  /\ \/ /\ "Sys" \in asking[a].clocks
        /\ sub' = [sub EXCEPT !.sysMask = asking[a].sysMask,
                              !.sysThreshold = asking[a].sysThreshold]
     \/ "Sys" \notin asking[a].clocks /\ UNCHANGED sub
  /\ asking' = [asking EXCEPT ![a] = NoSubscription]
  /\ asked' = asked + 1
  /\ UNCHANGED <<clockState, subscribed, lpc, reply, answered, data, call,
                 history>>

\* Mutant: the system clock is copied only where there is no PTP clock.
HandedOne(deliver) ==
  [ev \in Event |-> IF deliver /\ (IF ev = "Sys" THEN have = {"Sys"} ELSE "PTP" \in have)
                   THEN Plus(reported[ev], count[ev])
                   ELSE reported[ev]]

\* The copy read is handed to the application if deliver.
\* ClockSyncBaseHandler::updateAll copies the clocks there are data of.
Handed(deliver) ==
  [ev \in Event |-> IF deliver /\ (IF ev = "Sys" THEN "Sys" ELSE "PTP") \in have
                   THEN Plus(reported[ev], count[ev])
                   ELSE reported[ev]]

getTimeBaseState(deliver) ==
  /\ flag' = [flag EXCEPT !["GmChanged"] = FALSE]
  /\ count' = [ev \in Event |-> 0]
  /\ event_changed' = FALSE
  /\ reported' = Handed(deliver)
  /\ seen' = flag
  /\ UNCHANGED <<sub, offset, gm, sysOffset, have, subscribed, lpc, reply, asking,
                 asked, answered, data, call, total, latest>>

\* DEFAULT_SUBSCRIBE_TIME_OUT is over: subscribe fails.
SubscribeTimeout(a) ==
  /\ apc[a] = "reply" /\ ~subscribed
  /\ apc' = [apc EXCEPT ![a] = "idle"]
  /\ UNCHANGED <<sub, clockState, subscribed, lpc, reply, asking, asked, answered,
                 data, call, history>>

\* Some reply has come, now or before this request: subscribe reads the state.
SubscribeReplied(a) ==
  /\ apc[a] = "reply" /\ subscribed
  /\ apc' = [apc EXCEPT ![a] = "read"]
  /\ UNCHANGED <<sub, clockState, subscribed, lpc, reply, asking, asked, answered,
                 data, call, history>>

SubscribeRead(a) ==
  /\ apc[a] = "read" /\ apc' = [apc EXCEPT ![a] = "idle"]
  /\ getTimeBaseState(TRUE)

\* ClockManager::statusWait of a subscribed time base.
statusWait(a) ==
  /\ apc[a] = "idle" /\ subscribed /\ call < MaxCall
  /\ call' = call + 1
  /\ apc' = [apc EXCEPT ![a] = "wait"]
  /\ UNCHANGED <<sub, clockState, subscribed, lpc, reply, asking, asked, answered,
                 data, history>>

\* One round: report an event, else wait on, give up with the copy read after
\* the timeout, or without it if the connection is lost.
WaitEvent(a) ==
  /\ apc[a] = "wait" /\ event_changed
  /\ apc' = [apc EXCEPT ![a] = "idle"]
  /\ getTimeBaseState(TRUE)

WaitOn(a) ==
  /\ apc[a] = "wait" /\ ~event_changed
  /\ \/ UNCHANGED apc /\ getTimeBaseState(FALSE)
     \/ apc' = [apc EXCEPT ![a] = "idle"]
        /\ \E deliver \in BOOLEAN : getTimeBaseState(deliver)

\* The connection is seen to be lost at the start of a round.
WaitLost(a) ==
  /\ apc[a] = "wait"
  /\ apc' = [apc EXCEPT ![a] = "idle"]
  /\ UNCHANGED <<sub, clockState, subscribed, lpc, reply, asking, asked, answered,
                 data, call, history>>

---------------------------------------------------------------------------

\* The members of a new PTPClockEvent and SysClockEvent: the offset, 0, is in range.
Defaults == [ev \in Event |-> ev \in {"OffsetInRange", "Sys"}]

Init ==
  /\ sub = NoSubscription
  /\ flag = Defaults
  /\ count = [ev \in Event |-> 0]
  /\ offset = 0 /\ gm = 0 /\ sysOffset = 0
  /\ have = {}
  /\ event_changed = FALSE
  /\ subscribed = FALSE
  /\ lpc = "idle" /\ reply = NoSysData
  /\ apc = [a \in App |-> "idle"]
  /\ asking = [a \in App |-> NoSubscription]
  /\ asked = 0 /\ answered = 0
  /\ data = 0 /\ call = 0
  /\ total = [ev \in Event |-> 0]
  /\ reported = [ev \in Event |-> 0]
  /\ seen = Defaults
  /\ latest = {}

ListenerNext ==
  \/ \E e \in PtpData : NotifyPtp(e)
  \/ \E e \in SysData : NotifySys(e)
  \/ \E e \in PtpData, s \in SysData : subscribeReply(e, s)
  \/ ReplySys
  \/ ReplySubscribed

AppNext(a) ==
  \/ \E s \in Subscription : subscribe(a, s)
  \/ SubscribeSend(a)
  \/ SubscribeTimeout(a)
  \/ SubscribeReplied(a)
  \/ SubscribeRead(a)
  \/ statusWait(a)
  \/ WaitEvent(a)
  \/ WaitOn(a)
  \/ WaitLost(a)

Next == ListenerNext \/ \E a \in App : AppNext(a)

Spec == Init /\ [][Next]_vars

---------------------------------------------------------------------------
(* Properties *)

Count == 0 .. CountMod - 1

\* Every variable keeps to its type: counts stay below 2^32, and the stored
\* subscription is one the setters accept (TimeBaseState, timebase_state.hpp).
TypeOK ==
  /\ sub \in ClockSyncSubscription
  /\ flag \in [Event -> BOOLEAN]
  /\ count \in [Event -> Count]
  /\ offset \in Int /\ gm \in Nat /\ sysOffset \in Int
  /\ have \subseteq {"PTP", "Sys"}
  /\ event_changed \in BOOLEAN
  /\ subscribed \in BOOLEAN
  /\ lpc \in {"idle", "sys", "set"} /\ reply \in chrony_event
  /\ apc \in [App -> {"idle", "send", "reply", "read", "wait"}]
  /\ asking \in [App -> ClockSyncSubscription]
  /\ asked \in Nat /\ answered \in Nat
  /\ data \in Nat /\ call \in Nat
  /\ total \in [Event -> Count]
  /\ reported \in [Event -> Count]
  /\ seen \in [Event -> BOOLEAN]
  /\ latest \subseteq ptp_event

\* Every event counted is reported to the application exactly once: the counts
\* handed out by subscribe and statusWait and those still stored add up to the
\* events that happened, modulo 2^32, although statusWait reads, and so resets,
\* the counts every 10 ms and mostly throws its copy away.
EventsReportedOnce ==
  \A ev \in Event : total[ev] = Plus(reported[ev], count[ev])

\* The counts explain the binary events: what was last read, flipped as often
\* as the event counted since, is what is stored now.
CountsExplainFlags ==
  \A ev \in Event \ {"GmChanged"} :
    (flag[ev] # seen[ev]) <=> (count[ev] % 2 = 1)

\* statusWait decides by event_changed alone whether to report or to throw its copy
\* away and wait on: while it is not set nothing has happened since the last read.
\* No count is waiting, no binary event differs from the one last read, and no
\* change of the grandmaster is pending, whichever threads read in between.
NoEventHidden ==
  ~event_changed =>
    /\ \A ev \in Event : count[ev] = 0
    /\ \A ev \in Event \ {"GmChanged"} : flag[ev] = seen[ev]
    /\ ~flag["GmChanged"]

\* subscription.h: "The threshold sets a symmetric range of clock offset".
ThresholdIsSymmetric ==
  \A e \in PtpData, s \in Subscription :
    InRange(e.offset, s.threshold) <=> e.offset <= s.threshold /\ e.offset >= -s.threshold

Satisfied(ev, e) ==
  CASE ev = "OffsetInRange" -> e.offset <= sub.threshold /\ e.offset >= -sub.threshold
    [] ev = "SyncedWithGm"  -> e.synced
    [] ev = "AsCapable"     -> e.capable

\* HLD_clkmgr.md: Offset in Range "indicates whether the offset between the
\* primary and secondary clocks is within the predefined upper and lower limits":
\* of the last data received since the subscription was set.
OffsetInRangeIsCurrent ==
  "OffsetInRange" \in sub.mask =>
    \A e \in latest : flag["OffsetInRange"] = Satisfied("OffsetInRange", e)

\* event.h: isCompositeEventMet checks "if all the conditions in the subscribed
\* composite event are met": by the last data since the subscription was set.
CompositeIsCurrent ==
  sub.composite # {} =>
    \A e \in latest :
      flag["Composite"] = (\A ev \in sub.composite : Satisfied(ev, e))

\* clockmanager.h: subscribe hands out "the current telemetry data": it does not
\* return before the proxy sent some data since the subscription was set.
SubscribeReturnsCurrent ==
  [][\A a \in App : apc[a] = "read" /\ apc'[a] = "idle" => latest # {}]_vars

===========================================================================
