------------------------ MODULE TimeBaseState_proofs ------------------------
(***************************************************************************)
(* Proofs about TimeBaseState, for every set of application threads, every *)
(* data and subscriptions, and every even width of the event counts.       *)
(***************************************************************************)
EXTENDS TimeBaseState, TLAPS

LEMMA NoDataType ==
  /\ NoSubscription \in ClockSyncSubscription
  /\ NoSysData \in chrony_event
  /\ NoPtpData \in ptp_event
  BY ConstantsAssumption DEF NoSubscription, NoSysData, NoPtpData, ptp_event,
     ClockSyncSubscription, chrony_event, Threshold, EventIndex,
     PTP_COMPOSITE_EVENT_ALL

LEMMA PlusType ==
  ASSUME NEW m \in Count, NEW n \in Count
  PROVE  Plus(m, n) \in Count
  BY ConstantsAssumption DEF Plus, Count

LEMMA EventCountsType ==
  ASSUME NEW f \in [Event -> Count], NEW hits
  PROVE  EventCounts(f, hits) \in [Event -> Count]
  <1>1. 1 \in Count
    BY ConstantsAssumption DEF Count
  <1>2. \A ev \in Event : Plus(f[ev], 1) \in Count
    BY <1>1, PlusType
  <1> QED
    BY <1>2 DEF EventCounts

LEMMA FlagType ==
  ASSUME TypeOK, NEW e \in ptp_event, NEW ev \in PtpEvent
  PROVE  NewFlag(ev, e) \in BOOLEAN
  <1>1. \A x \in EventIndex : SimpleFlag(x, e) \in BOOLEAN
    <2> SUFFICES ASSUME NEW x \in EventIndex PROVE SimpleFlag(x, e) \in BOOLEAN
      OBVIOUS
    <2>1. flag[x] \in BOOLEAN
      BY DEF TypeOK, Event, PtpEvent
    <2>2. e.synced \in BOOLEAN /\ e.capable \in BOOLEAN
      BY DEF ptp_event
    <2>3. InRange(e.offset, sub.threshold) \in BOOLEAN
      BY DEF InRange
    <2> QED
      BY <2>1, <2>2, <2>3 DEF SimpleFlag, EventIndex
  <1>2. flag["Composite"] \in BOOLEAN
    BY DEF TypeOK, Event, PtpEvent
  <1> QED
    BY <1>1, <1>2 DEF NewFlag, PtpEvent

\* Applying PTP data keeps the variables it assigns to their types.
LEMMA PtpType ==
  ASSUME TypeOK, NEW e \in ptp_event, setTimeBaseStatePtp(e)
  PROVE  /\ flag' \in [Event -> BOOLEAN] /\ count' \in [Event -> Count]
         /\ offset' \in Int /\ gm' \in Nat /\ sysOffset' \in Int
         /\ have' \subseteq {"PTP", "Sys"} /\ event_changed' \in BOOLEAN
         /\ total' \in [Event -> Count]
  <1>1. flag' \in [Event -> BOOLEAN]
    BY FlagType DEF setTimeBaseStatePtp, TypeOK
  <1>2. count' \in [Event -> Count] /\ total' \in [Event -> Count]
    BY EventCountsType DEF setTimeBaseStatePtp, TypeOK
  <1>3. /\ offset' \in Int /\ gm' \in Nat /\ sysOffset' \in Int
        /\ have' \subseteq {"PTP", "Sys"}
    BY DEF setTimeBaseStatePtp, TypeOK, ptp_event
  <1>4. event_changed' \in BOOLEAN
    BY DEF setTimeBaseStatePtp, EventChanged, TypeOK
  <1> QED
    BY <1>1, <1>2, <1>3, <1>4

LEMMA SysType ==
  ASSUME TypeOK, NEW e \in chrony_event, setTimeBaseStateSys(e)
  PROVE  /\ flag' \in [Event -> BOOLEAN] /\ count' \in [Event -> Count]
         /\ offset' \in Int /\ gm' \in Nat /\ sysOffset' \in Int
         /\ have' \subseteq {"PTP", "Sys"} /\ event_changed' \in BOOLEAN
         /\ total' \in [Event -> Count]
  <1>1. NewSysFlag(e) \in BOOLEAN
    BY DEF NewSysFlag, InRange, TypeOK, Event
  <1>2. flag' \in [Event -> BOOLEAN]
    BY <1>1 DEF setTimeBaseStateSys, TypeOK
  <1>3. count' \in [Event -> Count] /\ total' \in [Event -> Count]
    BY EventCountsType DEF setTimeBaseStateSys, TypeOK
  <1>4. /\ offset' \in Int /\ gm' \in Nat /\ sysOffset' \in Int
        /\ have' \subseteq {"PTP", "Sys"}
    BY DEF setTimeBaseStateSys, TypeOK, chrony_event
  <1>5. event_changed' \in BOOLEAN
    BY DEF setTimeBaseStateSys, EventChanged, TypeOK
  <1> QED
    BY <1>2, <1>3, <1>4, <1>5

\* Reading the state keeps every variable but apc to its type.
LEMMA ReadType ==
  ASSUME TypeOK, NEW deliver \in BOOLEAN, getTimeBaseState(deliver),
         apc' \in [App -> {"idle", "send", "reply", "read", "wait"}]
  PROVE  TypeOK'
  <1>1. reported' \in [Event -> Count]
    <2>1. \A ev \in Event : Plus(reported[ev], count[ev]) \in Count
      BY PlusType DEF TypeOK
    <2> QED
      BY <2>1 DEF getTimeBaseState, Handed, TypeOK
  <1>2. count' \in [Event -> Count]
    BY ConstantsAssumption DEF getTimeBaseState, Count
  <1>3. flag' \in [Event -> BOOLEAN] /\ seen' \in [Event -> BOOLEAN]
    BY DEF getTimeBaseState, TypeOK
  <1> QED
    BY <1>1, <1>2, <1>3 DEF getTimeBaseState, TypeOK

-----------------------------------------------------------------------------
LEMMA ListenerTypeOK == TypeOK /\ ListenerNext => TypeOK'
  <1> SUFFICES ASSUME TypeOK, ListenerNext PROVE TypeOK'
    OBVIOUS
  <1>1. CASE \E e \in PtpData : NotifyPtp(e)
    <2>1. PICK e \in PtpData : NotifyPtp(e)
      BY <1>1
    <2>2. e \in ptp_event /\ setTimeBaseStatePtp(e)
      BY <2>1, ConstantsAssumption DEF NotifyPtp
    <2>3. data' \in Nat /\ latest' \subseteq ptp_event
      BY <2>1, <2>2 DEF NotifyPtp, TypeOK
    <2> QED
      BY <2>1, <2>2, <2>3, PtpType DEF NotifyPtp, TypeOK
  <1>2. CASE \E e \in SysData : NotifySys(e)
    <2>1. PICK e \in SysData : NotifySys(e)
      BY <1>2
    <2>2. e \in chrony_event /\ setTimeBaseStateSys(e)
      BY <2>1, ConstantsAssumption DEF NotifySys
    <2> QED
      BY <2>1, <2>2, SysType DEF NotifySys, TypeOK
  <1>3. CASE \E e \in PtpData, s \in SysData : subscribeReply(e, s)
    <2>1. PICK e \in PtpData, s \in SysData : subscribeReply(e, s)
      BY <1>3
    <2>2. e \in ptp_event /\ s \in chrony_event
      BY ConstantsAssumption
    <2>3. /\ data' \in Nat /\ latest' \subseteq ptp_event /\ answered' \in Nat
          /\ lpc' = "sys" /\ reply' \in chrony_event
      BY <2>1, <2>2, SMTT(40) DEF subscribeReply, TypeOK
    <2>4. CASE setTimeBaseStatePtp(e)
      BY <2>1, <2>2, <2>3, <2>4, PtpType DEF subscribeReply, TypeOK
    <2>5. CASE UNCHANGED <<clockState, total>>
      BY <2>1, <2>3, <2>5 DEF subscribeReply, TypeOK, clockState
    <2> QED
      BY <2>1, <2>4, <2>5 DEF subscribeReply
  <1>4. CASE ReplySys
    <2>1. reply' \in chrony_event /\ lpc' = "set"
      BY <1>4, NoDataType DEF ReplySys
    <2>2. CASE setTimeBaseStateSys(reply)
      BY <1>4, <2>1, <2>2, SysType DEF ReplySys, TypeOK
    <2>3. CASE UNCHANGED <<clockState, total>>
      BY <1>4, <2>1, <2>3 DEF ReplySys, TypeOK, clockState
    <2> QED
      BY <1>4, <2>2, <2>3 DEF ReplySys
  <1>5. CASE ReplySubscribed
    BY <1>5 DEF ReplySubscribed, TypeOK, clockState, history
  <1> QED
    BY <1>1, <1>2, <1>3, <1>4, <1>5 DEF ListenerNext

LEMMA AppTypeOK == \A a \in App : TypeOK /\ AppNext(a) => TypeOK'
  <1> SUFFICES ASSUME NEW a \in App, TypeOK, AppNext(a) PROVE TypeOK'
    OBVIOUS
  <1> DEFINE Pc == {"idle", "send", "reply", "read", "wait"}
  <1>0. \A l \in Pc : [apc EXCEPT ![a] = l] \in [App -> Pc]
    BY DEF TypeOK
  <1>1. CASE \E s \in Subscription : subscribe(a, s)
    <2>1. PICK s \in Subscription : subscribe(a, s)
      BY <1>1
    <2>2. s \in ClockSyncSubscription
      BY ConstantsAssumption
    <2>3. sub' \in ClockSyncSubscription
      <3>1. [sub EXCEPT !.mask = s.mask, !.composite = s.composite,
                        !.threshold = s.threshold] \in ClockSyncSubscription
        BY <2>2 DEF TypeOK, ClockSyncSubscription
      <3> QED
        BY <2>1, <3>1 DEF subscribe, TypeOK
    <2>4. latest' \subseteq ptp_event
      BY <2>1 DEF subscribe, TypeOK
    <2>5. asking' \in [App -> ClockSyncSubscription] /\ apc' \in [App -> Pc]
      BY <2>1, <2>2, <1>0 DEF subscribe, TypeOK
    <2>6. call' \in Nat
      BY <2>1 DEF subscribe, TypeOK
    <2> QED
      BY <2>1, <2>3, <2>4, <2>5, <2>6 DEF subscribe, TypeOK, clockState
  <1>2. CASE SubscribeSend(a)
    <2>1. asking[a] \in ClockSyncSubscription
      BY DEF TypeOK
    <2>2. sub' \in ClockSyncSubscription
      <3>1. [sub EXCEPT !.sysMask = asking[a].sysMask,
                        !.sysThreshold = asking[a].sysThreshold] \in ClockSyncSubscription
        BY <2>1 DEF TypeOK, ClockSyncSubscription
      <3> QED
        BY <1>2, <3>1 DEF SubscribeSend, TypeOK
    <2>3. asking' \in [App -> ClockSyncSubscription] /\ apc' \in [App -> Pc]
      BY <1>2, <1>0, NoDataType DEF SubscribeSend, TypeOK
    <2> QED
      BY <1>2, <2>2, <2>3 DEF SubscribeSend, TypeOK, clockState, history
  <1>3. CASE SubscribeTimeout(a) \/ SubscribeReplied(a) \/ statusWait(a) \/ WaitLost(a)
    <2>1. apc' \in [App -> Pc] /\ call' \in Nat
      BY <1>3, <1>0, SMTT(40) DEF SubscribeTimeout, SubscribeReplied, statusWait, WaitLost, TypeOK
    <2> QED
      BY <1>3, <2>1 DEF SubscribeTimeout, SubscribeReplied, statusWait, WaitLost,
         TypeOK, clockState, history
  <1>4. CASE SubscribeRead(a) \/ WaitEvent(a) \/ WaitOn(a)
    <2>1. apc' \in [App -> Pc]
      BY <1>4, <1>0 DEF SubscribeRead, WaitEvent, WaitOn, TypeOK
    <2>2. PICK deliver \in BOOLEAN : getTimeBaseState(deliver)
      BY <1>4 DEF SubscribeRead, WaitEvent, WaitOn
    <2> QED
      BY <2>1, <2>2, ReadType
  <1> QED
    BY <1>1, <1>2, <1>3, <1>4 DEF AppNext

\* The state of a time base keeps to its type (TimeBaseState, timebase_state.hpp),
\* whatever data the proxy sends and however the threads interleave.
THEOREM TypeCorrect == Spec => []TypeOK
  <1>1. Init => TypeOK
    <2>1. 0 \in Count
      BY ConstantsAssumption DEF Count
    <2> SUFFICES ASSUME Init PROVE TypeOK
      OBVIOUS
    <2>2. /\ flag \in [Event -> BOOLEAN] /\ seen \in [Event -> BOOLEAN]
          /\ count \in [Event -> Count] /\ total \in [Event -> Count]
          /\ reported \in [Event -> Count]
      BY <2>1 DEF Init, Defaults
    <2>3. /\ apc \in [App -> {"idle", "send", "reply", "read", "wait"}]
          /\ asking \in [App -> ClockSyncSubscription]
          /\ sub \in ClockSyncSubscription /\ reply \in chrony_event
      BY NoDataType DEF Init
    <2>4. /\ offset \in Int /\ gm \in Nat /\ sysOffset \in Int
          /\ asked \in Nat /\ answered \in Nat /\ data \in Nat /\ call \in Nat
      BY DEF Init
    <2>5. /\ have \subseteq {"PTP", "Sys"} /\ event_changed \in BOOLEAN
          /\ subscribed \in BOOLEAN /\ lpc \in {"idle", "sys", "set"}
          /\ latest \subseteq ptp_event
      BY DEF Init
    <2> QED
      BY <2>2, <2>3, <2>4, <2>5 DEF TypeOK
  <1>2. TypeOK /\ [Next]_vars => TypeOK'
    <2>1. TypeOK /\ UNCHANGED vars => TypeOK'
      BY DEF vars, clockState, history, TypeOK
    <2> QED
      BY <2>1, ListenerTypeOK, AppTypeOK DEF Next
  <1> QED
    BY <1>1, <1>2, PTL DEF Spec

-----------------------------------------------------------------------------
(* Event accounting *)

\* The clock whose data event ev is detected in.
ClockOf(ev) == IF ev = "Sys" THEN "Sys" ELSE "PTP"

\* EventsReportedOnce and CountsExplainFlags are inductive together with the two
\* facts that make a read safe to hand out or to throw away: counts are only
\* non-zero once there are data of their clock, and once event_changed is set.  A
\* pending GmChanged, whose count may have wrapped to zero, comes with it as well.
AccountInv ==
  /\ EventsReportedOnce
  /\ CountsExplainFlags
  /\ \A ev \in Event : count[ev] # 0 => ClockOf(ev) \in have /\ event_changed
  /\ flag["GmChanged"] => event_changed

\* Counting the events in hits keeps the books, if the flags of those change.
LEMMA CountingStep ==
  ASSUME TypeOK, AccountInv, NEW hits \in SUBSET Event,
         count' = EventCounts(count, hits), total' = EventCounts(total, hits),
         event_changed' = EventChanged(hits), reported' = reported, seen' = seen,
         have \subseteq have', \A ev \in hits : ClockOf(ev) \in have',
         flag' \in [Event -> BOOLEAN],
         \A ev \in Event \ {"GmChanged"} : ev \in hits <=> flag'[ev] # flag[ev],
         flag'["GmChanged"] => flag["GmChanged"] \/ "GmChanged" \in hits
  PROVE  AccountInv'
  <1>1. EventsReportedOnce'
    <2> SUFFICES ASSUME NEW ev \in Event
                 PROVE  total'[ev] = Plus(reported[ev], count'[ev])
      BY DEF EventsReportedOnce, Plus
    <2>1. total[ev] \in Count /\ count[ev] \in Count /\ reported[ev] \in Count
      BY DEF TypeOK
    <2>2. total[ev] = Plus(reported[ev], count[ev])
      BY SMTT(40) DEF AccountInv, EventsReportedOnce
    <2>3. CASE ev \in hits
      <3>1. total'[ev] = Plus(total[ev], 1) /\ count'[ev] = Plus(count[ev], 1)
        BY <2>3 DEF EventCounts
      <3> QED
        BY <2>1, <2>2, <3>1, ConstantsAssumption, SMTT(40) DEF Plus, Count
    <2>4. CASE ev \notin hits
      BY <2>2, <2>4 DEF EventCounts
    <2> QED
      BY <2>3, <2>4
  <1>2. CountsExplainFlags'
    <2> SUFFICES ASSUME NEW ev \in Event \ {"GmChanged"}
                 PROVE  (flag'[ev] # seen[ev]) <=> (count'[ev] % 2 = 1)
      BY DEF CountsExplainFlags
    <2>1. (flag[ev] # seen[ev]) <=> (count[ev] % 2 = 1)
      BY DEF AccountInv, CountsExplainFlags
    <2>2. count[ev] \in Count /\ count[ev] \in Nat
      BY DEF TypeOK, Count
    <2>3. flag[ev] \in BOOLEAN /\ flag'[ev] \in BOOLEAN /\ seen[ev] \in BOOLEAN
      BY DEF TypeOK
    <2>4. CASE ev \in hits
      <3>1. (flag'[ev] # seen[ev]) <=> ~(flag[ev] # seen[ev])
        BY <2>3, <2>4
      <3>2. count'[ev] = Plus(count[ev], 1)
        BY <2>4 DEF EventCounts
      <3>3. (count'[ev] % 2 = 1) <=> ~(count[ev] % 2 = 1)
        BY <2>2, <3>2, ConstantsAssumption DEF Plus, Count
      <3> QED
        BY <2>1, <3>1, <3>3
    <2>5. CASE ev \notin hits
      BY <2>1, <2>3, <2>5 DEF EventCounts
    <2> QED
      BY <2>4, <2>5
  <1>3. \A ev \in Event : count'[ev] # 0 => ClockOf(ev) \in have' /\ event_changed'
    BY DEF AccountInv, EventCounts, EventChanged
  <1>4. (\A ev \in Event : count[ev] # 0 => ClockOf(ev) \in have /\ event_changed)'
    BY <1>3 DEF ClockOf
  <1>5. flag'["GmChanged"] => event_changed'
    BY DEF AccountInv, EventChanged
  <1> QED
    BY <1>1, <1>2, <1>4, <1>5 DEF AccountInv

LEMMA PtpAccount ==
  ASSUME TypeOK, AccountInv, NEW e \in ptp_event, setTimeBaseStatePtp(e),
         reported' = reported, seen' = seen
  PROVE  AccountInv'
  <1> DEFINE hits == {ev \in PtpEvent : Counts(ev, e)}
  <1>1. hits \in SUBSET Event /\ \A ev \in hits : ClockOf(ev) = "PTP"
    BY DEF Event, PtpEvent, EventIndex, ClockOf
  <1>2. /\ count' = EventCounts(count, hits) /\ total' = EventCounts(total, hits)
        /\ event_changed' = EventChanged(hits)
        /\ have \subseteq have' /\ "PTP" \in have'
    BY SMTT(40) DEF setTimeBaseStatePtp
  <1>3. flag' \in [Event -> BOOLEAN]
    BY PtpType
  <1>4. \A ev \in Event \ {"GmChanged"} : ev \in hits <=> flag'[ev] # flag[ev]
    BY SMTT(40) DEF setTimeBaseStatePtp, Counts, Event, PtpEvent
  <1>5. flag'["GmChanged"] => flag["GmChanged"] \/ "GmChanged" \in hits
    <2>1. "GmChanged" \in PtpEvent /\ "GmChanged" \in Event
      BY DEF PtpEvent, Event, EventIndex
    <2>2. flag'["GmChanged"] = SimpleFlag("GmChanged", e)
      BY <2>1, Zenon DEF setTimeBaseStatePtp, NewFlag
    <2>3. SimpleFlag("GmChanged", e) => flag["GmChanged"] \/ Counts("GmChanged", e)
      BY DEF SimpleFlag, Counts
    <2> QED
      BY <2>1, <2>2, <2>3, Zenon
  <1> HIDE DEF hits
  <1> QED
    BY <1>1, <1>2, <1>3, <1>4, <1>5, CountingStep

LEMMA SysAccount ==
  ASSUME TypeOK, AccountInv, NEW e \in chrony_event, setTimeBaseStateSys(e),
         reported' = reported, seen' = seen
  PROVE  AccountInv'
  <1> DEFINE hits == IF NewSysFlag(e) # flag["Sys"] THEN {"Sys"} ELSE {}
  <1>1. hits \in SUBSET Event /\ \A ev \in hits : ClockOf(ev) = "Sys"
    BY DEF Event, ClockOf
  <1>2. /\ count' = EventCounts(count, hits) /\ total' = EventCounts(total, hits)
        /\ event_changed' = EventChanged(hits)
        /\ have \subseteq have' /\ "Sys" \in have'
    BY SMTT(40) DEF setTimeBaseStateSys
  <1>3. flag' \in [Event -> BOOLEAN]
    BY SysType
  <1>4. \A ev \in Event \ {"GmChanged"} : ev \in hits <=> flag'[ev] # flag[ev]
    BY SMTT(40) DEF setTimeBaseStateSys, Event, TypeOK
  <1>5. flag'["GmChanged"] = flag["GmChanged"]
    BY SMTT(40) DEF setTimeBaseStateSys, TypeOK
  <1> HIDE DEF hits
  <1> QED
    BY <1>1, <1>2, <1>3, <1>4, <1>5, CountingStep

\* A read keeps the books: it hands out all counts, or there are none.
LEMMA ReadAccount ==
  ASSUME TypeOK, AccountInv, NEW deliver \in BOOLEAN, getTimeBaseState(deliver),
         deliver \/ ~event_changed
  PROVE  AccountInv'
  <1>1. EventsReportedOnce'
    <2> SUFFICES ASSUME NEW ev \in Event
                 PROVE  total'[ev] = Plus(reported'[ev], count'[ev])
      BY DEF EventsReportedOnce, Plus
    <2>1. total[ev] \in Count /\ count[ev] \in Count /\ reported[ev] \in Count
      BY DEF TypeOK
    <2>2. total[ev] = Plus(reported[ev], count[ev])
      BY DEF AccountInv, EventsReportedOnce
    <2>3. total'[ev] = total[ev] /\ count'[ev] = 0
      BY DEF getTimeBaseState
    <2>4. reported'[ev] = Plus(reported[ev], count[ev])
      <3>1. CASE count[ev] = 0
        BY <2>1, <3>1, ConstantsAssumption DEF getTimeBaseState, Handed, Plus, Count
      <3>2. CASE count[ev] # 0
        BY <3>2 DEF getTimeBaseState, Handed, AccountInv, ClockOf
      <3> QED
        BY SMTT(40), <3>1, <3>2
    <2> QED
      <3>1. \A n \in Count : Plus(n, 0) = n
        BY ConstantsAssumption, SMTT(40) DEF Plus, Count
      <3> QED
        BY <2>1, <2>2, <2>3, <2>4, <3>1, Zenon
  <1>2. CountsExplainFlags'
    BY DEF getTimeBaseState, CountsExplainFlags, TypeOK
  <1>3. (\A ev \in Event : count[ev] # 0 => ClockOf(ev) \in have /\ event_changed)'
    BY DEF getTimeBaseState
  <1>4. flag'["GmChanged"] = FALSE
    BY DEF getTimeBaseState, TypeOK, Event, PtpEvent, EventIndex
  <1> QED
    BY <1>1, <1>2, <1>3, <1>4 DEF AccountInv

\* What a step does to the clock state: one of the three updates, or nothing.
LEMMA StepKinds ==
  ASSUME TypeOK, [Next]_vars
  PROVE  \/ \E e \in ptp_event : setTimeBaseStatePtp(e) /\ UNCHANGED <<reported, seen, sub>>
         \/ \E e \in chrony_event : setTimeBaseStateSys(e) /\ UNCHANGED <<reported, seen, sub>>
         \/ \E d \in BOOLEAN : getTimeBaseState(d) /\ (d \/ ~event_changed)
         \/ UNCHANGED <<clockState, total, reported, seen>>
  <1>1. CASE ListenerNext
    <2>1. CASE \E e \in PtpData : NotifyPtp(e)
      BY <2>1, ConstantsAssumption DEF NotifyPtp
    <2>2. CASE \E e \in SysData : NotifySys(e)
      BY <2>2, ConstantsAssumption, SMTT(40) DEF NotifySys
    <2>3. CASE \E e \in PtpData, s \in SysData : subscribeReply(e, s)
      BY <2>3, ConstantsAssumption, SMTT(40) DEF subscribeReply
    <2>4. CASE ReplySys
      BY <2>4 DEF ReplySys, TypeOK
    <2>5. CASE ReplySubscribed
      BY <2>5 DEF ReplySubscribed, history
    <2> QED
      BY <1>1, <2>1, <2>2, <2>3, <2>4, <2>5 DEF ListenerNext
  <1>2. ASSUME NEW a \in App, AppNext(a)
        PROVE  \/ \E d \in BOOLEAN : getTimeBaseState(d) /\ (d \/ ~event_changed)
               \/ UNCHANGED <<clockState, total, reported, seen>>
    <2>1. CASE SubscribeRead(a) \/ WaitEvent(a) \/ WaitOn(a)
      BY <2>1 DEF SubscribeRead, WaitEvent, WaitOn
    <2>2. CASE \E s \in Subscription : subscribe(a, s)
      BY <2>2 DEF subscribe
    <2>3. CASE \/ SubscribeSend(a) \/ SubscribeTimeout(a) \/ SubscribeReplied(a)
               \/ statusWait(a) \/ WaitLost(a)
      BY <2>3 DEF SubscribeSend, SubscribeTimeout, SubscribeReplied, statusWait,
         WaitLost, history
    <2> QED
      BY <1>2, <2>1, <2>2, <2>3 DEF AppNext
  <1>3. CASE UNCHANGED vars
    BY <1>3 DEF vars, history
  <1> QED
    BY <1>1, <1>2, <1>3, SMTT(40) DEF Next

LEMMA AccountInvariant == Spec => []AccountInv
  <1>1. Init => AccountInv
    <2> SUFFICES ASSUME Init PROVE AccountInv
      OBVIOUS
    <2>1. \A ev \in Event : /\ total[ev] = 0 /\ reported[ev] = 0 /\ count[ev] = 0
                            /\ flag[ev] = seen[ev]
      BY SMTT(40) DEF Init
    <2>2. EventsReportedOnce
      BY <2>1, ConstantsAssumption, SMTT(40) DEF EventsReportedOnce, Plus
    <2>3. CountsExplainFlags
      <3>1. 0 % 2 # 1
        OBVIOUS
      <3>2. \A ev \in Event : count[ev] % 2 # 1
        BY <2>1, <3>1
      <3>3. \A ev \in Event : flag[ev] = seen[ev]
        BY <2>1
      <3> QED
        BY <3>2, <3>3, Zenon DEF CountsExplainFlags
    <2>4. ~flag["GmChanged"]
      <3>1. "GmChanged" \in Event
        BY DEF Event, PtpEvent, EventIndex
      <3>2. flag["GmChanged"] = ("GmChanged" \in {"OffsetInRange", "Sys"})
        BY <3>1, Zenon DEF Init, Defaults
      <3> QED
        BY <3>2, Zenon
    <2> QED
      BY <2>1, <2>2, <2>3, <2>4 DEF AccountInv
  <1>2. TypeOK /\ AccountInv /\ [Next]_vars => AccountInv'
    <2> SUFFICES ASSUME TypeOK, AccountInv, [Next]_vars PROVE AccountInv'
      OBVIOUS
    <2>1. CASE \E e \in ptp_event :
                 setTimeBaseStatePtp(e) /\ UNCHANGED <<reported, seen, sub>>
      BY <2>1, PtpAccount
    <2>2. CASE \E e \in chrony_event :
                 setTimeBaseStateSys(e) /\ UNCHANGED <<reported, seen, sub>>
      BY <2>2, SysAccount
    <2>3. CASE \E d \in BOOLEAN : getTimeBaseState(d) /\ (d \/ ~event_changed)
      BY <2>3, ReadAccount
    <2>4. CASE UNCHANGED <<clockState, total, reported, seen>>
      <3>1. UNCHANGED <<total, reported, count, flag, seen, have, event_changed>>
        BY <2>4 DEF clockState
      <3>2. EventsReportedOnce'
        BY <3>1, Zenon DEF AccountInv, EventsReportedOnce
      <3>3. CountsExplainFlags'
        BY <3>1 DEF AccountInv, CountsExplainFlags
      <3> QED
        BY <3>1, <3>2, <3>3 DEF AccountInv, ClockOf
    <2> QED
      BY <2>1, <2>2, <2>3, <2>4, StepKinds
  <1> QED
    BY <1>1, <1>2, TypeCorrect, PTL DEF Spec

\* No event is lost or reported twice: getTimeBaseState's reset loses nothing,
\* however the listener and the waiting threads interleave.
THEOREM ReportedOnce == Spec => []EventsReportedOnce
  <1>1. AccountInv => EventsReportedOnce
    BY DEF AccountInv
  <1> QED
    BY <1>1, AccountInvariant, PTL

\* The counts read together with the flags explain each change of a flag, for
\* any even width of the counters, so also after they wrapped around.
THEOREM FlagsExplained == Spec => []CountsExplainFlags
  <1>1. AccountInv => CountsExplainFlags
    BY DEF AccountInv
  <1> QED
    BY <1>1, AccountInvariant, PTL

\* statusWait sleeps through nothing: while event_changed is not set every event
\* there was has been read.
THEOREM NothingHidden == Spec => []NoEventHidden
  <1>1. TypeOK /\ AccountInv => NoEventHidden
    <2> SUFFICES ASSUME TypeOK, AccountInv, ~event_changed
                 PROVE  /\ \A ev \in Event : count[ev] = 0
                        /\ \A ev \in Event \ {"GmChanged"} : flag[ev] = seen[ev]
                        /\ ~flag["GmChanged"]
      BY DEF NoEventHidden
    <2>1. \A ev \in Event : count[ev] = 0
      BY DEF AccountInv
    <2>2. 0 % 2 # 1
      OBVIOUS
    <2>3. \A ev \in Event \ {"GmChanged"} : flag[ev] = seen[ev]
      <3>1. \A ev \in Event \ {"GmChanged"} : ~(flag[ev] # seen[ev])
        BY <2>1, <2>2, Zenon DEF AccountInv, CountsExplainFlags
      <3> QED
        BY <3>1, Zenon
    <2> QED
      BY <2>1, <2>3 DEF AccountInv
  <1> QED
    BY <1>1, TypeCorrect, AccountInvariant, PTL

=============================================================================
