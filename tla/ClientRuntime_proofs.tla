------------------------ MODULE ClientRuntime_proofs ------------------------
(***************************************************************************)
(* Proofs about the client's runtime, for every capacity of the queues and *)
(* any number of calls: its listener thread and its queues are stopped in  *)
(* order, the queues keep within their capacity, and a client of which no  *)
(* connect timed out has one session and is connected by no stale reply.   *)
(***************************************************************************)
EXTENDS ClientRuntime, FiniteSetTheorems, TLAPS

Stopping == {"goodbye", "disconnected", "stop", "finalizeTx", "finalizeRx", "stopped"}

\* disconnect is under way.
InDisconnect ==
  pc \in Stopping \/ (pc = "send" /\ request.type = "DISCONNECT")

Clean == thread = "none" /\ ~rx

\* The inductive invariant.  doInit is only cleared at the end of a disconnect,
\* which by then has found the thread ended; until it is set again nothing but
\* txContext is opened but in the two steps of ClientState::init.  txContext is
\* closed before the listener is finalized.
StopInv ==
  /\ QueueOutlivesThread
  /\ InDisconnect => doInit
  /\ ~doInit => Clean \/ pc \in {"started", "aborted"}
  /\ pc \in {"finalizeRx", "stopped"} => ~tx
  /\ pc = "stopped" /\ ret => Clean

\* Where a call goes on once connected, and what it sends.
CallType ==
  /\ cont \in {"idle", "subscribe", "wait"}
  /\ request.type \in {"CONNECT", "SUBSCRIBE", "DISCONNECT"}

LEMMA InitStop == Init => StopInv
  BY SMTT(40) DEF Init, StopInv, QueueOutlivesThread, InDisconnect, Stopping, Clean

LEMMA ListenerStop == StopInv /\ ListenerThread => StopInv'
  <1> SUFFICES ASSUME StopInv, ListenerThread PROVE StopInv'
    OBVIOUS
  <1> USE DEF StopInv, QueueOutlivesThread, InDisconnect, Stopping, Clean
  <1>1. CASE ThreadLoop
    BY <1>1 DEF ThreadLoop, Aborted, stateVars, queues, proxyVars
  <1>2. CASE ThreadReceive
    BY <1>2 DEF ThreadReceive, Aborted, stateVars, apiVars
  <1>3. CASE ThreadReceived
    BY <1>3 DEF ThreadReceived, Aborted, stateVars, apiVars
  <1>4. CASE ThreadHandle
    BY <1>4 DEF ThreadHandle, Aborted, apiVars
  <1>5. CASE ThreadSetSession
    BY <1>5 DEF ThreadSetSession, Aborted, apiVars
  <1> QED
    BY <1>1, <1>2, <1>3, <1>4, <1>5 DEF ListenerThread

LEMMA CallsStop == StopInv /\ Calls => StopInv'
  <1> SUFFICES ASSUME StopInv, Calls PROVE StopInv'
    OBVIOUS
  <1> USE DEF StopInv, QueueOutlivesThread, InDisconnect, Stopping, Clean
  <1>1. CASE connect
    BY <1>1 DEF connect, ConnectLabel, Call, stateVars, listenerVars
  <1>2. CASE subscribe
    BY <1>2 DEF subscribe, ConnectLabel, Call, stateVars, listenerVars
  <1>3. CASE statusWait
    BY <1>3 DEF statusWait, Call, stateVars, listenerVars
  <1>4. CASE disconnect
    BY <1>4, SMTT(40) DEF disconnect, Call, stateVars, listenerVars
  <1> QED
    BY <1>1, <1>2, <1>3, <1>4 DEF Calls

LEMMA AppStop == StopInv /\ CallType /\ AppThread => StopInv'
  <1> SUFFICES ASSUME StopInv, CallType, AppThread PROVE StopInv'
    OBVIOUS
  <1> USE DEF StopInv, QueueOutlivesThread, InDisconnect, Stopping, Clean
  <1>1. CASE InitFails \/ SubscribeCheck \/ SubscribeDone \/ WaitEnds \/ WaitChecksProxy
             \/ FinalizeSkipped
    BY <1>1, SMTT(40) DEF InitFails, SubscribeCheck, SubscribeDone, WaitEnds,
       WaitChecksProxy, FinalizeSkipped, Go, stateVars, listenerVars
  <1>2. CASE InitClient
    BY <1>2 DEF InitClient
  <1>3. CASE InitDone
    BY <1>3 DEF InitDone, listenerVars
  <1>4. CASE ConnectBuild \/ SubscribeBuild \/ DisconnectBuild
    BY <1>4 DEF ConnectBuild, SubscribeBuild, DisconnectBuild, stateVars, listenerVars
  <1>5. CASE Send
    BY <1>5 DEF Send, AfterSend, NoMessage, CallType, stateVars, listenerVars
  <1>6. CASE ConnectDone \/ ConnectTimeout
    BY <1>6 DEF CallType, ConnectDone, ConnectTimeout, Go, stateVars, listenerVars
  <1>7. CASE Disconnected
    BY <1>7 DEF Disconnected, listenerVars
  <1>8. CASE Stop
    BY <1>8 DEF Stop, stateVars
  <1>9. CASE FinalizeTx
    BY <1>9 DEF FinalizeTx, listenerVars
  <1>10. CASE FinalizeRx
    <2>1. /\ pc = "finalizeRx" /\ pc' = "stopped" /\ ~tx /\ doInit
          /\ UNCHANGED <<tx, doInit>>
      BY <1>10 DEF FinalizeRx
    <2>2. CASE thread' = "none" /\ rx' = FALSE
      BY <2>1, <2>2
    <2>3. CASE ret' = FALSE /\ UNCHANGED <<thread, rx>>
      BY <2>1, <2>3
    <2> QED
      BY <1>10, <2>2, <2>3 DEF FinalizeRx
  <1>11. CASE Stopped
    BY <1>11 DEF Stopped, listenerVars
  <1> QED
    BY <1>1, <1>2, <1>3, <1>4, <1>5, <1>6, <1>7, <1>8, <1>9, <1>10, <1>11
       DEF AppThread

LEMMA ProxyStop == StopInv /\ (Proxy \/ UNCHANGED vars) => StopInv'
  <1> SUFFICES ASSUME StopInv, Proxy \/ UNCHANGED vars PROVE StopInv'
    OBVIOUS
  <1>1. UNCHANGED <<doInit, tx, rx, thread, pc, request, ret>>
    BY SMTT(40) DEF Proxy, ProxyServes, ProxyDies, ProxyGoodbye, vars, stateVars, listenerVars,
       apiVars
  <1> QED
    BY <1>1 DEF StopInv, QueueOutlivesThread, InDisconnect, Stopping, Clean

LEMMA CallInvariant == Spec => []CallType
  <1>1. Init => CallType
    BY DEF Init, CallType, NoMessage
  <1>2. CallType /\ [Next]_vars => CallType'
    <2> SUFFICES ASSUME CallType, [Next]_vars PROVE CallType'
      OBVIOUS
    <2>1. CASE ListenerThread \/ Proxy \/ UNCHANGED vars
      <3>1. UNCHANGED <<cont, request>>
        <4>1. CASE ListenerThread
          BY <4>1, Zenon DEF ListenerThread, ThreadLoop, ThreadReceive, ThreadReceived,
             ThreadHandle, ThreadSetSession, apiVars
        <4>2. CASE Proxy \/ UNCHANGED vars
          BY <4>2, Zenon DEF Proxy, ProxyServes, ProxyDies, ProxyGoodbye, vars, apiVars
        <4> QED
          BY <2>1, <4>1, <4>2, Zenon
      <3> QED
        BY <3>1 DEF CallType
    <2>2. CASE Calls
      BY <2>2 DEF Calls, connect, subscribe, statusWait, disconnect, Call, CallType
    <2>3. CASE ConnectBuild \/ SubscribeBuild \/ DisconnectBuild \/ Send
      BY <2>3, SMTT(40) DEF ConnectBuild, SubscribeBuild, DisconnectBuild, Send, NoMessage,
         CallType
    <2>4. CASE \/ InitFails \/ InitClient \/ InitDone \/ ConnectDone
               \/ ConnectTimeout \/ SubscribeCheck \/ SubscribeDone \/ WaitEnds
               \/ WaitChecksProxy \/ Disconnected \/ Stop \/ FinalizeTx
               \/ FinalizeRx \/ FinalizeSkipped \/ Stopped
      <3>1. UNCHANGED <<cont, request>>
        BY <2>4 DEF InitFails, InitClient, InitDone, ConnectDone, ConnectTimeout,
           SubscribeCheck, SubscribeDone, WaitEnds, WaitChecksProxy, Disconnected,
           Stop, FinalizeTx, FinalizeRx, FinalizeSkipped, Stopped, Go
      <3> QED
        BY <3>1 DEF CallType
    <2> QED
      BY <2>1, <2>2, <2>3, <2>4 DEF Next, AppThread
  <1> QED
    BY <1>1, <1>2, PTL DEF Spec

LEMMA StopInvariant == Spec => []StopInv
  <1>1. StopInv /\ CallType /\ [Next]_vars => StopInv'
    BY ListenerStop, CallsStop, AppStop, ProxyStop DEF Next
  <1> QED
    BY <1>1, InitStop, CallInvariant, PTL DEF Spec

\* The listener thread never outlives its queue, however the interrupt, the
\* messages and finalize's timeout interleave.
THEOREM ThreadBeforeQueue == Spec => []QueueOutlivesThread
  <1>1. StopInv => QueueOutlivesThread
    BY DEF StopInv
  <1> QED
    BY <1>1, StopInvariant, PTL

\* A disconnect whose stopAll succeeds leaves no thread and no open queue, and a
\* client that counts as not initialised has neither a thread nor a queue of its own.
THEOREM CleanDisconnect == Spec => []DisconnectIsClean
  <1>1. StopInv => DisconnectIsClean
    BY DEF StopInv, DisconnectIsClean, Clean
  <1> QED
    BY <1>1, StopInvariant, PTL

---------------------------------------------------------------------------
(* Types and the capacity of the queues *)

\* TypeOK, one part for each group of variables.
StateTypes ==
  /\ doInit \in BOOLEAN /\ connected \in BOOLEAN /\ sessionId \in Session
  /\ subscribed \in BOOLEAN
  /\ tx \in BOOLEAN /\ rx \in BOOLEAN
ListenerTypes ==
  /\ m_exitVal \in BOOLEAN /\ m_retVal \in BOOLEAN
  /\ thread \in {"none", "loop", "enter", "receive", "handle", "setSession", "done"}
  /\ msg \in Message
ApiTypes ==
  /\ pc \in Label /\ request \in Message /\ cont \in {"idle", "subscribe", "wait"}
  /\ ret \in BOOLEAN /\ finalized \subseteq {"ClientStateEnd", "Listener"}
  /\ timedOut \in BOOLEAN /\ call \in 0 .. MaxCall
QueueTypes ==
  /\ outbox \in Seq(Message) /\ Len(outbox) <= ProxyQueue
  /\ inbox \in Seq(Message) /\ Len(inbox) <= ClientQueue
ProxyTypes ==
  /\ proxy \in {"up", "dead", "gone"}
  /\ sessions \subseteq Session \ {InvalidSessionId} /\ opened \in 0 .. MaxSession

LEMMA TypeParts ==
  TypeOK <=> StateTypes /\ ListenerTypes /\ ApiTypes /\ QueueTypes /\ ProxyTypes
  BY Zenon DEF TypeOK, StateTypes, ListenerTypes, ApiTypes, QueueTypes, ProxyTypes

LEMMA TypePartsNext ==
  TypeOK' <=> StateTypes' /\ ListenerTypes' /\ ApiTypes' /\ QueueTypes' /\ ProxyTypes'
  BY TypeParts, PTL

\* A part whose variables a step leaves alone keeps its types.
LEMMA TypesKept ==
  /\ StateTypes /\ UNCHANGED stateVars => StateTypes'
  /\ ListenerTypes /\ UNCHANGED listenerVars => ListenerTypes'
  /\ ApiTypes /\ UNCHANGED apiVars => ApiTypes'
  /\ QueueTypes /\ UNCHANGED queues => QueueTypes'
  /\ ProxyTypes /\ UNCHANGED proxyVars => ProxyTypes'
  <1>1. StateTypes /\ UNCHANGED stateVars => StateTypes'
    BY Zenon DEF StateTypes, stateVars
  <1>2. ListenerTypes /\ UNCHANGED listenerVars => ListenerTypes'
    BY Zenon DEF ListenerTypes, listenerVars
  <1>3. ApiTypes /\ UNCHANGED apiVars => ApiTypes'
    BY Zenon DEF ApiTypes, apiVars
  <1>4. QueueTypes /\ UNCHANGED queues => QueueTypes'
    BY Zenon DEF QueueTypes, queues
  <1>5. ProxyTypes /\ UNCHANGED proxyVars => ProxyTypes'
    BY Zenon DEF ProxyTypes, proxyVars
  <1> QED
    BY <1>1, <1>2, <1>3, <1>4, <1>5

\* The replies to a request fit into the client's queue.
LEMMA ReplyType ==
  ASSUME TypeOK, NEW m \in Message, Reply(m)
  PROVE  /\ inbox' \in Seq(Message) /\ Len(inbox') <= ClientQueue
         /\ proxy' \in {"up", "dead", "gone"}
  <1>1. inbox \in Seq(Message) /\ Len(inbox) <= ClientQueue /\ proxy \in {"up", "dead", "gone"}
    BY Zenon DEF TypeOK
  <1> QED
    BY <1>1, ConstantsAssumption, SMTT(40) DEF Reply

LEMMA IntervalSize == \A k \in Nat : IsFiniteSet(1 .. k) /\ Cardinality(1 .. k) = k
  BY FS_Interval, SMTT(40)

\* The goodbyes of an ending proxy fill the client's queue at most.
LEMMA GoodbyeType ==
  ASSUME TypeOK, ProxyGoodbye
  PROVE  /\ inbox' \in Seq(Message) /\ Len(inbox') <= ClientQueue
         /\ \A i \in 1 .. Len(inbox') : \/ i \in 1 .. Len(inbox) /\ inbox'[i] = inbox[i]
                                        \/ inbox'[i].type = "DISCONNECT"
  <1> DEFINE told == {i \in 1 .. Cardinality(sessions) : rx /\ Len(inbox) + i <= ClientQueue}
             n == Cardinality(told)
             bye == [type |-> "DISCONNECT", sid |-> InvalidSessionId]
  <1>1. inbox \in Seq(Message) /\ Len(inbox) \in Nat /\ Len(inbox) <= ClientQueue
    BY SMTT(40) DEF TypeOK
  <1>2. n \in Nat /\ n <= ClientQueue - Len(inbox)
    <2>1. ClientQueue - Len(inbox) \in Nat /\ 1 \in Int
      BY <1>1, ConstantsAssumption, SMTT(40)
    <2>2. /\ IsFiniteSet(1 .. (ClientQueue - Len(inbox)))
          /\ Cardinality(1 .. (ClientQueue - Len(inbox))) = ClientQueue - Len(inbox)
      BY <2>1, IntervalSize, Zenon
    <2>3. told \subseteq 1 .. (ClientQueue - Len(inbox))
      BY <1>1, ConstantsAssumption, SMTT(40)
    <2>4. IsFiniteSet(told) /\ n <= Cardinality(1 .. (ClientQueue - Len(inbox)))
      BY <2>2, <2>3, FS_Subset
    <2> QED
      BY <2>2, <2>4, FS_CardinalityType, SMTT(40)
  <1>3. inbox' = inbox \o [i \in 1 .. n |-> bye]
    BY Zenon DEF ProxyGoodbye
  <1>4. bye \in Message
    BY ConstantsAssumption, SMTT(40) DEF Message, Session, InvalidSessionId
  <1>b. bye.type = "DISCONNECT"
    OBVIOUS
  <1> HIDE DEF n, bye
  <1>5. [i \in 1 .. n |-> bye] \in Seq(Message) /\ Len([i \in 1 .. n |-> bye]) = n
    BY <1>2, <1>4, SMTT(40)
  <1>6. inbox' \in Seq(Message) /\ Len(inbox') = Len(inbox) + n
    BY <1>1, <1>2, <1>3, <1>5, SMTT(40)
  <1>7. ASSUME NEW i \in 1 .. Len(inbox')
        PROVE  \/ i \in 1 .. Len(inbox) /\ inbox'[i] = inbox[i]
               \/ inbox'[i] = bye
    BY <1>1, <1>2, <1>3, <1>5, <1>6, <1>7, SMTT(40)
  <1>8. Len(inbox') <= ClientQueue
    BY <1>1, <1>2, <1>6, ConstantsAssumption, SMTT(40)
  <1> QED
    BY <1>6, <1>7, <1>8, <1>b, Zenon

\* The proxy's answers to one request.
LEMMA ServeType == TypeOK /\ ProxyServes => TypeOK'
  <1> SUFFICES ASSUME TypeOK, ProxyServes PROVE TypeOK'
    OBVIOUS
  <1> DEFINE m == Head(outbox)
  <1>1. UNCHANGED <<stateVars, listenerVars, apiVars>> /\ outbox' = Tail(outbox)
        /\ outbox # <<>> /\ outbox \in Seq(Message) /\ Len(outbox) <= ProxyQueue
    BY Zenon DEF ProxyServes, TypeOK
  <1>2. /\ m \in Message
        /\ outbox' \in Seq(Message) /\ Len(outbox') <= ProxyQueue
    BY <1>1, ConstantsAssumption, SMTT(40)
  <1>3. m.sid \in Session
    BY <1>2, SMTT(40) DEF Message
  <1>4. /\ inbox' \in Seq(Message) /\ Len(inbox') <= ClientQueue
        /\ proxy' \in {"up", "dead", "gone"}
        /\ sessions' \subseteq Session \ {InvalidSessionId} /\ opened' \in 0 .. MaxSession
    <2> HIDE DEF m
    <2>1. /\ inbox \in Seq(Message) /\ Len(inbox) <= ClientQueue
          /\ proxy \in {"up", "dead", "gone"}
          /\ sessions \subseteq Session \ {InvalidSessionId} /\ opened \in 0 .. MaxSession
      BY Zenon DEF TypeOK
    <2>2. \A s \in Session : /\ [type |-> "CONNECT", sid |-> s] \in Message
                             /\ [type |-> "SUBSCRIBE", sid |-> s] \in Message
      BY SMTT(40) DEF Message
    <2>3. CASE ProxyConnect(m.sid)
      <3>1. CASE opened < MaxSession /\ opened' = opened + 1
                 /\ sessions' = sessions \cup {opened + 1}
                 /\ Reply([type |-> "CONNECT", sid |-> opened + 1])
        <4>1. /\ opened + 1 \in Session \ {InvalidSessionId}
              /\ opened' \in 0 .. MaxSession
          BY <2>1, <3>1, ConstantsAssumption, SMTT(40) DEF Session, InvalidSessionId
        <4>2. [type |-> "CONNECT", sid |-> opened + 1] \in Message
          BY <2>2, <4>1, Zenon
        <4>3. sessions' \subseteq Session \ {InvalidSessionId}
          BY <2>1, <3>1, <4>1, Zenon
        <4> QED
          BY <3>1, <4>1, <4>2, <4>3, ReplyType, Zenon
      <3>2. CASE Reply([type |-> "CONNECT", sid |-> m.sid]) /\ UNCHANGED <<sessions, opened>>
        BY <1>3, <2>1, <2>2, <3>2, ReplyType, Zenon
      <3>3. CASE proxy' = "dead" /\ UNCHANGED <<inbox, sessions, opened>>
        BY <2>1, <3>3, Zenon
      <3> QED
        BY <2>3, <3>1, <3>2, <3>3, Zenon DEF ProxyConnect
    <2>4. CASE ProxySubscribe(m.sid)
      <3>1. CASE Reply([type |-> "SUBSCRIBE", sid |-> m.sid]) /\ UNCHANGED <<sessions, opened>>
        BY <1>3, <2>1, <2>2, <3>1, ReplyType, Zenon
      <3>2. CASE proxy' = "dead" /\ UNCHANGED <<inbox, sessions, opened>>
        BY <2>1, <3>2, Zenon
      <3> QED
        BY <2>4, <3>1, <3>2, Zenon DEF ProxySubscribe
    <2>5. CASE ProxyDisconnect(m.sid)
      BY <2>1, <2>5, Zenon DEF ProxyDisconnect
    <2> QED
      BY <2>3, <2>4, <2>5, Zenon DEF ProxyServes, m
  <1> QED
    <2>1. StateTypes' /\ ListenerTypes' /\ ApiTypes'
      BY <1>1, TypeParts, TypesKept, Zenon
    <2>2. QueueTypes' /\ ProxyTypes'
      BY <1>2, <1>4, Zenon DEF QueueTypes, ProxyTypes
    <2> QED
      BY <2>1, <2>2, TypePartsNext, Zenon

LEMMA ListenerType == TypeOK /\ ListenerThread => TypeOK'
  <1> SUFFICES ASSUME TypeOK, ListenerThread PROVE TypeOK'
    OBVIOUS
  <1>t. StateTypes /\ ListenerTypes /\ ApiTypes /\ QueueTypes /\ ProxyTypes
    BY TypeParts
  <1>n. NoMessage \in Message
    BY ConstantsAssumption, SMTT(40) DEF NoMessage, Message, Session, InvalidSessionId
  <1> USE TypePartsNext, TypesKept
  <1>1. CASE ThreadLoop
    <2>1. ListenerTypes'
      BY <1>1, <1>t, Zenon DEF ThreadLoop, ListenerTypes
    <2>2. ApiTypes'
      BY <1>1, <1>t, Zenon DEF ThreadLoop, ApiTypes, Label
    <2> QED
      BY <1>1, <1>t, <2>1, <2>2, Zenon DEF ThreadLoop
  <1>2. CASE ThreadReceive
    <2>1. ListenerTypes'
      BY <1>2, <1>t, Zenon DEF ThreadReceive, ListenerTypes
    <2> QED
      BY <1>2, <1>t, <2>1, Zenon DEF ThreadReceive
  <1>3. CASE ThreadReceived
    <2>1. /\ msg' = Head(inbox) /\ inbox' = Tail(inbox) /\ inbox # <<>>
          /\ thread' = "handle" /\ UNCHANGED <<m_exitVal, m_retVal, outbox>>
      BY <1>3, Zenon DEF ThreadReceived
    <2>2. Head(inbox) \in Message /\ Tail(inbox) \in Seq(Message) /\ Len(Tail(inbox)) <= ClientQueue
      BY <1>t, <2>1, ConstantsAssumption, SMTT(40) DEF QueueTypes
    <2>3. ListenerTypes' /\ QueueTypes'
      BY <1>t, <2>1, <2>2, Zenon DEF ListenerTypes, QueueTypes
    <2> QED
      BY <1>3, <1>t, <2>3, Zenon DEF ThreadReceived
  <1>4. CASE ThreadHandle
    <2>1. StateTypes'
      BY <1>4, <1>t, Zenon DEF ThreadHandle, StateTypes
    <2>2. ListenerTypes'
      BY <1>4, <1>t, <1>n, Zenon DEF ThreadHandle, ListenerTypes
    <2> QED
      BY <1>4, <1>t, <2>1, <2>2, Zenon DEF ThreadHandle
  <1>5. CASE ThreadSetSession
    <2>0. msg.sid \in Session
      BY <1>t, SMTT(40) DEF ListenerTypes, Message
    <2>1. StateTypes'
      BY <1>5, <1>t, <2>0, Zenon DEF ThreadSetSession, StateTypes
    <2>2. ListenerTypes'
      BY <1>5, <1>t, <1>n, Zenon DEF ThreadSetSession, ListenerTypes
    <2> QED
      BY <1>5, <1>t, <2>1, <2>2, Zenon DEF ThreadSetSession
  <1> QED
    BY <1>1, <1>2, <1>3, <1>4, <1>5, Zenon DEF ListenerThread

LEMMA CallsType == TypeOK /\ Calls => TypeOK'
  <1> SUFFICES ASSUME TypeOK, Calls PROVE TypeOK'
    OBVIOUS
  <1>1. ASSUME NEW label \in Label, NEW then \in {"idle", "subscribe", "wait"}, Call(label, then)
        PROVE  TypeOK'
    <2>1. StateTypes' /\ ListenerTypes' /\ QueueTypes' /\ ProxyTypes'
      BY <1>1, TypeParts, TypesKept, Zenon DEF Call
    <2>2. ApiTypes
      BY TypeParts
    <2>3. call' \in 0 .. MaxCall
      BY <1>1, <2>2, ConstantsAssumption, SMTT(40) DEF Call, ApiTypes
    <2>4. ApiTypes'
      BY <1>1, <2>2, <2>3, Zenon DEF Call, ApiTypes
    <2> QED
      BY <2>1, <2>4, TypePartsNext, Zenon
  <1>2. ConnectLabel \in Label
    BY Zenon DEF ConnectLabel, Label
  <1>3. CASE connect
    BY <1>1, <1>2, <1>3, Zenon DEF connect
  <1>4. CASE subscribe
    <2>1. (IF connected THEN "subscribe" ELSE ConnectLabel) \in Label
      BY <1>2, Zenon DEF Label
    <2> QED
      BY <1>1, <1>4, <2>1, Zenon DEF subscribe
  <1>5. CASE statusWait
    BY <1>1, <1>5, Zenon DEF statusWait, Label
  <1>6. CASE disconnect
    <2>1. (IF connected THEN "goodbye" ELSE "stop") \in Label
      BY Zenon DEF Label
    <2> QED
      BY <1>1, <1>6, <2>1, Zenon DEF disconnect
  <1> QED
    BY <1>3, <1>4, <1>5, <1>6, Zenon DEF Calls

LEMMA AppType == TypeOK /\ AppThread => TypeOK'
  <1> SUFFICES ASSUME TypeOK, AppThread PROVE TypeOK'
    OBVIOUS
  <1>t. StateTypes /\ ListenerTypes /\ ApiTypes /\ QueueTypes /\ ProxyTypes
    BY TypeParts
  <1> USE TypePartsNext, TypesKept
  <1>g. ASSUME NEW label \in Label, Go(label) PROVE TypeOK'
    <2>1. ApiTypes'
      BY <1>g, <1>t, Zenon DEF Go, ApiTypes
    <2> QED
      BY <1>g, <1>t, <2>1, Zenon DEF Go
  <1>m. \A s \in Session : /\ [type |-> "CONNECT", sid |-> s] \in Message
                           /\ [type |-> "SUBSCRIBE", sid |-> s] \in Message
                           /\ [type |-> "DISCONNECT", sid |-> s] \in Message
    BY SMTT(40) DEF Message
  <1>n. NoMessage \in Message
    BY ConstantsAssumption, SMTT(40) DEF NoMessage, Message, Session, InvalidSessionId
  <1>s. sessionId \in Session
    BY <1>t, Zenon DEF StateTypes
  <1>e. <<>> \in Seq(Message) /\ Len(<<>>) <= ClientQueue
    BY ConstantsAssumption, SMTT(40)
  <1>0. CASE InitFails
    <2>1. (proxy # "gone") \in BOOLEAN /\ "idle" \in Label
      BY Zenon DEF Label
    <2>2. StateTypes' /\ ApiTypes'
      BY <1>0, <1>t, <2>1, Zenon DEF InitFails, StateTypes, ApiTypes
    <2> QED
      BY <1>0, <1>t, <2>2, Zenon DEF InitFails
  <1>1. CASE SubscribeCheck \/ SubscribeDone \/ WaitEnds \/ WaitChecksProxy
             \/ FinalizeSkipped \/ ConnectDone
    <2>1. /\ {"idle", "ask", "connect", "stopped"} \subseteq Label /\ cont \in Label
          /\ (IF connected THEN "ask" ELSE "idle") \in Label
      BY <1>t, Zenon DEF ApiTypes, Label
    <2> QED
      BY <1>1, <1>g, <2>1, Zenon DEF SubscribeCheck, SubscribeDone, WaitEnds,
         WaitChecksProxy, FinalizeSkipped, ConnectDone
  <1>2. CASE InitClient
    <2>1. StateTypes' /\ ListenerTypes'
      BY <1>2, <1>t, Zenon DEF InitClient, StateTypes, ListenerTypes
    <2>2. ApiTypes' /\ QueueTypes'
      BY <1>2, <1>t, <1>e, Zenon DEF InitClient, ApiTypes, QueueTypes, Label
    <2> QED
      BY <1>2, <1>t, <2>1, <2>2, Zenon DEF InitClient
  <1>3. CASE InitDone
    <2>1. StateTypes' /\ ApiTypes'
      BY <1>3, <1>t, Zenon DEF InitDone, StateTypes, ApiTypes, Label
    <2> QED
      BY <1>3, <1>t, <2>1, Zenon DEF InitDone
  <1>4. CASE ConnectBuild
    <2>1. StateTypes' /\ ApiTypes'
      BY <1>4, <1>t, <1>m, <1>s, Zenon DEF ConnectBuild, StateTypes, ApiTypes, Label
    <2> QED
      BY <1>4, <1>t, <2>1, Zenon DEF ConnectBuild
  <1>5. CASE SubscribeBuild \/ DisconnectBuild
    <2>1. ApiTypes'
      BY <1>5, <1>t, <1>m, <1>s, Zenon DEF SubscribeBuild, DisconnectBuild, ApiTypes, Label
    <2> QED
      BY <1>5, <1>t, <2>1, Zenon DEF SubscribeBuild, DisconnectBuild
  <1>6. CASE Send
    <2>1. AfterSend \in Label
      <3>1. request.type \in {"CONNECT", "SUBSCRIBE", "DISCONNECT"}
        BY <1>t, SMTT(40) DEF ApiTypes, Message
      <3> QED
        BY <3>1, SMTT(40) DEF AfterSend, Label
    <2>2. outbox' \in Seq(Message) /\ Len(outbox') <= ProxyQueue
      <3>1. outbox' = outbox \/ (Len(outbox) < ProxyQueue /\ outbox' = Append(outbox, request))
        BY <1>6, Zenon DEF Send, HasRoom
      <3> QED
        BY <1>t, <3>1, ConstantsAssumption, SMTT(40) DEF QueueTypes, ApiTypes
    <2>3. ApiTypes' /\ QueueTypes'
      BY <1>6, <1>t, <1>n, <2>1, <2>2, Zenon DEF Send, ApiTypes, QueueTypes
    <2> QED
      BY <1>6, <1>t, <2>3, Zenon DEF Send
  <1>7. CASE ConnectTimeout
    <2>1. (IF cont = "subscribe" THEN cont ELSE "idle") \in Label
      BY Zenon DEF Label
    <2>2. ApiTypes'
      BY <1>7, <1>t, <2>1, Zenon DEF ConnectTimeout, ApiTypes
    <2> QED
      BY <1>7, <1>t, <2>2, Zenon DEF ConnectTimeout
  <1>8. CASE Disconnected
    <2>1. StateTypes' /\ ApiTypes'
      BY <1>8, <1>t, Zenon DEF Disconnected, StateTypes, ApiTypes, Label
    <2> QED
      BY <1>8, <1>t, <2>1, Zenon DEF Disconnected
  <1>9. CASE Stop
    <2>1. ListenerTypes' /\ ApiTypes'
      BY <1>9, <1>t, Zenon DEF Stop, ListenerTypes, ApiTypes, Label
    <2> QED
      BY <1>9, <1>t, <2>1, Zenon DEF Stop
  <1>10. CASE FinalizeTx
    <2>0. tx \in BOOLEAN
      BY <1>t, Zenon DEF StateTypes
    <2>1. StateTypes' /\ ApiTypes'
      BY <1>10, <1>t, <2>0, Zenon DEF FinalizeTx, StateTypes, ApiTypes, Label
    <2> QED
      BY <1>10, <1>t, <2>1, Zenon DEF FinalizeTx
  <1>11. CASE FinalizeRx
    <2>1. StateTypes' /\ ListenerTypes'
      BY <1>11, <1>t, Zenon DEF FinalizeRx, StateTypes, ListenerTypes
    <2>2. ApiTypes'
      BY <1>11, <1>t, Zenon DEF FinalizeRx, ApiTypes, Label
    <2>3. QueueTypes'
      BY <1>11, <1>t, <1>e, Zenon DEF FinalizeRx, QueueTypes
    <2> QED
      BY <1>11, <1>t, <2>1, <2>2, <2>3, Zenon DEF FinalizeRx
  <1>12. CASE Stopped
    <2>1. StateTypes' /\ ApiTypes'
      BY <1>12, <1>t, Zenon DEF Stopped, StateTypes, ApiTypes, Label
    <2> QED
      BY <1>12, <1>t, <2>1, Zenon DEF Stopped
  <1> QED
    BY <1>0, <1>1, <1>2, <1>3, <1>4, <1>5, <1>6, <1>7, <1>8, <1>9, <1>10, <1>11, <1>12, Zenon
       DEF AppThread

\* Every variable keeps its type and neither queue holds more than its capacity,
\* for all capacities, sessions and calls.
THEOREM TypeCorrect == Spec => []TypeOK
  <1>1. Init => TypeOK
    <2>1. InvalidSessionId \in Session /\ 0 \in 0 .. MaxSession /\ 0 \in 0 .. MaxCall
      BY ConstantsAssumption, SMTT(40) DEF Session, InvalidSessionId
    <2>2. NoMessage \in Message
      BY <2>1, SMTT(40) DEF NoMessage, Message
    <2>3. <<>> \in Seq(Message) /\ Len(<<>>) <= ProxyQueue /\ Len(<<>>) <= ClientQueue
      BY ConstantsAssumption, SMTT(40)
    <2> QED
      BY <2>1, <2>2, <2>3, Zenon DEF Init, TypeOK, Label
  <1>2. TypeOK /\ [Next]_vars => TypeOK'
    <2> SUFFICES ASSUME TypeOK, [Next]_vars PROVE TypeOK'
      OBVIOUS
    <2>1. CASE ProxyDies \/ ProxyGoodbye
      <3>1. StateTypes' /\ ListenerTypes' /\ ApiTypes'
        BY <2>1, TypeParts, TypesKept, Zenon DEF ProxyDies, ProxyGoodbye
      <3>2. ProxyTypes'
        BY <2>1, Zenon DEF ProxyDies, ProxyGoodbye, ProxyTypes, TypeOK
      <3>3. CASE ProxyDies
        BY <3>1, <3>2, <3>3, TypeParts, TypePartsNext, TypesKept, Zenon DEF ProxyDies
      <3>4. CASE ProxyGoodbye
        <4>1. QueueTypes'
          BY <3>4, GoodbyeType, Zenon DEF ProxyGoodbye, QueueTypes, TypeOK
        <4> QED
          BY <3>1, <3>2, <4>1, TypePartsNext, Zenon
      <3> QED
        BY <2>1, <3>3, <3>4, Zenon
    <2>2. CASE UNCHANGED vars
      BY <2>2, TypeParts, TypePartsNext, TypesKept, Zenon DEF vars
    <2> QED
      BY <2>1, <2>2, ListenerType, CallsType, AppType, ServeType, Zenon DEF Next, Proxy
  <1> QED
    BY <1>1, <1>2, PTL DEF Spec

---------------------------------------------------------------------------
(* One session *)

\* Whether a message is a request to connect, or the reply to one.
IsConnect(m) == m.type = "CONNECT"
NoConnect(q) == \A i \in 1 .. Len(q) : ~IsConnect(q[i])
OneConnect(q) == \A i, j \in 1 .. Len(q) : IsConnect(q[i]) /\ IsConnect(q[j]) => i = j
\* Every connect in q names a session.
NamesSession(q) ==
  \A i \in 1 .. Len(q) : IsConnect(q[i]) => q[i].sid # InvalidSessionId

\* The listener thread is about to apply the reply to a connect.
Handling == thread = "handle" /\ IsConnect(msg)

\* No request to connect, nor the reply to one, is under way.
Answered == NoConnect(outbox) /\ NoConnect(inbox) /\ ~Handling

\* At most one connect is under way, in one of the two queues or in the listener
\* thread, and only while the application waits for it.
OneUnderWay ==
  /\ OneConnect(outbox) /\ OneConnect(inbox)
  /\ NoConnect(outbox) \/ (NoConnect(inbox) /\ ~Handling)
  /\ NoConnect(inbox) \/ ~Handling
  /\ Answered \/ (pc \in {"connecting", "aborted"} /\ ~connected)
  /\ thread = "setSession" => Answered /\ pc = "connecting" /\ connected /\ IsConnect(msg)
  /\ pc = "send" /\ IsConnect(request) => ~connected

\* The client asks for a new session only before the proxy opened its first one,
\* and a reply it has seen gave it the session.
FirstSession ==
  /\ NamesSession(inbox)
  /\ opened # 0 => NamesSession(outbox)
  /\ thread \in {"handle", "setSession"} /\ IsConnect(msg) => msg.sid # InvalidSessionId
  /\ pc = "send" /\ IsConnect(request) => request.sid = sessionId
  /\ pc = "connecting" /\ connected /\ thread # "setSession" => sessionId # InvalidSessionId
  /\ opened <= 1
  /\ opened # 0 /\ sessionId = InvalidSessionId => pc \in {"connecting", "aborted"}

\* From the end of a disconnect until the next connect waits, the client is not
\* connected, and no call but connect's initialisation is under way.
OffLine ==
  /\ ~doInit => ~connected /\ pc \in {"idle", "init", "started", "aborted"}
  /\ pc \in {"stop", "finalizeTx", "finalizeRx", "stopped"} => ~connected

\* The inductive invariant, for a client of which no connect timed out.
SessionInv == timedOut \/ (OneUnderWay /\ FirstSession /\ OffLine)

LEMMA QueueTail ==
  ASSUME NEW q \in Seq(Message), q # <<>>
  PROVE  /\ NoConnect(q) => NoConnect(Tail(q)) /\ ~IsConnect(Head(q))
         /\ OneConnect(q) => OneConnect(Tail(q))
         /\ OneConnect(q) /\ IsConnect(Head(q)) => NoConnect(Tail(q))
         /\ NamesSession(q) => NamesSession(Tail(q))
         /\ NamesSession(q) /\ IsConnect(Head(q)) => Head(q).sid # InvalidSessionId
  <1>1. /\ Len(q) \in Nat \ {0} /\ Len(Tail(q)) = Len(q) - 1
        /\ \A i \in 1 .. Len(Tail(q)) : i + 1 \in 1 .. Len(q) /\ Tail(q)[i] = q[i + 1]
        /\ 1 \in 1 .. Len(q) /\ Head(q) = q[1]
    BY SMTT(40)
  <1>2. NoConnect(q) => NoConnect(Tail(q)) /\ ~IsConnect(Head(q))
    BY <1>1, Zenon DEF NoConnect
  <1>3. OneConnect(q) => OneConnect(Tail(q))
    <2> SUFFICES ASSUME OneConnect(q), NEW i \in 1 .. Len(Tail(q)), NEW j \in 1 .. Len(Tail(q)),
                        IsConnect(Tail(q)[i]), IsConnect(Tail(q)[j])
                 PROVE  i = j
      BY Zenon DEF OneConnect
    <2>1. i + 1 = j + 1
      BY <1>1, Zenon DEF OneConnect
    <2> QED
      BY <1>1, <2>1, SMTT(40)
  <1>4. OneConnect(q) /\ IsConnect(Head(q)) => NoConnect(Tail(q))
    <2> SUFFICES ASSUME OneConnect(q), IsConnect(Head(q)), NEW i \in 1 .. Len(Tail(q)),
                        IsConnect(Tail(q)[i])
                 PROVE  FALSE
      BY Zenon DEF NoConnect
    <2>1. i + 1 = 1
      BY <1>1, Zenon DEF OneConnect
    <2> QED
      BY <1>1, <2>1, SMTT(40)
  <1>5. /\ NamesSession(q) => NamesSession(Tail(q))
        /\ NamesSession(q) /\ IsConnect(Head(q)) => Head(q).sid # InvalidSessionId
    BY <1>1, Zenon DEF NamesSession
  <1> QED
    BY <1>2, <1>3, <1>4, <1>5, Zenon

LEMMA QueueAppend ==
  ASSUME NEW q \in Seq(Message), NEW m \in Message
  PROVE  /\ NoConnect(q) /\ ~IsConnect(m) => NoConnect(Append(q, m))
         /\ NoConnect(q) => OneConnect(Append(q, m))
         /\ OneConnect(q) /\ ~IsConnect(m) => OneConnect(Append(q, m))
         /\ NamesSession(q) /\ (IsConnect(m) => m.sid # InvalidSessionId)
              => NamesSession(Append(q, m))
  <1> DEFINE r == Append(q, m)
  <1>1. \A i \in 1 .. Len(r) : (i \in 1 .. Len(q) /\ r[i] = q[i]) \/ (i = Len(r) /\ r[i] = m)
    BY SMTT(40)
  <1> HIDE DEF r
  <1>2. NoConnect(q) /\ ~IsConnect(m) => NoConnect(r)
    BY <1>1, Zenon DEF NoConnect
  <1>3. NoConnect(q) => OneConnect(r)
    BY <1>1, Zenon DEF NoConnect, OneConnect
  <1>4. OneConnect(q) /\ ~IsConnect(m) => OneConnect(r)
    BY <1>1, Zenon DEF OneConnect
  <1>5. NamesSession(q) /\ (IsConnect(m) => m.sid # InvalidSessionId) => NamesSession(r)
    BY <1>1, Zenon DEF NamesSession
  <1> QED
    BY <1>2, <1>3, <1>4, <1>5, Zenon DEF r

LEMMA QueueEmpty == NoConnect(<<>>) /\ OneConnect(<<>>) /\ NamesSession(<<>>)
  BY SMTT(40) DEF NoConnect, OneConnect, NamesSession

LEMMA NoneIsOne ==
  ASSUME NEW q, NoConnect(q)
  PROVE  OneConnect(q) /\ NamesSession(q)
  BY Zenon DEF NoConnect, OneConnect, NamesSession

\* The listener thread gets the one reply under way and takes the session from it.
LEMMA ListenerSession ==
  ASSUME TypeOK, SessionInv, ListenerThread
  PROVE  SessionInv'
  <1>0. UNCHANGED timedOut
    BY Zenon DEF ListenerThread, ThreadLoop, ThreadReceive, ThreadReceived,
       ThreadHandle, ThreadSetSession, apiVars
  <1> SUFFICES ASSUME OneUnderWay, FirstSession, OffLine
               PROVE  OneUnderWay' /\ FirstSession' /\ OffLine'
    BY <1>0, Zenon DEF SessionInv
  <1> USE DEF Handling, Answered
  <1>1. CASE ThreadLoop
    <2>1. /\ UNCHANGED <<doInit, connected, sessionId, msg, request, outbox, inbox, opened>>
          /\ thread = "loop" /\ thread' \in {"loop", "enter", "done"}
          /\ pc' = pc \/ pc' = "aborted"
      BY <1>1, Zenon DEF ThreadLoop, stateVars, queues, proxyVars
    <2>2. OneUnderWay'
      BY <2>1 DEF OneUnderWay
    <2>3. FirstSession'
      BY <2>1 DEF FirstSession
    <2>4. OffLine'
      BY <2>1 DEF OffLine
    <2> QED
      BY <2>2, <2>3, <2>4
  <1>2. CASE ThreadReceive
    <2>1. /\ UNCHANGED <<doInit, connected, sessionId, msg, request, outbox, inbox, opened, pc>>
          /\ thread = "enter" /\ thread' = "receive"
      BY <1>2, Zenon DEF ThreadReceive, stateVars, apiVars, queues, proxyVars
    <2>2. OneUnderWay'
      BY <2>1 DEF OneUnderWay
    <2>3. FirstSession'
      BY <2>1 DEF FirstSession
    <2>4. OffLine'
      BY <2>1 DEF OffLine
    <2> QED
      BY <2>2, <2>3, <2>4
  <1>3. CASE ThreadReceived
    <2>1. /\ UNCHANGED <<doInit, connected, sessionId, request, outbox, opened, pc>>
          /\ thread = "receive" /\ thread' = "handle"
          /\ inbox # <<>> /\ msg' = Head(inbox) /\ inbox' = Tail(inbox)
          /\ inbox \in Seq(Message)
      BY <1>3, Zenon DEF ThreadReceived, stateVars, apiVars, proxyVars, TypeOK
    <2>2. OneUnderWay'
      BY <2>1, QueueTail, NoneIsOne DEF OneUnderWay
    <2>3. FirstSession'
      BY <2>1, QueueTail DEF FirstSession
    <2>4. OffLine'
      BY <2>1 DEF OffLine
    <2> QED
      BY <2>2, <2>3, <2>4
  <1>4. CASE ThreadHandle
    <2>1. /\ UNCHANGED <<doInit, sessionId, request, outbox, inbox, opened, pc>>
          /\ thread = "handle" /\ pc # "aborted"
      BY <1>4, Zenon DEF ThreadHandle, Aborted, apiVars, queues, proxyVars
    <2>2. CASE IsConnect(msg) /\ connected' = TRUE /\ thread' = "setSession" /\ msg' = msg
      <3>1. pc = "connecting" /\ NoConnect(outbox) /\ NoConnect(inbox)
        BY <2>1, <2>2 DEF OneUnderWay
      <3>2. OneUnderWay'
        BY <2>1, <2>2, <3>1 DEF OneUnderWay
      <3>3. FirstSession'
        BY <2>1, <2>2, <3>1 DEF FirstSession
      <3>4. OffLine'
        BY <2>1, <2>2, <3>1 DEF OffLine
      <3> QED
        BY <3>2, <3>3, <3>4
    <2>3. CASE thread' = "loop" /\ ~IsConnect(msg) /\ (connected' = connected \/ ~connected')
      <3>2. OneUnderWay'
        BY <2>1, <2>3 DEF OneUnderWay
      <3>3. FirstSession'
        BY <2>1, <2>3 DEF FirstSession
      <3>4. OffLine'
        BY <2>1, <2>3 DEF OffLine
      <3> QED
        BY <3>2, <3>3, <3>4
    <2> QED
      BY <1>4, <2>2, <2>3 DEF ThreadHandle, IsConnect
  <1>5. CASE ThreadSetSession
    <2>1. /\ UNCHANGED <<doInit, connected, request, outbox, inbox, opened, pc>>
          /\ thread = "setSession" /\ thread' = "loop" /\ sessionId' = msg.sid
      BY <1>5, Zenon DEF ThreadSetSession, apiVars, queues, proxyVars
    <2>2. OneUnderWay'
      BY <2>1 DEF OneUnderWay
    <2>3. FirstSession'
      BY <2>1 DEF FirstSession, OneUnderWay
    <2>4. OffLine'
      BY <2>1 DEF OffLine
    <2> QED
      BY <2>2, <2>3, <2>4
  <1> QED
    BY <1>1, <1>2, <1>3, <1>4, <1>5, Zenon DEF ListenerThread

\* A step of the application thread that neither sends a connect nor waits for
\* one: it finds every connect answered.
LEMMA StepSession ==
  ASSUME OneUnderWay, FirstSession,
         pc \notin {"connecting", "aborted"}, pc' # "connecting",
         UNCHANGED <<sessionId, msg, outbox, opened>>,
         inbox' = inbox \/ inbox' = <<>>,
         thread' = thread \/ thread' \in {"loop", "none"},
         pc' = "send" /\ IsConnect(request') => request'.sid = sessionId /\ ~connected'
  PROVE  OneUnderWay' /\ FirstSession'
  <1>1. Answered /\ thread # "setSession" /\ OneConnect(outbox) /\ OneConnect(inbox)
    BY DEF OneUnderWay
  <1>2. NoConnect(inbox') /\ OneConnect(inbox')
    BY <1>1, QueueEmpty, Zenon DEF Answered
  <1>3. thread' # "setSession" /\ ~Handling'
    BY <1>1 DEF Answered, Handling
  <1>4. Answered'
    BY <1>1, <1>2, <1>3, Zenon DEF Answered
  <1>5. OneUnderWay'
    BY <1>1, <1>2, <1>3, <1>4, Zenon DEF OneUnderWay, Answered
  <1>6. NamesSession(inbox')
    BY QueueEmpty, Zenon DEF FirstSession
  <1>7. FirstSession'
    BY <1>3, <1>6 DEF FirstSession, Handling
  <1> QED
    BY <1>5, <1>7

LEMMA CallsSession ==
  ASSUME SessionInv, Calls
  PROVE  SessionInv'
  <1>0. /\ pc = "idle"
        /\ UNCHANGED <<doInit, connected, sessionId, thread, msg, request, timedOut, outbox,
                       inbox, opened>>
    BY Zenon DEF Calls, connect, subscribe, statusWait, disconnect, Call, stateVars,
       listenerVars, queues, proxyVars
  <1> SUFFICES ASSUME OneUnderWay, FirstSession, OffLine
               PROVE  OneUnderWay' /\ FirstSession' /\ OffLine'
    BY <1>0, Zenon DEF SessionInv
  <1>1. \/ pc' = "connect" /\ doInit
        \/ pc' = "init"
        \/ pc' \in {"subscribe", "wait"} /\ connected
        \/ pc' = "goodbye" /\ doInit
        \/ pc' = "stop" /\ doInit /\ ~connected
    <2>1. CASE connect \/ subscribe
      BY <2>1, Zenon DEF connect, subscribe, ConnectLabel, Call
    <2>2. CASE statusWait \/ disconnect
      BY <2>2, Zenon DEF statusWait, disconnect, Call
    <2> QED
      BY <2>1, <2>2, Zenon DEF Calls
  <1>2. OffLine'
    BY <1>0, <1>1 DEF OffLine
  <1>3. pc \notin {"connecting", "aborted"} /\ pc' # "connecting" /\ pc' # "send"
    BY <1>0, <1>1
  <1> QED
    BY <1>0, <1>2, <1>3, StepSession, Zenon

LEMMA AppSession ==
  ASSUME TypeOK, SessionInv, AppThread
  PROVE  SessionInv'
  <1>1. CASE ConnectTimeout
    BY <1>1, Zenon DEF ConnectTimeout, SessionInv
  <1> SUFFICES ASSUME ~ConnectTimeout, OneUnderWay, FirstSession, OffLine
               PROVE  OneUnderWay' /\ FirstSession' /\ OffLine'
    <2>1. CASE ~ConnectTimeout
      <3>1. UNCHANGED timedOut
        <4>1. CASE \/ InitFails \/ InitClient \/ InitDone \/ ConnectBuild \/ Send
                   \/ ConnectDone \/ SubscribeCheck \/ SubscribeBuild \/ SubscribeDone
                   \/ WaitEnds \/ WaitChecksProxy \/ DisconnectBuild
          BY <4>1, Zenon DEF InitFails, InitClient, InitDone, ConnectBuild, Send,
             ConnectDone, SubscribeCheck, SubscribeBuild, SubscribeDone, WaitEnds,
             WaitChecksProxy, DisconnectBuild, Go
        <4>2. CASE Disconnected \/ Stop \/ FinalizeTx \/ FinalizeRx \/ FinalizeSkipped \/ Stopped
          BY <4>2, Zenon DEF Disconnected, Stop, FinalizeTx, FinalizeRx, FinalizeSkipped,
             Stopped, Go
        <4> QED
          BY <2>1, <4>1, <4>2, Zenon DEF AppThread
      <3> QED
        BY <2>1, <3>1, Zenon DEF SessionInv
    <2> QED
      BY <1>1, <2>1, Zenon
  <1>2. CASE \/ InitFails \/ SubscribeCheck \/ SubscribeDone \/ WaitEnds \/ WaitChecksProxy
             \/ FinalizeSkipped
    <2>1. UNCHANGED <<doInit, connected, sessionId, thread, msg, request, outbox, inbox, opened>>
      BY <1>2, Zenon DEF InitFails, SubscribeCheck, SubscribeDone, WaitEnds,
         WaitChecksProxy, FinalizeSkipped, Go, stateVars, listenerVars, queues, proxyVars
    <2>2. \/ pc = "init" /\ pc' = "idle"
          \/ pc \in {"subscribe", "subscribing", "wait"} /\ pc' \in {"ask", "idle", "connect"}
          \/ pc = "finalizeRx" /\ pc' = "stopped"
      BY <1>2, Zenon DEF InitFails, SubscribeCheck, SubscribeDone, WaitEnds,
         WaitChecksProxy, FinalizeSkipped, Go
    <2>3. OffLine'
      BY <2>1, <2>2 DEF OffLine
    <2>4. pc \notin {"connecting", "aborted"} /\ pc' # "connecting" /\ pc' # "send"
      BY <2>2
    <2> QED
      BY <2>1, <2>3, <2>4, StepSession, Zenon
  <1>3. CASE InitClient
    <2>1. /\ pc = "init" /\ pc' = "started" /\ thread' = "loop" /\ inbox' = <<>>
          /\ UNCHANGED <<doInit, connected, sessionId, msg, outbox, opened>>
      BY <1>3, Zenon DEF InitClient, proxyVars
    <2>2. OffLine'
      BY <2>1 DEF OffLine
    <2>3. pc \notin {"connecting", "aborted"} /\ pc' # "connecting" /\ pc' # "send"
      BY <2>1
    <2> QED
      BY <2>1, <2>2, <2>3, StepSession, Zenon
  <1>4. CASE InitDone
    <2>1. /\ pc = "started" /\ pc' = "connect" /\ doInit'
          /\ UNCHANGED <<connected, sessionId, thread, msg, outbox, inbox, opened>>
      BY <1>4, Zenon DEF InitDone, listenerVars, queues, proxyVars
    <2>2. OffLine'
      BY <2>1 DEF OffLine
    <2>3. pc \notin {"connecting", "aborted"} /\ pc' # "connecting" /\ pc' # "send"
      BY <2>1
    <2> QED
      BY <2>1, <2>2, <2>3, StepSession, Zenon
  <1>5. CASE ConnectBuild
    <2>1. /\ pc = "connect" /\ pc' = "send" /\ ~connected'
          /\ request' = [type |-> "CONNECT", sid |-> sessionId]
          /\ UNCHANGED <<doInit, sessionId, thread, msg, outbox, inbox, opened>>
      BY <1>5, Zenon DEF ConnectBuild, listenerVars, queues, proxyVars
    <2>2. OffLine'
      BY <2>1 DEF OffLine
    <2>3. pc \notin {"connecting", "aborted"} /\ pc' # "connecting" /\ request'.sid = sessionId
      BY <2>1
    <2> QED
      BY <2>1, <2>2, <2>3, StepSession, Zenon
  <1>6. CASE SubscribeBuild \/ DisconnectBuild
    <2>1. /\ pc \in {"ask", "goodbye"} /\ pc' = "send"
          /\ UNCHANGED <<doInit, connected, sessionId, thread, msg, outbox, inbox, opened>>
      BY <1>6, Zenon DEF SubscribeBuild, DisconnectBuild, stateVars, listenerVars, queues,
         proxyVars
    <2>2. \/ request' = [type |-> "SUBSCRIBE", sid |-> sessionId]
          \/ request' = [type |-> "DISCONNECT", sid |-> sessionId]
      BY <1>6, Zenon DEF SubscribeBuild, DisconnectBuild
    <2>3. OffLine'
      BY <2>1 DEF OffLine
    <2>4. pc \notin {"connecting", "aborted"} /\ pc' # "connecting" /\ ~IsConnect(request')
      BY <2>1, <2>2 DEF IsConnect
    <2> QED
      BY <2>1, <2>3, <2>4, StepSession, Zenon
  <1>7. CASE Disconnected \/ Stop \/ FinalizeTx
    <2>1. /\ \/ pc = "disconnected" /\ pc' = "stop" /\ ~connected'
             \/ pc \in {"stop", "finalizeTx"} /\ pc' \in {"finalizeTx", "finalizeRx"}
                /\ connected' = connected
          /\ thread' = thread \/ thread' = "loop"
          /\ UNCHANGED <<doInit, sessionId, msg, outbox, inbox, opened>>
      BY <1>7, Zenon DEF Disconnected, Stop, FinalizeTx, stateVars, listenerVars, queues,
         proxyVars
    <2>2. OffLine'
      BY <2>1 DEF OffLine
    <2>3. pc \notin {"connecting", "aborted"} /\ pc' # "connecting" /\ pc' # "send"
      BY <2>1
    <2> QED
      BY <2>1, <2>2, <2>3, StepSession, Zenon
  <1>8. CASE FinalizeRx
    <2>1. /\ pc = "finalizeRx" /\ pc' = "stopped"
          /\ thread' = thread \/ thread' = "none"
          /\ inbox' = inbox \/ inbox' = <<>>
          /\ UNCHANGED <<doInit, connected, sessionId, msg, outbox, opened>>
      BY <1>8, Zenon DEF FinalizeRx, proxyVars
    <2>2. OffLine'
      BY <2>1 DEF OffLine
    <2>3. pc \notin {"connecting", "aborted"} /\ pc' # "connecting" /\ pc' # "send"
      BY <2>1
    <2> QED
      BY <2>1, <2>2, <2>3, StepSession, Zenon
  <1>9. CASE Stopped
    <2>1. /\ pc = "stopped" /\ pc' = "idle"
          /\ UNCHANGED <<connected, sessionId, thread, msg, outbox, inbox, opened>>
      BY <1>9, Zenon DEF Stopped, listenerVars, queues, proxyVars
    <2>2. OffLine'
      BY <2>1 DEF OffLine
    <2>3. pc \notin {"connecting", "aborted"} /\ pc' # "connecting" /\ pc' # "send"
      BY <2>1
    <2> QED
      BY <2>1, <2>2, <2>3, StepSession, Zenon
  <1>10. CASE ConnectDone
    <2>1. /\ pc = "connecting" /\ connected /\ thread # "setSession" /\ pc' = cont
          /\ UNCHANGED <<doInit, connected, sessionId, thread, msg, request, outbox, inbox,
                         opened>>
      BY <1>10, Zenon DEF ConnectDone, Go, stateVars, listenerVars, queues, proxyVars
    <2>2. pc' \in {"idle", "subscribe", "wait"}
      BY <2>1, Zenon DEF TypeOK
    <2>3. OneUnderWay'
      BY <2>1, <2>2 DEF OneUnderWay, Answered, Handling
    <2>4. FirstSession'
      BY <2>1, <2>2 DEF FirstSession
    <2>5. OffLine'
      BY <2>1, <2>2 DEF OffLine
    <2> QED
      BY <2>3, <2>4, <2>5
  <1>11. CASE Send
    <2>1. /\ pc = "send" /\ pc' = AfterSend
          /\ UNCHANGED <<doInit, connected, sessionId, thread, msg, inbox, opened>>
          /\ request' = NoMessage
          /\ outbox' = outbox \/ outbox' = Append(outbox, request)
      BY <1>11, Zenon DEF Send, stateVars, listenerVars, proxyVars
    <2>2. request \in Message /\ outbox \in Seq(Message)
          /\ request.type \in {"CONNECT", "SUBSCRIBE", "DISCONNECT"}
      BY SMTT(40) DEF TypeOK, Message
    <2>3. Answered /\ thread # "setSession" /\ OneConnect(outbox) /\ OneConnect(inbox)
      BY <2>1 DEF OneUnderWay
    <2>4. CASE IsConnect(request)
      <3>1. pc' = "connecting"
        BY <2>1, <2>4, SMTT(40) DEF AfterSend, IsConnect
      <3>2. OneConnect(outbox')
        BY <2>1, <2>2, <2>3, QueueAppend, Zenon DEF Answered
      <3>3. ~connected
        BY <2>1, <2>4, Zenon DEF OneUnderWay
      <3>4. opened # 0 => NamesSession(outbox')
        <4>1. opened # 0 => request.sid # InvalidSessionId /\ NamesSession(outbox)
          BY <2>1, <2>4 DEF FirstSession
        <4> QED
          BY <2>1, <2>2, <4>1, QueueAppend, Zenon
      <3>5. OneUnderWay'
        BY <2>1, <2>3, <3>1, <3>2, <3>3 DEF OneUnderWay, Answered, Handling
      <3>6. FirstSession'
        BY <2>1, <2>3, <3>1, <3>3, <3>4 DEF FirstSession
      <3>7. OffLine'
        BY <2>1, <3>1 DEF OffLine
      <3> QED
        BY <3>5, <3>6, <3>7
    <2>5. CASE ~IsConnect(request)
      <3>1. pc' \in {"subscribing", "disconnected", "idle"}
        BY <2>1, <2>2, <2>5, SMTT(40) DEF AfterSend, IsConnect
      <3>2. NoConnect(outbox') /\ OneConnect(outbox')
        BY <2>1, <2>2, <2>3, <2>5, QueueAppend, Zenon DEF Answered
      <3>3. NamesSession(outbox')
        BY <3>2, NoneIsOne
      <3>4. OneUnderWay'
        BY <2>1, <2>3, <3>1, <3>2 DEF OneUnderWay, Answered, Handling
      <3>5. FirstSession'
        BY <2>1, <2>3, <3>1, <3>3 DEF FirstSession
      <3>6. OffLine'
        BY <2>1, <3>1 DEF OffLine
      <3> QED
        BY <3>4, <3>5, <3>6
    <2> QED
      BY <2>4, <2>5
  <1> QED
    BY <1>2, <1>3, <1>4, <1>5, <1>6, <1>7, <1>8, <1>9, <1>10, <1>11, Zenon DEF AppThread

\* The proxy answers the one connect under way, and opens a session only for the
\* first.
LEMMA ServeSession ==
  ASSUME TypeOK, SessionInv, ProxyServes
  PROVE  SessionInv'
  <1> DEFINE m == Head(outbox)
  <1>0. /\ UNCHANGED <<doInit, connected, sessionId, thread, msg, pc, request, timedOut>>
        /\ outbox # <<>> /\ outbox' = Tail(outbox)
    BY Zenon DEF ProxyServes, stateVars, listenerVars, apiVars
  <1>t. /\ outbox \in Seq(Message) /\ inbox \in Seq(Message)
        /\ sessions \subseteq Session \ {InvalidSessionId} /\ opened \in Nat
    <2>1. opened \in 0 .. MaxSession
      BY Zenon DEF TypeOK
    <2> QED
      BY <2>1, SMTT(40) DEF TypeOK
  <1>q. m \in Message /\ m.sid \in Session
        /\ \A s \in Session : /\ [type |-> "CONNECT", sid |-> s] \in Message
                              /\ [type |-> "SUBSCRIBE", sid |-> s] \in Message
    <2>1. m \in Message
      BY <1>0, <1>t, SMTT(40)
    <2> QED
      BY <2>1, SMTT(40) DEF Message
  <1> SUFFICES ASSUME OneUnderWay, FirstSession, OffLine
               PROVE  OneUnderWay' /\ FirstSession' /\ OffLine'
    BY <1>0, Zenon DEF SessionInv
  <1>1. /\ NoConnect(outbox) => NoConnect(outbox') /\ ~IsConnect(m)
        /\ OneConnect(outbox')
        /\ IsConnect(m) => NoConnect(outbox')
        /\ opened # 0 => NamesSession(outbox')
        /\ opened # 0 /\ IsConnect(m) => m.sid # InvalidSessionId
    BY <1>0, <1>t, QueueTail, Zenon DEF OneUnderWay, FirstSession
  <1>2. OffLine'
    BY <1>0, Zenon DEF OffLine
  <1>3. CASE IsConnect(m)
    <2>1. /\ pc \in {"connecting", "aborted"} /\ ~connected /\ thread # "setSession"
          /\ NoConnect(inbox) /\ ~Handling /\ NoConnect(outbox') /\ OneConnect(inbox)
      BY <1>1, <1>3, Zenon DEF OneUnderWay, Answered
    <2>2. /\ OneConnect(inbox') /\ NamesSession(inbox') /\ opened' <= 1
          /\ opened # 0 => opened' = opened
      <3>1. ProxyConnect(m.sid)
        BY <1>3, SMTT(40) DEF ProxyServes, IsConnect
      <3> HIDE DEF m
      <3>2. ASSUME NEW s \in Session \ {InvalidSessionId},
                   Reply([type |-> "CONNECT", sid |-> s])
            PROVE  OneConnect(inbox') /\ NamesSession(inbox')
        <4>1. \/ inbox' = inbox
              \/ inbox' = Append(inbox, [type |-> "CONNECT", sid |-> s])
          BY <3>2, Zenon DEF Reply
        <4>2. /\ [type |-> "CONNECT", sid |-> s] \in Message
              /\ [type |-> "CONNECT", sid |-> s].sid # InvalidSessionId
          BY <1>q, <3>2, Zenon
        <4>3. NamesSession(inbox)
          BY Zenon DEF FirstSession
        <4> QED
          BY <1>t, <2>1, <4>1, <4>2, <4>3, QueueAppend, Zenon
      <3>3. CASE /\ m.sid = InvalidSessionId /\ opened < MaxSession
                 /\ opened' = opened + 1 /\ Reply([type |-> "CONNECT", sid |-> opened + 1])
        <4>1. opened = 0
          BY <1>1, <1>3, <3>3, Zenon
        <4>2. opened + 1 \in Session \ {InvalidSessionId} /\ opened' <= 1
          BY <3>3, <4>1, ConstantsAssumption, SMTT(40) DEF Session, InvalidSessionId
        <4> QED
          BY <3>2, <3>3, <4>1, <4>2, Zenon
      <3>4. CASE /\ m.sid \in sessions /\ UNCHANGED opened
                 /\ Reply([type |-> "CONNECT", sid |-> m.sid])
        BY <1>t, <3>2, <3>4, Zenon DEF FirstSession
      <3>5. CASE UNCHANGED <<inbox, opened>>
        BY <2>1, <3>5, Zenon DEF FirstSession
      <3> QED
        BY <3>1, <3>3, <3>4, <3>5, Zenon DEF ProxyConnect
    <2>3. OneUnderWay'
      BY <1>0, <2>1, <2>2, <1>1 DEF OneUnderWay, Answered, Handling
    <2>4. FirstSession'
      <3>1. NamesSession(outbox')
        BY <2>1, NoneIsOne, Zenon
      <3> QED
        BY <1>0, <2>1, <2>2, <3>1 DEF FirstSession
    <2> QED
      BY <1>2, <2>3, <2>4
  <1>4. CASE ~IsConnect(m)
    <2>1. UNCHANGED opened /\ (inbox' = inbox
                               \/ inbox' = Append(inbox, [type |-> "SUBSCRIBE", sid |-> m.sid]))
      <3>1. ProxySubscribe(m.sid) \/ ProxyDisconnect(m.sid)
        BY <1>4, Zenon DEF ProxyServes, IsConnect
      <3> HIDE DEF m
      <3> QED
        BY <3>1, Zenon DEF ProxySubscribe, ProxyDisconnect, Reply
    <2>2. /\ NoConnect(inbox) => NoConnect(inbox')
          /\ OneConnect(inbox') /\ NamesSession(inbox')
      <3> HIDE DEF m
      <3>1. /\ [type |-> "SUBSCRIBE", sid |-> m.sid] \in Message
            /\ ~IsConnect([type |-> "SUBSCRIBE", sid |-> m.sid])
        BY <1>q, Zenon DEF IsConnect
      <3> QED
        BY <1>t, <2>1, <3>1, QueueAppend, Zenon DEF OneUnderWay, FirstSession
    <2>3. OneUnderWay'
      BY <1>0, <1>1, <2>2, Zenon DEF OneUnderWay, Answered, Handling
    <2>4. FirstSession'
      BY <1>0, <1>1, <2>1, <2>2, Zenon DEF FirstSession
    <2> QED
      BY <1>2, <2>3, <2>4
  <1> QED
    BY <1>3, <1>4

LEMMA GoodbyeSession ==
  ASSUME TypeOK, SessionInv, ProxyDies \/ ProxyGoodbye
  PROVE  SessionInv'
  <1>0. UNCHANGED <<doInit, connected, sessionId, thread, msg, pc, request, timedOut, outbox,
                    opened>>
    BY Zenon DEF ProxyDies, ProxyGoodbye, stateVars, listenerVars, apiVars, queues
  <1> SUFFICES ASSUME OneUnderWay, FirstSession, OffLine
               PROVE  OneUnderWay' /\ FirstSession' /\ OffLine'
    BY <1>0, Zenon DEF SessionInv
  <1>1. \A i \in 1 .. Len(inbox') : \/ i \in 1 .. Len(inbox) /\ inbox'[i] = inbox[i]
                                    \/ ~IsConnect(inbox'[i])
    <2>1. CASE ProxyDies
      BY <2>1, Zenon DEF ProxyDies, queues
    <2>2. CASE ProxyGoodbye
      <3>1. \A i \in 1 .. Len(inbox') : \/ i \in 1 .. Len(inbox) /\ inbox'[i] = inbox[i]
                                        \/ inbox'[i].type = "DISCONNECT"
        BY <2>2, GoodbyeType, Zenon
      <3>2. \A b : b.type = "DISCONNECT" => ~IsConnect(b)
        BY SMTT(40) DEF IsConnect
      <3> QED
        BY <3>1, <3>2, Zenon
    <2> QED
      BY <2>1, <2>2
  <1>2. /\ NoConnect(inbox) => NoConnect(inbox')
        /\ OneConnect(inbox) => OneConnect(inbox')
        /\ NamesSession(inbox) => NamesSession(inbox')
    BY <1>1, Zenon DEF NoConnect, OneConnect, NamesSession
  <1>3. OneUnderWay'
    BY <1>0, <1>2, Zenon DEF OneUnderWay, Answered, Handling
  <1>4. FirstSession'
    BY <1>0, <1>2, Zenon DEF FirstSession
  <1>5. OffLine'
    BY <1>0, Zenon DEF OffLine
  <1> QED
    BY <1>3, <1>4, <1>5

LEMMA SessionInvariant == Spec => []SessionInv
  <1>1. Init => SessionInv
    <2> SUFFICES ASSUME Init PROVE SessionInv
      OBVIOUS
    <2>1. /\ connected = FALSE /\ doInit = FALSE /\ thread = "none" /\ pc = "idle"
          /\ outbox = <<>> /\ inbox = <<>> /\ opened = 0
      BY Zenon DEF Init
    <2>2. OneUnderWay
      BY <2>1, QueueEmpty DEF OneUnderWay, Answered, Handling
    <2>3. FirstSession
      BY <2>1, QueueEmpty DEF FirstSession
    <2>4. OffLine
      BY <2>1 DEF OffLine
    <2> QED
      BY <2>2, <2>3, <2>4, Zenon DEF SessionInv
  <1>2. TypeOK /\ SessionInv /\ [Next]_vars => SessionInv'
    <2> SUFFICES ASSUME TypeOK, SessionInv, [Next]_vars PROVE SessionInv'
      OBVIOUS
    <2>1. CASE UNCHANGED vars
      <3>1. UNCHANGED <<doInit, connected, sessionId, thread, msg, pc, request, timedOut,
                        outbox, inbox, opened>>
        BY <2>1, Zenon DEF vars, stateVars, listenerVars, apiVars, queues, proxyVars
      <3>2. OneUnderWay => OneUnderWay'
        BY <3>1, Zenon DEF OneUnderWay, Answered, Handling
      <3>3. FirstSession /\ OffLine => FirstSession' /\ OffLine'
        BY <3>1, Zenon DEF FirstSession, OffLine
      <3> QED
        BY <3>1, <3>2, <3>3, Zenon DEF SessionInv
    <2> QED
      BY <2>1, ListenerSession, CallsSession, AppSession, ServeSession, GoodbyeSession, Zenon
         DEF Next, Proxy
  <1> QED
    BY <1>1, <1>2, TypeCorrect, PTL DEF Spec

\* The sessions of the client are among those the proxy opened.
LEMMA OpenedInvariant == Spec => [](sessions \subseteq 1 .. opened)
  <1>1. Init => sessions \subseteq 1 .. opened
    BY Zenon DEF Init
  <1>2. TypeOK /\ sessions \subseteq 1 .. opened /\ [Next]_vars
          => (sessions \subseteq 1 .. opened)'
    <2> SUFFICES ASSUME TypeOK, sessions \subseteq 1 .. opened, [Next]_vars
                 PROVE  sessions' \subseteq 1 .. opened'
      OBVIOUS
    <2>1. CASE UNCHANGED proxyVars
      BY <2>1, Zenon DEF proxyVars
    <2>2. CASE ProxyServes
      <3>1. \/ opened' = opened + 1 /\ sessions' = sessions \cup {opened + 1}
            \/ opened' = opened /\ sessions' \subseteq sessions
        <4> DEFINE s == Head(outbox).sid
        <4>1. ProxyConnect(s) \/ ProxySubscribe(s) \/ ProxyDisconnect(s)
          BY <2>2, Zenon DEF ProxyServes
        <4> HIDE DEF s
        <4> QED
          BY <4>1, Zenon DEF ProxyConnect, ProxySubscribe, ProxyDisconnect
      <3>2. opened \in Nat
        <4>1. opened \in 0 .. MaxSession
          BY Zenon DEF TypeOK
        <4> QED
          BY <4>1, SMTT(40)
      <3>3. 1 .. opened \subseteq 1 .. (opened + 1) /\ opened + 1 \in 1 .. (opened + 1)
        BY <3>2, SMTT(40)
      <3> QED
        BY <3>1, <3>3, Zenon
    <2>3. CASE ProxyDies \/ ProxyGoodbye
      BY <2>3, Zenon DEF ProxyDies, ProxyGoodbye
    <2>4. UNCHANGED proxyVars \/ Proxy
      <3>1. CASE ListenerThread
        BY <3>1, Zenon DEF ListenerThread, ThreadLoop, ThreadReceive, ThreadReceived,
           ThreadHandle, ThreadSetSession
      <3>2. CASE Calls
        BY <3>2, Zenon DEF Calls, connect, subscribe, statusWait, disconnect, Call
      <3>3. CASE AppThread
        BY <3>3, Zenon DEF AppThread, InitFails, InitClient, InitDone, ConnectBuild, Send,
           ConnectDone, ConnectTimeout, SubscribeCheck, SubscribeBuild, SubscribeDone,
           WaitEnds, WaitChecksProxy, DisconnectBuild, Disconnected, Stop, FinalizeTx,
           FinalizeRx, FinalizeSkipped, Stopped, Go
      <3>4. CASE UNCHANGED vars
        BY <3>4, Zenon DEF vars
      <3> QED
        BY <3>1, <3>2, <3>3, <3>4, Zenon DEF Next
    <2> QED
      BY <2>1, <2>2, <2>3, <2>4, Zenon DEF Proxy
  <1> QED
    BY <1>1, <1>2, TypeCorrect, PTL DEF Spec

\* A client of which no connect timed out never has two sessions, however often
\* it disconnects and connects again and whatever the proxy does.
THEOREM AtMostOneSession == Spec => []OneSession
  <1>1. TypeOK /\ SessionInv /\ sessions \subseteq 1 .. opened => OneSession
    <2> SUFFICES ASSUME TypeOK, SessionInv, sessions \subseteq 1 .. opened, ~timedOut
                 PROVE  Cardinality(sessions) <= 1
      BY Zenon DEF OneSession
    <2>1. opened \in 0 .. MaxSession /\ opened <= 1
      BY Zenon DEF TypeOK, SessionInv, FirstSession
    <2>2. sessions \subseteq 1 .. 1
      <3>1. 1 .. opened \subseteq 1 .. 1
        <4>1. \A n \in Nat : n <= 1 => 1 .. n \subseteq 1 .. 1
          BY SMTT(40)
        <4>2. opened \in Nat
          BY <2>1, ConstantsAssumption, SMTT(40)
        <4> QED
          BY <2>1, <4>1, <4>2, Zenon
      <3> QED
        BY <3>1, Zenon
    <2>3. IsFiniteSet(1 .. 1) /\ Cardinality(1 .. 1) = 1
      <3>1. 1 \in Nat
        OBVIOUS
      <3> QED
        BY <3>1, IntervalSize, Zenon
    <2>4. Cardinality(sessions) <= Cardinality(1 .. 1)
      BY <2>2, <2>3, FS_Subset
    <2> QED
      BY <2>3, <2>4
  <1> QED
    BY <1>1, TypeCorrect, SessionInvariant, OpenedInvariant, PTL

\* After a successful disconnect only the reply to a connect that had timed out
\* makes the client take itself for connected again.
THEOREM ConnectedByLateReply == Spec => []OnlyLateReplyConnects
  <1>1. SessionInv => OnlyLateReplyConnects
    BY Zenon DEF SessionInv, OffLine, OnlyLateReplyConnects
  <1> QED
    BY <1>1, SessionInvariant, PTL

=============================================================================
