------------------------ MODULE ProxyClients_proofs ------------------------
(***************************************************************************)
(* Theorems about the proxy's client table (ProxyClients), for any number  *)
(* of clients, time bases, session ids and any queue sizes.                *)
(***************************************************************************)
EXTENDS ProxyClients, FiniteSetTheorems, TLAPS

\* The listener and the main thread are distinct and are no publishers.
LEMMA ThreadFacts ==
  /\ Lst \in Thread /\ Main \in Thread /\ Lst # Main
  /\ \A p \in Source : /\ p \in Thread /\ p \in Status /\ p # Lst /\ p # Main
                       /\ p[1] \in TimeBase /\ p[2] \in ClockType
BY ConstantsAssumption, SMTT(40) DEF Lst, Main, Thread, Status, ClockType

\* While the listener enters a subscription and reads the events for the
\* reply, the reply names a configured time base; until it is sent it names a
\* session.
ReplyInv ==
  /\ pc[Lst] \in {"insert", "readptp", "readsys"} =>
       reply.type = "SUBSCRIBE" /\ reply.tb \in TimeBase
  /\ pc[Lst] \in {"insert", "readptp", "readsys", "gettx", "send"} =>
       reply.sid \in SessionId

TypeInv == TypeOK /\ ReplyInv

LEMMA DisconnectType == Disconnect \in Message
BY Zenon DEF Disconnect, Message, NoNews

LEMMA TypeInvInit == Init => TypeInv
<1> SUFFICES ASSUME Init PROVE TypeInv
  OBVIOUS
<1> USE ThreadFacts, ConstantsAssumption DEF Init
<1>1. Disconnect \in Message
  BY DisconnectType, Zenon
<1>2. pc \in [Thread -> Label] /\ pc[Lst] = "loop"
  BY Zenon DEF Label
<1>3. inbox \in Seq(Request) /\ Len(inbox) <= ProxyDepth
  OBVIOUS
<1>4. queue \in [Client -> Seq(Message)] /\ \A c \in Client : Len(queue[c]) <= Depth
  OBVIOUS
<1>5. 0 \in SessionId
  BY DEF SessionId
<1> QED BY <1>1, <1>2, <1>3, <1>4, <1>5, Zenon DEF TypeInv, TypeOK, ReplyInv

LEMMA ClientStepType ==
  ASSUME TypeInv, NEW c \in Client, ClientStep(c)
  PROVE  TypeInv'
<1> USE ThreadFacts, ConstantsAssumption DEF TypeInv, table, thread, clients, history
<1>1. CASE ClientConnect(c)
  BY <1>1, SMTT(40) DEF ClientConnect, Post, TypeOK, ReplyInv, Request
<1>2. ASSUME NEW b \in TimeBase, ClientSubscribe(c, b) PROVE TypeInv'
  BY <1>2, SMTT(40) DEF ClientSubscribe, Post, TypeOK, ReplyInv, Request
<1>3. CASE ClientDisconnect(c)
  BY <1>3, SMTT(40) DEF ClientDisconnect, Post, TypeOK, ReplyInv, Request
<1>4. CASE ClientReceive(c)
  <2>1. queue[c] \in Seq(Message) /\ queue[c] # <<>> /\ Len(queue[c]) <= Depth
    BY <1>4, Zenon DEF ClientReceive, TypeOK
  <2>2. /\ Head(queue[c]) \in Message /\ Tail(queue[c]) \in Seq(Message)
        /\ Len(Tail(queue[c])) <= Depth
    BY SMTT(40), <2>1
  <2>3. Head(queue[c]).sid \in SessionId \cup {InvalidSessionId}
    BY <2>2, Zenon DEF Message
  <2> QED BY <1>4, <2>2, <2>3, Zenon DEF ClientReceive, TypeOK, ReplyInv
<1>5. CASE ClientGone(c)
  BY <1>5, Zenon DEF ClientGone, TypeOK, ReplyInv
<1> QED BY <1>1, <1>2, <1>3, <1>4, <1>5, ZenonT(40) DEF ClientStep

\* The part of the type invariant that a message sent to a client can touch.
SentType ==
  /\ queue \in [Client -> Seq(Message)]
  /\ \A c \in Client : Len(queue[c]) <= Depth
  /\ informed \in [SessionId -> SUBSET Status]
  /\ fresh \in [SessionId -> SUBSET Status]

\* Sending to a queue with room keeps it within its capacity.
LEMMA SendType ==
  ASSUME TypeOK, NEW t \in Thread, NEW msg \in Message, CanSend(t), Send(t, msg)
  PROVE  SentType'
<1> USE ConstantsAssumption
<1>1. Current(msg) \subseteq Status /\ Carried(msg) \subseteq Status
  BY Zenon DEF Current, Carried
<1>2. informed' \in [SessionId -> SUBSET Status] /\ fresh' \in [SessionId -> SUBSET Status]
  BY <1>1, Zenon DEF TypeOK, Send
<1>3. ASSUME NEW c \in Client
      PROVE  queue'[c] \in Seq(Message) /\ Len(queue'[c]) <= Depth
  <2>1. queue[c] \in Seq(Message) /\ Len(queue[c]) <= Depth
    BY Zenon DEF TypeOK
  <2>2. CASE sessionMap[ptx[t]] = c
    <3>1. queue'[c] = Append(queue[c], msg) /\ Len(queue[c]) < Depth
      BY <2>2, Zenon DEF Send, CanSend, TypeOK
    <3> QED BY SMTT(40), <2>1, <3>1
  <2>3. CASE sessionMap[ptx[t]] # c
    BY <2>1, <2>3, Zenon DEF Send, TypeOK
  <2> QED BY <2>2, <2>3, Zenon
<1>4. queue' \in [Client -> Seq(Message)]
  BY <1>3, Zenon DEF Send, TypeOK
<1> QED BY <1>2, <1>3, <1>4, Zenon DEF SentType

\* removeClient, run by any thread, keeps the types.
LEMMA RemoveType ==
  ASSUME TypeInv, NEW t \in Thread, Remove(t)
  PROVE  TypeInv'
<1> USE ThreadFacts, ConstantsAssumption DEF TypeInv, table, thread, clients, history
<1>1. CASE RemoveFromMap(t)
  BY <1>1, SMTT(40) DEF RemoveFromMap, First, Goto, TypeOK, ReplyInv, Label
<1>2. CASE RemoveFromBase(t)
  <2>1. PICK b \in left[t] : RemoveFromBase(t)!2!(b)
    BY <1>2, Zenon DEF RemoveFromBase
  <2>2. /\ subscribed' \in [TimeBase -> SUBSET SessionId]
        /\ left' \in [Thread -> SUBSET TimeBase]
    BY <2>1, Zenon DEF TypeOK
  <2>3. /\ rm' \in [Thread -> SUBSET SessionId] /\ cur' \in [Thread -> SessionId]
        /\ pc' \in [Thread -> Label]
        /\ pc'[Lst] = pc[Lst] \/ pc'[Lst] \in {"loop", "rm"}
    <3>1. CASE left[t] = {b}
      <4>1. AfterRemove(t) \in {"loop", "stop", "idle"} /\ AfterRemove(Lst) = "loop"
        BY Zenon DEF AfterRemove
      <4>2. PICK lab \in {"loop", "stop", "idle", "rm"} :
              pc' = [pc EXCEPT ![t] = lab] /\ (t = Lst => lab \in {"loop", "rm"})
        BY <2>1, <3>1, <4>1, Zenon DEF Goto
      <4>3. 0 \in SessionId
        BY DEF SessionId
      <4>4. rm' \in [Thread -> SUBSET SessionId]
        <5>1. rm[t] \ {cur[t]} \in SUBSET SessionId
          BY Zenon DEF TypeOK
        <5>2. rm' = [rm EXCEPT ![t] = rm[t] \ {cur[t]}]
          BY <2>1, <3>1, Zenon
        <5> QED BY <5>1, <5>2, Zenon DEF TypeOK
      <4>5. cur' \in [Thread -> SessionId]
        BY <2>1, <3>1, <4>3, ZenonT(40) DEF TypeOK
      <4>6. pc' \in [Thread -> Label]
        BY <4>2, Zenon DEF TypeOK, Label
      <4>7. pc'[Lst] = pc[Lst] \/ pc'[Lst] \in {"loop", "rm"}
        BY <4>2, Zenon DEF TypeOK
      <4> QED BY <4>4, <4>5, <4>6, <4>7, Zenon
    <3>2. CASE left[t] # {b}
      BY <2>1, <3>2, Zenon DEF TypeOK
    <3> QED BY <3>1, <3>2, Zenon
  <2> QED BY <1>2, <2>2, <2>3, Zenon DEF RemoveFromBase, TypeOK, ReplyInv
<1> QED BY <1>1, <1>2, ZenonT(40) DEF Remove

LEMMA ListenerType ==
  ASSUME TypeInv, ListenerWork \/ ListenerInterrupted
  PROVE  TypeInv'
<1> USE ThreadFacts, ConstantsAssumption DEF TypeInv, table, thread, clients, history
<1>0. ASSUME NEW type, Receive(type)
      PROVE  /\ Head(inbox) \in Request
             /\ inbox' \in Seq(Request) /\ Len(inbox') <= ProxyDepth
  BY <1>0, SMTT(40) DEF TypeOK, Receive
<1>1. CASE ListenerLoop
  BY <1>1, Zenon DEF ListenerLoop, Goto, TypeOK, ReplyInv, Label
<1>2. CASE ListenerInterrupted
  BY <1>2, Zenon DEF ListenerInterrupted, Goto, TypeOK, ReplyInv, Label
<1>3. CASE ListenerReconnect
  <2>1. Head(inbox).sid \in SessionId \cup {InvalidSessionId}
    BY <1>0, <1>3, Zenon DEF ListenerReconnect, Request
  <2>2. CASE Head(inbox).sid \in Live
    <3>1. /\ pc' = [pc EXCEPT ![Lst] = "gettx"]
          /\ reply' = [type |-> "CONNECT", sid |-> Head(inbox).sid, tb |-> 0,
                       news |-> NoNews]
      BY <1>3, <2>2, Zenon DEF ListenerReconnect, Goto
    <3>2. reply' \in Message /\ reply'.sid \in SessionId
      BY <2>1, <2>2, <3>1, Zenon DEF Message, NoNews, Live
    <3> QED BY <1>0, <1>3, <3>1, <3>2, Zenon DEF ListenerReconnect, TypeOK, ReplyInv, Label
  <2>3. CASE Head(inbox).sid \notin Live
    BY <1>0, <1>3, <2>3, ZenonT(40) DEF ListenerReconnect, ListenerFails, Goto, TypeOK, ReplyInv, Label
  <2> QED BY <2>2, <2>3, Zenon
<1>4. CASE ListenerConnect
  <2>1. CASE Live = SessionId /\ Goto(Lst, "spin") /\ UNCHANGED <<table, ptx, reply, history>>
    BY <1>0, <1>4, <2>1, Zenon DEF ListenerConnect, Goto, TypeOK, ReplyInv, Label
  <2>2. ASSUME NEW s \in SessionId, NewSession(Head(inbox), s) PROVE TypeInv'
    <3>1. CASE Head(inbox).client \in linked
      <4> USE <3>1, <2>2 DEF NewSession
      <4>0. Head(inbox).client \in Client
        BY Zenon DEF TypeOK
      <4>1. reply' \in Message /\ reply'.sid \in SessionId
        BY SMTT(40) DEF Message, NoNews
      <4>2. ptx' \in [Thread -> SessionId \cup {NullTx, FreedTx}]
        BY SMTT(40) DEF TypeOK
      <4>3. nextSession' \in SessionId
        BY DEF NextId, SessionId
      <4>4. /\ sessionMap' \in [SessionId -> Client \cup {NoClient}]
            /\ owner' \in [SessionId -> Client \cup {NoClient}]
            /\ informed' \in [SessionId -> SUBSET Status]
            /\ fresh' \in [SessionId -> SUBSET Status]
            /\ full' \subseteq SessionId
        <5>1. sessionMap' \in [SessionId -> Client \cup {NoClient}]
          BY <4>0, Zenon DEF TypeOK
        <5>2. owner' \in [SessionId -> Client \cup {NoClient}]
          BY <4>0, ZenonT(40) DEF TypeOK
        <5>3. /\ informed' \in [SessionId -> SUBSET Status]
              /\ fresh' \in [SessionId -> SUBSET Status]
          <6> DEFINE E == {x \in Status : ev[x] = 0}
          <6>1. E \in SUBSET Status
            OBVIOUS
          <6>2. informed' = [informed EXCEPT ![s] = E] /\ fresh' = [fresh EXCEPT ![s] = E]
            OBVIOUS
          <6> HIDE DEF E, NewSession
          <6> QED BY <6>1, <6>2, Zenon DEF TypeOK
        <5>4. full' \subseteq SessionId
          BY Zenon DEF TypeOK
        <5> QED BY <5>1, <5>2, <5>3, <5>4, Zenon
      <4>5. pc' = [pc EXCEPT ![Lst] = "gettx"] /\ subscribed' = subscribed
        BY Zenon DEF Goto
      <4> HIDE DEF NewSession
      <4> QED BY <1>0, <1>4, <4>1, <4>2, <4>3, <4>4, <4>5, ZenonT(40)
              DEF ListenerConnect, TypeOK, ReplyInv, Label
    <3>2. CASE Head(inbox).client \notin linked
      BY <1>0, <1>4, <2>2, <3>2, ZenonT(40)
         DEF ListenerConnect, NewSession, ListenerFails, Goto, TypeOK, ReplyInv, Label
    <3> QED BY <3>1, <3>2, Zenon
  <2> QED BY <1>4, <2>1, <2>2, Zenon DEF ListenerConnect
<1>5. CASE ListenerSubscribe
  <2>1. Head(inbox) \in Request
    BY <1>0, <1>5, Zenon DEF ListenerSubscribe
  <2>2. CASE Head(inbox).sid \in Live /\ Head(inbox).tb \in TimeBase
    <3>1. reply' = [type |-> "SUBSCRIBE", sid |-> Head(inbox).sid,
                    tb |-> Head(inbox).tb, news |-> NoNews]
      BY <1>5, <2>2, Zenon DEF ListenerSubscribe
    <3>2. reply' \in Message /\ reply'.type = "SUBSCRIBE" /\ reply'.tb \in TimeBase
          /\ reply'.sid \in SessionId
      BY <2>1, <2>2, <3>1, Zenon DEF Request, Message, NoNews, Live
    <3>3. pc' \in [Thread -> Label]
      BY <1>5, ZenonT(40) DEF ListenerSubscribe, ListenerFails, Goto, TypeOK, Label
    <3> QED BY <1>0, <1>5, <3>2, <3>3, Zenon DEF ListenerSubscribe, TypeOK, ReplyInv
  <2>3. CASE ~(Head(inbox).sid \in Live /\ Head(inbox).tb \in TimeBase)
    BY <1>0, <1>5, <2>3, ZenonT(40) DEF ListenerSubscribe, ListenerFails, Goto, TypeOK, ReplyInv, Label
  <2> QED BY <2>2, <2>3, Zenon
<1>6. CASE ListenerDisconnect
  BY <1>0, <1>6, ZenonT(40) DEF ListenerDisconnect, Goto, TypeOK, ReplyInv, Label
<1>7. CASE ListenerInsert
  BY <1>7, ZenonT(40) DEF ListenerInsert, Goto, TypeOK, ReplyInv, Label
<1>8. ASSUME NEW k \in ClockType, NEW from \in {"readptp", "readsys"},
             NEW to \in {"readsys", "gettx"}, ListenerRead(k, from, to)
      PROVE  TypeInv'
  <2>1. reply.type = "SUBSCRIBE" /\ reply.tb \in TimeBase /\ reply.sid \in SessionId
    BY <1>8, Zenon DEF ListenerRead, ReplyInv
  <2>2. ev[<<reply.tb, k>>] \in Nat
    BY <2>1, Zenon DEF TypeOK, Status
  <2>3. /\ reply' \in Message /\ reply'.type = "SUBSCRIBE" /\ reply'.tb \in TimeBase
        /\ reply'.sid \in SessionId
    BY <1>8, <2>1, <2>2, Zenon DEF ListenerRead, TypeOK, Message
  <2> QED BY <1>8, <2>3, Zenon DEF ListenerRead, Goto, TypeOK, ReplyInv, Label
<1>9. CASE ListenerGetTx
  <2>1. pc[Lst] = "gettx" /\ reply.sid \in SessionId
    BY <1>9, Zenon DEF ListenerGetTx, ReplyInv
  <2>2. PICK lab \in {"send", "dead"} : pc' = [pc EXCEPT ![Lst] = lab]
    BY <1>9, Zenon DEF ListenerGetTx, ListenerFails, Goto
  <2>3. ptx' = ptx \/ ptx' = [ptx EXCEPT ![Lst] = reply.sid]
    BY <1>9, Zenon DEF ListenerGetTx
  <2>4. pc' \in [Thread -> Label] /\ ptx' \in [Thread -> SessionId \cup {NullTx, FreedTx}]
    BY <2>1, <2>2, <2>3, Zenon DEF TypeOK, Label
  <2>5. ReplyInv'
    BY <1>9, <2>1, <2>2, Zenon DEF ListenerGetTx, ReplyInv, TypeOK
  <2> QED BY <1>9, <2>4, <2>5, Zenon DEF ListenerGetTx, TypeOK
<1>10. CASE ListenerSend
  <2>1. reply \in Message /\ Disconnect \in Message
    BY DisconnectType, Zenon DEF TypeOK
  <2>2. CASE CanSend(Lst)
    <3>1. SentType'
      BY <1>10, <2>1, <2>2, SendType, Zenon DEF ListenerSend
    <3> QED BY <1>10, <2>1, <2>2, <3>1, ZenonT(40)
            DEF ListenerSend, SentType, FullAfter, Goto, TypeOK, ReplyInv, Label
  <2>3. CASE ~CanSend(Lst)
    BY <1>10, <2>1, <2>3, ZenonT(40)
       DEF ListenerSend, ListenerFails, FullAfter, Goto, TypeOK, ReplyInv, Label
  <2> QED BY <2>2, <2>3, Zenon
<1>11. CASE Remove(Lst)
  BY <1>11, RemoveType, Zenon
<1> QED BY <1>1, <1>2, <1>3, <1>4, <1>5, <1>6, <1>7, <1>8, <1>9, <1>10, <1>11, ZenonT(40)
        DEF ListenerWork, ClockType

LEMMA PublisherType ==
  ASSUME TypeInv, NEW p \in Source, NotifyWork(p) \/ Publish(p) \/ PublisherStop(p)
  PROVE  TypeInv'
<1> USE ThreadFacts, ConstantsAssumption DEF TypeInv, table, thread, clients, history
<1>1. CASE Publish(p)
  <2>1. \A s \in SessionId : informed[s] \ {p} \in SUBSET Status /\ fresh[s] \ {p} \in SUBSET Status
    BY Zenon DEF TypeOK
  <2>2. ev' \in [Status -> Nat]
    <3>1. ev[p] + 1 \in Nat
      BY SMTT(40) DEF TypeOK
    <3> QED BY <1>1, <3>1, Zenon DEF Publish, TypeOK
  <2>3. pc' \in [Thread -> Label] /\ pc'[Lst] = pc[Lst]
    BY <1>1, Zenon DEF Publish, Goto, TypeOK, Label
  <2>4. informed' \in [SessionId -> SUBSET Status] /\ fresh' \in [SessionId -> SUBSET Status]
    BY <1>1, <2>1, Zenon DEF Publish
  <2> QED BY <1>1, <2>2, <2>3, <2>4, Zenon DEF Publish, TypeOK, ReplyInv
<1>2. CASE BeginScan(p)
  BY <1>2, Zenon DEF BeginScan, Goto, TypeOK, ReplyInv, Label
<1>3. CASE ScanGetTx(p)
  <2>1. PICK s \in todo[p] : ScanGetTx(p)!3!(s)
    BY <1>3, Zenon DEF ScanGetTx
  <2>2. s \in SessionId /\ todo[p] \ {s} \in SUBSET SessionId /\ rm[p] \cup {s} \in SUBSET SessionId
    BY Zenon DEF TypeOK
  <2>3. CASE s \in Live
    <3>1. /\ pc' \in [Thread -> Label] /\ pc'[Lst] = pc[Lst]
          /\ cur' \in [Thread -> SessionId] /\ rm' = rm
          /\ ptx' \in [Thread -> SessionId \cup {NullTx, FreedTx}]
          /\ todo' \in [Thread -> SUBSET SessionId]
      BY <2>1, <2>2, <2>3, ZenonT(40) DEF Goto, TypeOK, Label
    <3> QED BY <1>3, <3>1, Zenon DEF ScanGetTx, TypeOK, ReplyInv
  <2>4. CASE s \notin Live
    <3>1. /\ rm' \in [Thread -> SUBSET SessionId] /\ UNCHANGED <<cur, ptx, pc>>
          /\ todo' \in [Thread -> SUBSET SessionId]
      <4>1. rm' = [rm EXCEPT ![p] = @ \cup {s}] /\ todo' = [todo EXCEPT ![p] = @ \ {s}]
        BY <2>1, <2>4, Zenon
      <4>2. UNCHANGED <<cur, ptx, pc>>
        BY <2>1, <2>4, Zenon
      <4> QED BY <2>2, <4>1, <4>2, Zenon DEF TypeOK
    <3> QED BY <1>3, <3>1, Zenon DEF ScanGetTx, TypeOK, ReplyInv
  <2> QED BY <2>3, <2>4, Zenon
<1>4. CASE ScanSend(p)
  <2>1. /\ ToRemove(p) \subseteq SessionId /\ rm[p] \cup ToRemove(p) \in SUBSET SessionId
        /\ 0 \in SessionId /\ full' \subseteq SessionId
    <3>1. 0 \in SessionId
      BY DEF SessionId
    <3>2. ToRemove(p) \subseteq SessionId
      BY Zenon DEF ToRemove, TypeOK
    <3>3. rm[p] \cup ToRemove(p) \in SUBSET SessionId
      BY <3>2, Zenon DEF TypeOK
    <3>4. full' \subseteq SessionId
      BY <1>4, Zenon DEF ScanSend, FullAfter, TypeOK
    <3> QED BY <3>1, <3>2, <3>3, <3>4, Zenon
  <2>2. Notification(p) \in Message
    BY Zenon DEF Notification, Message, NoNews, TypeOK
  <2>3. SentType'
    <3>1. CASE CanSend(p)
      BY <1>4, <2>2, <3>1, SendType, Zenon DEF ScanSend
    <3>2. CASE ~CanSend(p)
      BY <1>4, <3>2, Zenon DEF ScanSend, SentType, TypeOK
    <3> QED BY <3>1, <3>2, Zenon
  <2> QED BY <1>4, <2>1, <2>3, Zenon DEF ScanSend, SentType, Goto, TypeOK, ReplyInv, Label
<1>5. CASE EndScan(p)
  BY <1>5, Zenon DEF EndScan, Goto, TypeOK, ReplyInv, Label
<1>6. CASE PublisherStop(p)
  BY <1>6, Zenon DEF PublisherStop, Goto, TypeOK, ReplyInv, Label
<1>7. CASE Remove(p)
  BY <1>7, RemoveType, Zenon
<1> QED BY <1>1, <1>2, <1>3, <1>4, <1>5, <1>6, <1>7, Zenon DEF NotifyWork

\* The messages notifyDisconnect adds to a queue fit into it.
LEMMA LeastFits ==
  ASSUME NEW k \in Nat, NEW n \in Nat, NEW d \in Nat, n <= d
  PROVE  Least(k, d - n) \in Nat /\ n + Least(k, d - n) <= d
BY DEF Least

LEMMA MainType ==
  ASSUME TypeInv, MainWork \/ NotifyDisconnect
  PROVE  TypeInv'
<1> USE ThreadFacts, ConstantsAssumption DEF TypeInv, table, thread, clients, history
<1>1. CASE NotifyDisconnect
  <2>1. ASSUME NEW c \in Client
        PROVE  queue'[c] \in Seq(Message) /\ Len(queue'[c]) <= Depth
    <3> DEFINE sessions == Cardinality({s \in Live : sessionMap[s] = c})
               copies == Least(sessions, Depth - Len(queue[c]))
    <3>1. sessions \in Nat
      <4>1. IsFiniteSet(SessionId)
        BY FS_Interval, SMTT(40) DEF SessionId
      <4>2. IsFiniteSet({s \in Live : sessionMap[s] = c})
        BY <4>1, FS_Subset, SMTT(40) DEF Live
      <4> QED BY SMTT(40), <4>2, FS_CardinalityType
    <3>2. queue[c] \in Seq(Message) /\ Len(queue[c]) <= Depth /\ Len(queue[c]) \in Nat
      BY DEF TypeOK
    <3> HIDE DEF sessions
    <3>3. copies \in Nat /\ Len(queue[c]) + copies <= Depth
      BY <3>1, <3>2, LeastFits, Zenon
    <3>4. queue'[c] = queue[c] \o [i \in 1 .. copies |-> Disconnect]
      BY <1>1, Zenon DEF NotifyDisconnect, sessions
    <3> HIDE DEF copies
    <3>5. /\ [i \in 1 .. copies |-> Disconnect] \in Seq(Message)
          /\ Len([i \in 1 .. copies |-> Disconnect]) = copies
      BY SMTT(40), <3>3, DisconnectType
    <3> QED BY SMTT(40), <3>2, <3>3, <3>4, <3>5
  <2>2. queue' \in [Client -> Seq(Message)]
    BY <1>1, <2>1, Zenon DEF NotifyDisconnect
  <2>3. Live \in SUBSET SessionId
    BY Zenon DEF Live
  <2> QED BY <1>1, <2>1, <2>2, <2>3, Zenon DEF NotifyDisconnect, Goto, TypeOK, ReplyInv, Label
<1>2. CASE MainStop
  BY <1>2, Zenon DEF MainStop, Goto, TypeOK, ReplyInv, Label
<1>3. CASE MainRemoveAll
  BY <1>3, Zenon DEF MainRemoveAll, Goto, TypeOK, ReplyInv, Label
<1>4. CASE MainJoin
  BY <1>4, Zenon DEF MainJoin, Goto, TypeOK, ReplyInv, Label
<1>5. CASE MainExit
  BY <1>5, Zenon DEF MainExit, TypeOK, ReplyInv, Label
<1>6. CASE Remove(Main)
  BY <1>6, RemoveType, Zenon
<1> QED BY <1>1, <1>2, <1>3, <1>4, <1>5, <1>6, Zenon DEF MainWork

LEMMA TypeInvNext == TypeInv /\ [Next]_vars => TypeInv'
<1> SUFFICES ASSUME TypeInv, [Next]_vars PROVE TypeInv'
  OBVIOUS
<1>1. CASE UNCHANGED vars
  BY <1>1, Zenon DEF vars, table, thread, clients, history, TypeInv, TypeOK, ReplyInv
<1>2. CASE Next
  BY <1>2, ClientStepType, ListenerType, PublisherType, MainType, Zenon DEF Next
<1> QED BY <1>1, <1>2, Zenon

\* Every reachable state is well typed; in particular no message queue of the
\* proxy or of a client ever holds more than its capacity.
THEOREM TypeCorrect == Spec => []TypeOK
<1>1. Spec => []TypeInv
  BY TypeInvInit, TypeInvNext, PTL DEF Spec
<1> QED BY <1>1, PTL DEF TypeInv

-----------------------------------------------------------------------------
(***************************************************************************)
(* Who owns a session of the proxy: theorems about the session ids that    *)
(* CreateClientSession gives out and removeClient takes back.              *)
(***************************************************************************)

\* Ids are given out in order until all of them were used once, and a session
\* belongs to the client its id was last given to.
IdInv ==
  /\ ~Wrapped => \A s \in SessionId : owner[s] # NoClient <=> s < nextSession
  /\ \A s \in SessionId : sessionMap[s] \in {NoClient, owner[s]}

\* A transmitter a thread holds, unless it was deleted, is that of a session;
\* the listener's is that of the session it is answering.
TxInv ==
  /\ \A t \in Thread : ptx[t] \in SessionId => ptx[t] \in Live
  /\ pc[Lst] = "send" => ptx[Lst] \in {reply.sid, FreedTx}

\* Before ids are reused, a client holds, and is told, only ids of its own.
HeldInv ==
  ~Wrapped =>
    \A c \in Client :
      /\ csid[c] \in SessionId => owner[csid[c]] = c
      /\ \A i \in 1 .. Len(queue[c]) : queue[c][i].type = "CONNECT" =>
           queue[c][i].sid \in SessionId /\ owner[queue[c][i].sid] = c

\* ... and the requests that wait in the proxy's queue carry those ids; who
\* asked to be disconnected is leaving.
InboxInv ==
  /\ ~Wrapped => \A i \in 1 .. Len(inbox) :
       inbox[i].sid \in SessionId => owner[inbox[i].sid] = inbox[i].client
  /\ \A i \in 1 .. Len(inbox) :
       inbox[i].type = "DISCONNECT" => up[inbox[i].client] # "up"

\* Every session id a thread works with was given out.
OwnedInv ==
  /\ \A b \in TimeBase : \A s \in subscribed[b] : owner[s] # NoClient
  /\ \A t \in Thread : \A s \in todo[t] : owner[s] # NoClient
  /\ pc[Lst] \in {"insert", "readptp", "readsys", "gettx", "send"} =>
       owner[reply.sid] # NoClient
  /\ \A p \in Source : pc[p] = "send" =>
       /\ owner[cur[p]] # NoClient
       /\ ~Wrapped => ptx[p] = cur[p] \/ cur[p] \notin Live

\* The client of session s has left, or was too slow to be sent a message.
Excused(s) == owner[s] # NoClient /\ (up[owner[s]] # "up" \/ s \in full)

DropInv ==
  ~Wrapped /\ pc[Main] = "wait" =>
    /\ \A s \in SessionId : owner[s] # NoClient /\ s \notin Live => Excused(s)
    /\ \A t \in Thread : \A s \in rm[t] : Excused(s)

SessionInv == IdInv /\ TxInv /\ HeldInv /\ InboxInv /\ OwnedInv /\ DropInv

\* The types of the variables these invariants are about.
SessionTypes ==
  /\ sessionMap \in [SessionId -> Client \cup {NoClient}]
  /\ owner \in [SessionId -> Client \cup {NoClient}]
  /\ subscribed \in [TimeBase -> SUBSET SessionId]
  /\ pc \in [Thread -> Label]
  /\ cur \in [Thread -> SessionId]
  /\ ptx \in [Thread -> SessionId \cup {NullTx, FreedTx}]
  /\ todo \in [Thread -> SUBSET SessionId]
  /\ rm \in [Thread -> SUBSET SessionId]
  /\ up \in [Client -> {"up", "closing", "gone"}]
  /\ csid \in [Client -> SessionId \cup {InvalidSessionId}]
  /\ full \subseteq SessionId

LEMMA HasSessionTypes == TypeInv => SessionTypes
BY ZenonT(40) DEF TypeInv, TypeOK, SessionTypes

\* A step that leaves ids, queues and clients alone keeps what is said about them.
LEMMA IdsKept ==
  ASSUME SessionInv, UNCHANGED <<sessionMap, nextSession, owner, inbox, queue, up, csid>>
  PROVE  IdInv' /\ HeldInv' /\ InboxInv'
BY DEF SessionInv, IdInv, HeldInv, InboxInv, Wrapped

\* ... and one that leaves the table and the threads alone what is said about them.
LEMMA ThreadsKept ==
  ASSUME SessionInv,
         UNCHANGED <<sessionMap, nextSession, subscribed, pc, cur, ptx, todo, rm, reply, owner>>
  PROVE  IdInv' /\ TxInv' /\ OwnedInv'
<1>1. Live' = Live /\ Wrapped' = Wrapped
  BY Zenon DEF Live, Wrapped
<1> QED BY <1>1, Zenon DEF SessionInv, IdInv, TxInv, OwnedInv

LEMMA HeldKept == ASSUME SessionInv, UNCHANGED <<owner, queue, csid>> PROVE HeldInv'
BY Zenon DEF SessionInv, HeldInv, Wrapped

LEMMA DropKept ==
  ASSUME SessionInv, UNCHANGED <<sessionMap, pc, rm, up, owner, full>>
  PROVE  DropInv'
<1>1. Live' = Live /\ Wrapped' = Wrapped
  BY Zenon DEF Live, Wrapped
<1> QED BY <1>1, Zenon DEF SessionInv, DropInv, Excused

\* The listener moves on, without sending, in the table as it is.
LEMMA ListenerMoves ==
  ASSUME TypeInv, SessionInv, NEW lab \in Label \ {"send"}, pc' = [pc EXCEPT ![Lst] = lab],
         lab \in {"insert", "readptp", "readsys", "gettx"} => owner[reply'.sid] # NoClient,
         UNCHANGED <<sessionMap, owner, subscribed, cur, ptx, todo, rm, up, full>>
  PROVE  TxInv' /\ OwnedInv' /\ DropInv'
<1>1. Live' = Live /\ Wrapped' = Wrapped
  BY Zenon DEF Live, Wrapped
<1>2. pc'[Lst] = lab /\ \A t \in Thread : t # Lst => pc'[t] = pc[t]
  BY HasSessionTypes, ThreadFacts, Zenon DEF SessionTypes
<1>3. TxInv'
  BY <1>1, <1>2, Zenon DEF SessionInv, TxInv
<1>4. OwnedInv'
  BY <1>1, <1>2, ThreadFacts, Zenon DEF SessionInv, OwnedInv
<1>5. DropInv'
  BY <1>1, <1>2, ThreadFacts, Zenon DEF SessionInv, DropInv, Excused
<1> QED BY <1>3, <1>4, <1>5, Zenon

LEMMA SessionInvInit == Init => SessionInv
<1> SUFFICES ASSUME Init PROVE SessionInv
  OBVIOUS
<1> USE ThreadFacts, ConstantsAssumption DEF Init
<1>1. ~(NullTx \in SessionId) /\ ~(InvalidSessionId \in SessionId) /\ 0 \in SessionId
  BY SMTT(40) DEF NullTx, InvalidSessionId, SessionId
<1>2. IdInv
  BY <1>1, SMTT(40) DEF IdInv, Wrapped, SessionId
<1>3. TxInv /\ HeldInv /\ InboxInv /\ OwnedInv /\ DropInv
  BY <1>1 DEF TxInv, HeldInv, InboxInv, OwnedInv, DropInv, Disconnect
<1> QED BY <1>2, <1>3, Zenon DEF SessionInv

\* A request a client posts carries the id the client holds.
LEMMA PostInbox ==
  ASSUME TypeInv, SessionInv, NEW c \in Client, NEW req \in Request, Post(c, req),
         req.client = c, req.sid = csid[c],
         req.type = "DISCONNECT" => up'[c] # "up",
         \A d \in Client : up[d] # "up" => up'[d] # "up",
         UNCHANGED owner
  PROVE  InboxInv'
<1> USE ConstantsAssumption
<1>1. inbox \in Seq(Request)
  BY Zenon DEF TypeInv, TypeOK
<1>2. inbox' = Append(inbox, req)
  BY Zenon DEF Post
<1>3. /\ Len(inbox') = Len(inbox) + 1 /\ inbox'[Len(inbox) + 1] = req
      /\ \A i \in 1 .. Len(inbox) : inbox'[i] = inbox[i] /\ inbox[i] \in Request
      /\ Len(inbox) \in Nat
  BY SMTT(40), <1>1, <1>2
<1>4. ASSUME NEW i \in 1 .. Len(inbox')
      PROVE  /\ ~Wrapped' => (inbox'[i].sid \in SessionId => owner'[inbox'[i].sid] = inbox'[i].client)
             /\ inbox'[i].type = "DISCONNECT" => up'[inbox'[i].client] # "up"
  <2>1. CASE i \in 1 .. Len(inbox)
    BY <1>3, <2>1, SMTT(40) DEF SessionInv, InboxInv, Wrapped, Request
  <2>2. CASE i = Len(inbox) + 1
    BY <1>3, <2>2, ZenonT(40) DEF SessionInv, HeldInv, Wrapped
  <2> QED BY SMTT(40), <1>3, <2>1, <2>2
<1> QED BY <1>4, Zenon DEF InboxInv

LEMMA ClientStepSession ==
  ASSUME TypeInv, SessionInv, NEW c \in Client, ClientStep(c)
  PROVE  SessionInv'
<1> USE ThreadFacts, ConstantsAssumption DEF SessionInv, table, thread, clients, history
<1>0. csid[c] \in SessionId \cup {InvalidSessionId}
  BY HasSessionTypes, Zenon DEF SessionTypes
<1>1. CASE ClientConnect(c)
  <2>1. InboxInv'
    BY <1>0, <1>1, PostInbox, ZenonT(40) DEF ClientConnect, Request, Post
  <2> QED BY <1>1, <2>1, ThreadsKept, HeldKept, DropKept, Zenon DEF ClientConnect
<1>2. ASSUME NEW b \in TimeBase, ClientSubscribe(c, b) PROVE SessionInv'
  <2>1. InboxInv'
    BY <1>0, <1>2, PostInbox, ZenonT(40) DEF ClientSubscribe, Request, Post
  <2> QED BY <1>2, <2>1, ThreadsKept, HeldKept, DropKept, Zenon DEF ClientSubscribe
<1>3. CASE ClientDisconnect(c)
  <2>0. up' = [up EXCEPT ![c] = "closing"]
    BY <1>3, Zenon DEF ClientDisconnect
  <2>1. \A d \in Client : up[d] # "up" => up'[d] # "up"
    BY <2>0, HasSessionTypes, Zenon DEF SessionTypes
  <2>2. InboxInv'
    BY <1>0, <1>3, <2>0, <2>1, PostInbox, HasSessionTypes, Zenon
       DEF ClientDisconnect, Request, SessionTypes
  <2>3. DropInv'
    BY <1>3, <2>1, HasSessionTypes, Zenon
       DEF ClientDisconnect, DropInv, Excused, Wrapped, Live, SessionTypes
  <2> QED BY <1>3, <2>2, <2>3, ThreadsKept, HeldKept, Zenon DEF ClientDisconnect
<1>4. CASE ClientReceive(c)
  <2>1. /\ queue[c] \in Seq(Message) /\ Len(queue[c]) \in Nat \ {0}
        /\ Head(queue[c]) = queue[c][1]
        /\ Len(Tail(queue[c])) = Len(queue[c]) - 1
        /\ \A i \in 1 .. Len(queue[c]) - 1 : Tail(queue[c])[i] = queue[c][i + 1]
    BY <1>4, SMTT(40) DEF ClientReceive, TypeInv, TypeOK
  <2>2. /\ csid'[c] = IF queue[c][1].type = "CONNECT" THEN queue[c][1].sid ELSE csid[c]
        /\ queue'[c] = Tail(queue[c])
        /\ \A d \in Client : d # c => csid'[d] = csid[d] /\ queue'[d] = queue[d]
    BY <1>4, <2>1, ZenonT(40) DEF ClientReceive, TypeInv, TypeOK
  <2>3. HeldInv'
    <3> SUFFICES ASSUME ~Wrapped', NEW d \in Client
                 PROVE  /\ csid'[d] \in SessionId => owner'[csid'[d]] = d
                        /\ \A i \in 1 .. Len(queue'[d]) : queue'[d][i].type = "CONNECT" =>
                             queue'[d][i].sid \in SessionId /\ owner'[queue'[d][i].sid] = d
      BY Zenon DEF HeldInv
    <3>1. ~Wrapped /\ owner' = owner
      BY <1>4, ZenonT(40) DEF ClientReceive, Wrapped
    <3>0. /\ csid[d] \in SessionId => owner[csid[d]] = d
          /\ \A i \in 1 .. Len(queue[d]) : queue[d][i].type = "CONNECT" =>
               queue[d][i].sid \in SessionId /\ owner[queue[d][i].sid] = d
      BY <3>1, Zenon DEF HeldInv
    <3>2. CASE d # c
      <4>1. csid'[d] = csid[d] /\ queue'[d] = queue[d]
        BY <2>2, <3>2, Zenon
      <4> QED BY <3>0, <3>1, <4>1, Zenon
    <3>3. CASE d = c
      <4>0. 1 \in 1 .. Len(queue[c])
        BY <2>1, SMTT(40)
      <4>1. csid'[c] \in SessionId => owner'[csid'[c]] = c
        <5>1. CASE queue[c][1].type = "CONNECT"
          <6>1. csid'[c] = queue[c][1].sid
            BY <2>2, <5>1, Zenon
          <6> QED BY <3>0, <3>1, <3>3, <4>0, <5>1, <6>1, Zenon
        <5>2. CASE queue[c][1].type # "CONNECT"
          <6>1. csid'[c] = csid[c]
            BY <2>2, <5>2, Zenon
          <6> QED BY <3>0, <3>1, <3>3, <6>1, Zenon
        <5> QED BY <5>1, <5>2, Zenon
      <4>2. ASSUME NEW i \in 1 .. Len(queue'[c]), queue'[c][i].type = "CONNECT"
            PROVE  queue'[c][i].sid \in SessionId /\ owner'[queue'[c][i].sid] = c
        <5>1. i + 1 \in 1 .. Len(queue[c]) /\ queue'[c][i] = queue[c][i + 1]
          BY SMTT(40), <2>1, <2>2
        <5> QED BY <3>0, <3>1, <3>3, <4>2, <5>1, Zenon
      <4> QED BY <3>3, <4>1, <4>2, ZenonT(40)
    <3> QED BY <3>2, <3>3, Zenon
  <2> QED BY <1>4, <2>3, ZenonT(40)
          DEF ClientReceive, IdInv, TxInv, InboxInv, OwnedInv, DropInv, Excused, Wrapped, Live
<1>5. CASE ClientGone(c)
  <2>1. \A d \in Client : up[d] # "up" => up'[d] # "up"
    BY <1>5, HasSessionTypes, Zenon DEF ClientGone, SessionTypes
  <2>2. InboxInv'
    <3>1. \A i \in 1 .. Len(inbox) : inbox[i].client \in Client
      <4>1. \A i \in 1 .. Len(inbox) : inbox[i] \in Request
        BY DEF TypeInv, TypeOK
      <4> QED BY <4>1, Zenon DEF Request
    <3> QED BY <1>5, <2>1, <3>1, Zenon DEF ClientGone, InboxInv, Wrapped
  <2>3. DropInv'
    BY <1>5, <2>1, HasSessionTypes, ZenonT(40) DEF ClientGone, DropInv, Excused, Wrapped, Live, SessionTypes
  <2> QED BY <1>5, <2>2, <2>3, ThreadsKept, HeldKept, Zenon DEF ClientGone
<1> QED BY <1>1, <1>2, <1>3, <1>4, <1>5, Zenon DEF ClientStep

\* Erasing a session keeps everything known about the others.
LEMMA RemoveSession ==
  ASSUME TypeInv, SessionInv, NEW t \in Thread, Remove(t)
  PROVE  SessionInv'
<1> USE ThreadFacts, ConstantsAssumption DEF SessionInv, table, thread, clients, history
<1>1. CASE RemoveFromMap(t)
  <2>1. PICK s \in rm[t] : RemoveFromMap(t)!3!(s)
    BY <1>1, Zenon DEF RemoveFromMap
  <2>2. s \in SessionId /\ Live' = Live \ {s}
    BY <2>1, HasSessionTypes, Zenon DEF Live, SessionTypes
  <2>3. /\ UNCHANGED <<nextSession, subscribed, todo, rm, reply, inbox, queue, up, csid, owner, full>>
        /\ pc' = [pc EXCEPT ![t] = "rmbase"] /\ pc[t] = "rm"
    BY <1>1, Zenon DEF RemoveFromMap, Goto
  <2>4. IdInv'
    BY <2>1, <2>2, <2>3, HasSessionTypes, Zenon DEF IdInv, Wrapped, SessionTypes
  <2>5. TxInv'
    <3>1. FreedTx \notin SessionId
      BY DEF FreedTx, SessionId
    <3>2. \A u \in Thread : ptx'[u] = IF ptx[u] = s THEN FreedTx ELSE ptx[u]
      BY <2>1, Zenon
    <3>3. pc'[Lst] = "send" => pc[Lst] = "send"
      BY <2>3, HasSessionTypes, ZenonT(40) DEF SessionTypes
    <3> QED BY <2>2, <2>3, <3>1, <3>2, <3>3, Zenon DEF TxInv
  <2>6. HeldInv' /\ InboxInv'
    BY <2>3, SMTT(40) DEF HeldInv, InboxInv, Wrapped
  <2>7. OwnedInv'
    <3>1. \A u \in Thread : pc'[u] \in {"insert", "readptp", "readsys", "gettx", "send"} => pc'[u] = pc[u]
      BY <2>3, HasSessionTypes, Zenon DEF SessionTypes
    <3>2. \A p \in Source : ptx'[p] = ptx[p] \/ ptx[p] = s
      BY <2>1, Zenon
    <3>3. \A p \in Source : pc'[p] = "send" => cur'[p] = cur[p] /\ pc[p] = "send"
      BY <2>1, <2>3, HasSessionTypes, Zenon DEF SessionTypes
    <3> QED BY <2>2, <2>3, <3>1, <3>2, <3>3, ZenonT(40) DEF OwnedInv, Wrapped
  <2>8. DropInv'
    BY <2>1, <2>2, <2>3, HasSessionTypes, ZenonT(40) DEF DropInv, Excused, Wrapped, SessionTypes
  <2> QED BY <2>4, <2>5, <2>6, <2>7, <2>8, Zenon
<1>2. CASE RemoveFromBase(t)
  <2>1. PICK b \in left[t] : RemoveFromBase(t)!2!(b)
    BY <1>2, Zenon DEF RemoveFromBase
  <2>2. /\ UNCHANGED <<sessionMap, nextSession, ptx, todo, reply, inbox, queue, up, csid, owner, full>>
        /\ Live' = Live /\ Wrapped' = Wrapped
    BY <1>2, Zenon DEF RemoveFromBase, Live, Wrapped
  <2>3. \A u \in Thread : u # t => pc'[u] = pc[u] /\ rm'[u] = rm[u] /\ cur'[u] = cur[u]
    BY <2>1, HasSessionTypes, ZenonT(40) DEF Goto, SessionTypes
  <2>4. /\ rm'[t] \subseteq rm[t]
        /\ pc'[t] \in {"rmbase", "loop", "stop", "idle", "rm"} /\ pc[t] = "rmbase"
    <3>1. pc[t] = "rmbase" /\ AfterRemove(t) \in {"loop", "stop", "idle"}
      BY <1>2, Zenon DEF RemoveFromBase, AfterRemove
    <3>2. CASE left[t] = {b}
      <4>1. rm'[t] = rm[t] \ {cur[t]}
        BY <2>1, <3>2, HasSessionTypes, Zenon DEF SessionTypes
      <4>2. pc'[t] = IF rm[t] \subseteq {cur[t]} THEN AfterRemove(t) ELSE "rm"
        BY <2>1, <3>2, HasSessionTypes, Zenon DEF Goto, SessionTypes
      <4> QED BY <3>1, <4>1, <4>2, Zenon
    <3>3. CASE left[t] # {b}
      BY <2>1, <3>1, <3>3, Zenon
    <3> QED BY <3>2, <3>3, Zenon
  <2>5. \A a \in TimeBase : subscribed'[a] \subseteq subscribed[a]
    BY <2>1, HasSessionTypes, ZenonT(40) DEF SessionTypes
  <2>6. IdInv' /\ TxInv' /\ HeldInv' /\ InboxInv'
    <3>1. TxInv'
      BY <2>2, <2>3, <2>4, Zenon DEF TxInv
    <3> QED BY <2>2, <3>1, IdsKept, Zenon
  <2>7. OwnedInv'
    BY <2>2, <2>3, <2>4, <2>5, ZenonT(40) DEF OwnedInv
  <2>8. DropInv'
    BY <2>2, <2>3, <2>4, ZenonT(40) DEF DropInv, Excused
  <2> QED BY <2>6, <2>7, <2>8, Zenon
<1> QED BY <1>1, <1>2, Zenon DEF Remove

\* What is left in the proxy's queue when the listener takes a request.
LEMMA InboxTail ==
  ASSUME TypeInv, NEW type, Receive(type)
  PROVE  /\ 1 \in 1 .. Len(inbox) /\ Head(inbox) = inbox[1] /\ inbox[1] \in Request
         /\ \A i \in 1 .. Len(inbox') : /\ i + 1 \in 1 .. Len(inbox)
                                        /\ inbox'[i] = inbox[i + 1] /\ inbox[i + 1] \in Request
<1>1. inbox \in Seq(Request) /\ inbox # <<>> /\ inbox' = Tail(inbox)
  BY Zenon DEF TypeInv, TypeOK, Receive
<1>2. Len(inbox) \in Nat \ {0} /\ Len(inbox') = Len(inbox) - 1
  BY SMTT(40), <1>1
<1> QED BY SMTT(40), <1>1, <1>2

\* CreateClientSession: before the wrap the new id was never given out.
LEMMA NewSessionId ==
  ASSUME TypeInv, SessionInv, NEW s \in SessionId, NewId(s), ~Wrapped
  PROVE  s = nextSession /\ owner[s] = NoClient
<1>1. nextSession \in SessionId /\ owner[nextSession] = NoClient
  BY ConstantsAssumption, SMTT(40) DEF TypeInv, TypeOK, SessionInv, IdInv, SessionId
<1>2. nextSession \in SessionId \ Live
  BY <1>1, Zenon DEF SessionInv, IdInv, Live
<1>3. Around(nextSession, s) <= Around(nextSession, nextSession)
  BY <1>2, Zenon DEF NewId
<1>4. s = nextSession
  BY <1>2, <1>3, ConstantsAssumption, SMTT(40) DEF Around, SessionId
<1> QED BY <1>1, <1>4, ZenonT(40)

LEMMA NewSessionSession ==
  ASSUME TypeInv, SessionInv, ListenerConnect, NEW s \in SessionId,
         NewSession(Head(inbox), s), Head(inbox).client \in linked
  PROVE  SessionInv'
<1> DEFINE c == Head(inbox).client
<1> USE ThreadFacts, ConstantsAssumption DEF SessionInv
<1>1. /\ sessionMap' = [sessionMap EXCEPT ![s] = c] /\ owner' = [owner EXCEPT ![s] = c]
      /\ nextSession' = NextId(s) /\ full' = full \ {s}
      /\ reply' = [type |-> "CONNECT", sid |-> s, tb |-> 0, news |-> NoNews]
      /\ pc' = [pc EXCEPT ![Lst] = "gettx"] /\ pc[Lst] = "recv"
      /\ s \notin Live
      /\ UNCHANGED <<subscribed, cur, todo, rm, queue, up, csid>>
  BY Zenon DEF NewSession, NewId, Goto, ListenerConnect, Receive, clients
<1>2. c \in Client /\ c # NoClient
  BY ZenonT(40) DEF TypeInv, TypeOK
<1>3. Live' = Live \cup {s}
  <2>1. \A r \in SessionId : sessionMap'[r] = IF r = s THEN c ELSE sessionMap[r]
    BY <1>1, HasSessionTypes, Zenon DEF SessionTypes
  <2> QED BY <1>2, <2>1, Zenon DEF Live
<1>4. ~Wrapped' => ~Wrapped /\ s = nextSession /\ owner[s] = NoClient
  <2>1. ~Wrapped' => ~Wrapped
    BY <1>1, <1>2, HasSessionTypes, Zenon DEF Wrapped, SessionTypes
  <2> QED BY <2>1, NewSessionId, Zenon DEF NewSession
<1>5. \A r \in SessionId : owner[r] # NoClient => owner'[r] # NoClient
  BY <1>1, <1>2, HasSessionTypes, Zenon DEF SessionTypes
<1>6. ~Wrapped' => \A r \in SessionId : owner[r] # NoClient => owner'[r] = owner[r] /\ r # s
  BY <1>1, <1>4, HasSessionTypes, Zenon DEF SessionTypes
<1> HIDE DEF c
<1>7. IdInv'
  <2>1. ASSUME ~Wrapped', NEW r \in SessionId
        PROVE  owner'[r] # NoClient <=> r < nextSession'
    <3>1. owner[r] # NoClient <=> r < s
      BY <1>4, <2>1, ZenonT(40) DEF IdInv
    <3>2. owner'[r] # NoClient <=> r <= s
      BY <1>1, <1>2, <3>1, HasSessionTypes, SMTT(40) DEF SessionTypes, SessionId
    <3>3. s # MaxSession
      <4>1. CASE s = MaxSession
        <5>1. \A q \in SessionId : owner'[q] # NoClient
          <6>1. \A q \in SessionId : q < s => owner[q] # NoClient
            BY <1>4, <2>1, Zenon DEF IdInv
          <6>2. \A q \in SessionId : q < s \/ q = s
            BY <4>1, SMTT(40) DEF SessionId
          <6>3. owner'[s] # NoClient
            BY <1>1, <1>2, HasSessionTypes, Zenon DEF SessionTypes
          <6> QED BY <1>5, <6>1, <6>2, <6>3, Zenon
        <5> QED BY <2>1, <5>1, ZenonT(40) DEF Wrapped
      <4> QED BY <4>1, Zenon
    <3> QED BY <1>1, <3>2, <3>3, SMTT(40) DEF NextId, SessionId
  <2> QED BY <1>1, <2>1, HasSessionTypes, ZenonT(40) DEF IdInv, SessionTypes
<1>8. TxInv'
  <2>1. PICK R \in SUBSET {p \in Source : ptx[p] = FreedTx} :
          ptx' = [t \in Thread |-> IF t \in R THEN s ELSE ptx[t]]
    BY ZenonT(40) DEF NewSession
  <2> QED BY <1>1, <1>3, <2>1, HasSessionTypes, Zenon DEF TxInv, SessionTypes
<1>9. HeldInv'
  <2> SUFFICES ASSUME ~Wrapped', NEW d \in Client
               PROVE  /\ csid'[d] \in SessionId => owner'[csid'[d]] = d
                      /\ \A i \in 1 .. Len(queue'[d]) : queue'[d][i].type = "CONNECT" =>
                           queue'[d][i].sid \in SessionId /\ owner'[queue'[d][i].sid] = d
    BY Zenon DEF HeldInv
  <2>1. \A r \in SessionId : owner[r] = d => owner'[r] = d
    BY <1>6, ConstantsAssumption, Zenon
  <2>2. csid' = csid /\ queue' = queue
    BY <1>1, Zenon
  <2>3. /\ csid[d] \in SessionId => owner[csid[d]] = d
        /\ \A i \in 1 .. Len(queue[d]) : queue[d][i].type = "CONNECT" =>
             queue[d][i].sid \in SessionId /\ owner[queue[d][i].sid] = d
    BY <1>4, Zenon DEF HeldInv
  <2> QED BY <2>1, <2>2, <2>3, Zenon
<1>10. InboxInv'
  <2>1. \A i \in 1 .. Len(inbox') : /\ i + 1 \in 1 .. Len(inbox)
                                   /\ inbox'[i] = inbox[i + 1] /\ inbox[i + 1] \in Request
    BY InboxTail, ZenonT(40) DEF ListenerConnect
  <2>2. ASSUME NEW i \in 1 .. Len(inbox')
        PROVE  /\ ~Wrapped' => (inbox'[i].sid \in SessionId => owner'[inbox'[i].sid] = inbox'[i].client)
               /\ inbox'[i].type = "DISCONNECT" => up'[inbox'[i].client] # "up"
    <3>1. i + 1 \in 1 .. Len(inbox) /\ inbox'[i] = inbox[i + 1]
      BY <2>1, Zenon
    <3>2. inbox[i + 1].client \in Client
      BY <2>1, Zenon DEF Request
    <3>3. /\ ~Wrapped => (inbox[i + 1].sid \in SessionId => owner[inbox[i + 1].sid] = inbox[i + 1].client)
          /\ inbox[i + 1].type = "DISCONNECT" => up[inbox[i + 1].client] # "up"
      BY <3>1, Zenon DEF InboxInv
    <3> QED BY <1>1, <1>4, <1>6, <3>1, <3>2, <3>3, Zenon
  <2> QED BY <2>2, Zenon DEF InboxInv
<1>11. OwnedInv'
  <2>1. \A p \in Source : pc'[p] = pc[p] /\ (ptx'[p] = ptx[p] \/ ptx[p] = FreedTx)
    <3>1. PICK R \in SUBSET {p \in Source : ptx[p] = FreedTx} :
            ptx' = [t \in Thread |-> IF t \in R THEN s ELSE ptx[t]]
      BY Zenon DEF NewSession
    <3> QED BY <1>1, <3>1, HasSessionTypes, Zenon DEF SessionTypes
  <2>2. FreedTx \notin SessionId
    BY DEF FreedTx, SessionId
  <2>3. owner'[s] # NoClient /\ reply'.sid = s
    BY <1>1, <1>2, HasSessionTypes, Zenon DEF SessionTypes
  <2>4. ASSUME NEW p \in Source, pc'[p] = "send"
        PROVE  /\ owner'[cur'[p]] # NoClient
               /\ ~Wrapped' => ptx'[p] = cur'[p] \/ cur'[p] \notin Live'
    <3>1. cur[p] \in SessionId /\ owner[cur[p]] # NoClient /\ cur'[p] = cur[p]
      BY <1>1, <2>1, <2>4, HasSessionTypes, Zenon DEF OwnedInv, SessionTypes
    <3>2. ASSUME ~Wrapped' PROVE ptx'[p] = cur[p] \/ cur[p] \notin Live'
      <4>1. ptx[p] = cur[p] \/ cur[p] \notin Live
        BY <1>4, <2>1, <2>4, <3>2, Zenon DEF OwnedInv
      <4>2. cur[p] # s
        BY <1>4, <3>1, <3>2, Zenon
      <4> QED BY <1>3, <2>1, <2>2, <3>1, <4>1, <4>2, Zenon
    <3> QED BY <1>5, <3>1, <3>2, Zenon
  <2>5. /\ \A b \in TimeBase : \A r \in subscribed'[b] : owner'[r] # NoClient
        /\ \A t \in Thread : \A r \in todo'[t] : owner'[r] # NoClient
    BY <1>1, <1>5, HasSessionTypes, Zenon DEF OwnedInv, SessionTypes
  <2> QED BY <2>3, <2>4, <2>5, ZenonT(40) DEF OwnedInv
<1>12. DropInv'
  <2> SUFFICES ASSUME ~Wrapped', pc'[Main] = "wait"
               PROVE  /\ \A r \in SessionId : owner'[r] # NoClient /\ r \notin Live' => Excused(r)'
                      /\ \A t \in Thread : \A r \in rm'[t] : Excused(r)'
    BY Zenon DEF DropInv
  <2>1. pc[Main] = "wait" /\ ~Wrapped
    BY <1>1, <1>4, HasSessionTypes, Zenon DEF SessionTypes
  <2>2. \A r \in SessionId : Excused(r) => Excused(r)'
    BY <1>1, <1>6, Zenon DEF Excused
  <2>3. \A r \in SessionId : owner'[r] # NoClient /\ r # s => owner[r] # NoClient
    BY <1>1, HasSessionTypes, Zenon DEF SessionTypes
  <2> QED BY <1>1, <1>3, <2>1, <2>2, <2>3, HasSessionTypes, Zenon DEF DropInv, SessionTypes
<1> QED BY <1>7, <1>8, <1>9, <1>10, <1>11, <1>12, ZenonT(40)

\* A message sent over a session adds no id to its client's queue but, when it
\* is a CONNECT reply, the one the session's client owns.
LEMMA SendHeld ==
  ASSUME TypeInv, HeldInv, NEW t \in Thread, NEW msg \in Message, CanSend(t), Send(t, msg),
         msg.type = "CONNECT" =>
           msg.sid \in SessionId /\ owner[msg.sid] = sessionMap[ptx[t]],
         UNCHANGED <<owner, csid>>
  PROVE  HeldInv'
<1> SUFFICES ASSUME ~Wrapped', NEW c \in Client
             PROVE  /\ csid'[c] \in SessionId => owner'[csid'[c]] = c
                    /\ \A i \in 1 .. Len(queue'[c]) : queue'[c][i].type = "CONNECT" =>
                         queue'[c][i].sid \in SessionId /\ owner'[queue'[c][i].sid] = c
  BY Zenon DEF HeldInv
<1>1. ~Wrapped /\ owner' = owner
  BY Zenon DEF Wrapped
<1>2. queue[c] \in Seq(Message) /\ Len(queue[c]) \in Nat
  BY SMTT(40) DEF TypeInv, TypeOK
<1>3. CASE c = sessionMap[ptx[t]]
  <2>1. queue'[c] = Append(queue[c], msg)
    BY <1>3, Zenon DEF Send, TypeInv, TypeOK
  <2>2. /\ Len(queue'[c]) = Len(queue[c]) + 1 /\ queue'[c][Len(queue[c]) + 1] = msg
        /\ \A i \in 1 .. Len(queue[c]) : queue'[c][i] = queue[c][i]
    BY SMTT(40), <1>2, <2>1
  <2>3. ASSUME NEW i \in 1 .. Len(queue'[c]), queue'[c][i].type = "CONNECT"
        PROVE  queue'[c][i].sid \in SessionId /\ owner'[queue'[c][i].sid] = c
    <3>1. CASE i \in 1 .. Len(queue[c])
      BY <1>1, <2>2, <2>3, <3>1, SMTT(40) DEF HeldInv
    <3>2. CASE i = Len(queue[c]) + 1
      BY <1>1, <1>3, <2>2, <2>3, <3>2, Zenon
    <3> QED BY SMTT(40), <1>2, <2>2, <3>1, <3>2
  <2> QED BY <1>1, <2>3, Zenon DEF HeldInv
<1>4. CASE c # sessionMap[ptx[t]]
  <2>1. queue'[c] = queue[c]
    BY <1>4, Zenon DEF Send, TypeInv, TypeOK
  <2> QED BY <1>1, <2>1, SMTT(40) DEF HeldInv
<1> QED BY <1>3, <1>4, Zenon

LEMMA ListenerSession ==
  ASSUME TypeInv, SessionInv, ListenerWork \/ ListenerInterrupted
  PROVE  SessionInv'
<1> USE ThreadFacts, ConstantsAssumption DEF SessionInv, table, thread, clients, history
<1>0. ASSUME NEW type, Receive(type), UNCHANGED <<owner, up>> PROVE InboxInv'
  <2>1. ASSUME NEW i \in 1 .. Len(inbox')
        PROVE  i + 1 \in 1 .. Len(inbox) /\ inbox'[i] = inbox[i + 1]
    BY <1>0, InboxTail, Zenon
  <2>2. Wrapped' = Wrapped
    BY <1>0, Zenon DEF Wrapped
  <2>3. owner' = owner /\ up' = up
    BY <1>0, Zenon
  <2>4. ASSUME NEW i \in 1 .. Len(inbox')
        PROVE  /\ ~Wrapped' => (inbox'[i].sid \in SessionId => owner'[inbox'[i].sid] = inbox'[i].client)
               /\ inbox'[i].type = "DISCONNECT" => up'[inbox'[i].client] # "up"
    <3>1. i + 1 \in 1 .. Len(inbox) /\ inbox'[i] = inbox[i + 1]
      BY <2>1, Zenon
    <3> QED BY <2>2, <2>3, <3>1, Zenon DEF InboxInv
  <2> QED BY <2>4, Zenon DEF InboxInv
<1>1. CASE ListenerLoop \/ ListenerInterrupted
  <2>1. IdInv' /\ HeldInv' /\ InboxInv'
    BY <1>1, IdsKept, Zenon DEF ListenerLoop, ListenerInterrupted
  <2>2. PICK lab \in {"done", "recv", "loop"} : pc' = [pc EXCEPT ![Lst] = lab]
    BY <1>1, Zenon DEF ListenerLoop, ListenerInterrupted, Goto
  <2>3. lab \in Label \ {"send"} /\ lab \notin {"insert", "readptp", "readsys", "gettx"}
    BY <2>2, Zenon DEF Label
  <2>4. TxInv' /\ OwnedInv' /\ DropInv'
    BY <1>1, <2>2, <2>3, ListenerMoves, Zenon DEF ListenerLoop, ListenerInterrupted
  <2> QED BY <2>1, <2>4, Zenon
<1>3. CASE ListenerReconnect
  <2>1. InboxInv'
    BY <1>0, <1>3, Zenon DEF ListenerReconnect
  <2>2. IdInv' /\ HeldInv'
    BY <1>3, ZenonT(40) DEF ListenerReconnect, IdInv, HeldInv, Wrapped
  <2>3. PICK lab \in {"gettx", "dead"} :
          /\ pc' = [pc EXCEPT ![Lst] = lab]
          /\ lab = "gettx" => reply'.sid \in Live
    <3>1. CASE Head(inbox).sid \in Live
      <4>1. pc' = [pc EXCEPT ![Lst] = "gettx"] /\ reply'.sid = Head(inbox).sid
        <5>1. /\ pc' = [pc EXCEPT ![Lst] = "gettx"]
              /\ reply' = [type |-> "CONNECT", sid |-> Head(inbox).sid, tb |-> 0, news |-> NoNews]
          BY <1>3, <3>1, Zenon DEF ListenerReconnect, Goto
        <5> QED BY <5>1, Zenon
      <4> QED BY <3>1, <4>1, Zenon
    <3>2. CASE ~(Head(inbox).sid \in Live)
      BY <1>3, <3>2, Zenon DEF ListenerReconnect, ListenerFails, Goto
    <3> QED BY <3>1, <3>2, Zenon
  <2>4. /\ lab \in Label \ {"send"}
        /\ lab \in {"insert", "readptp", "readsys", "gettx"} => owner[reply'.sid] # NoClient
    BY <2>3, Zenon DEF Label, IdInv, Live
  <2>5. TxInv' /\ OwnedInv' /\ DropInv'
    BY <1>3, <2>3, <2>4, ListenerMoves, Zenon DEF ListenerReconnect
  <2> QED BY <2>1, <2>2, <2>5, Zenon
<1>4. CASE ListenerConnect
  <2>1. CASE Live = SessionId /\ Goto(Lst, "spin") /\ UNCHANGED <<table, ptx, reply, history>>
    <3>1. InboxInv'
      BY <1>0, <1>4, <2>1, Zenon DEF ListenerConnect
    <3>2. IdInv' /\ HeldInv'
      BY <1>4, <2>1, HeldKept, Zenon DEF ListenerConnect, IdInv, Wrapped
    <3>3. "spin" \in Label \ {"send"}
      BY Zenon DEF Label
    <3>4. TxInv' /\ OwnedInv' /\ DropInv'
      BY <1>4, <2>1, <3>3, ListenerMoves, Zenon DEF ListenerConnect, Goto
    <3> QED BY <3>1, <3>2, <3>4, Zenon
  <2>2. ASSUME NEW s \in SessionId, NewSession(Head(inbox), s) PROVE SessionInv'
    <3>1. CASE Head(inbox).client \in linked
      BY <1>4, <2>2, <3>1, NewSessionSession, ZenonT(40)
    <3>2. CASE Head(inbox).client \notin linked
      <4>1. /\ nextSession' = s /\ pc' = [pc EXCEPT ![Lst] = "dead"] /\ NewId(s)
            /\ UNCHANGED <<sessionMap, ptx, reply, history, subscribed, cur, todo, rm, queue, up, csid>>
        BY <1>4, <2>2, <3>2, Zenon DEF ListenerConnect, NewSession, ListenerFails, Goto
      <4>2. InboxInv'
        BY <1>0, <1>4, <4>1, Zenon DEF ListenerConnect
      <4>3. IdInv'
        BY <4>1, NewSessionId, Zenon DEF IdInv, Wrapped
      <4>4. "dead" \in Label \ {"send"}
        BY Zenon DEF Label
      <4>5. TxInv' /\ OwnedInv' /\ DropInv'
        BY <4>1, <4>4, ListenerMoves, Zenon
      <4> QED BY <4>1, <4>2, <4>3, <4>5, HeldKept, Zenon
    <3> QED BY <3>1, <3>2, Zenon
  <2> QED BY <1>4, <2>1, <2>2, Zenon DEF ListenerConnect
<1>5. CASE ListenerSubscribe
  <2>1. InboxInv'
    BY <1>0, <1>5, Zenon DEF ListenerSubscribe
  <2>2. IdInv' /\ HeldInv'
    BY <1>5, Zenon DEF ListenerSubscribe, IdInv, HeldInv, Wrapped
  <2>3. PICK lab \in {"insert", "dead"} :
          /\ pc' = [pc EXCEPT ![Lst] = lab]
          /\ lab = "insert" => reply'.sid \in Live
    <3>1. CASE Head(inbox).sid \in Live /\ Head(inbox).tb \in TimeBase
      <4>1. pc' = [pc EXCEPT ![Lst] = "insert"] /\ reply'.sid = Head(inbox).sid
        <5>1. /\ pc' = [pc EXCEPT ![Lst] = "insert"]
              /\ reply' = [type |-> "SUBSCRIBE", sid |-> Head(inbox).sid, tb |-> Head(inbox).tb, news |-> NoNews]
          BY <1>5, <3>1, Zenon DEF ListenerSubscribe, Goto
        <5> QED BY <5>1, Zenon
      <4> QED BY <3>1, <4>1, Zenon
    <3>2. CASE ~(Head(inbox).sid \in Live /\ Head(inbox).tb \in TimeBase)
      BY <1>5, <3>2, Zenon DEF ListenerSubscribe, ListenerFails, Goto
    <3> QED BY <3>1, <3>2, Zenon
  <2>4. /\ lab \in Label \ {"send"}
        /\ lab \in {"insert", "readptp", "readsys", "gettx"} => owner[reply'.sid] # NoClient
    BY <2>3, Zenon DEF Label, IdInv, Live
  <2>5. TxInv' /\ OwnedInv' /\ DropInv'
    BY <1>5, <2>3, <2>4, ListenerMoves, Zenon DEF ListenerSubscribe
  <2> QED BY <2>1, <2>2, <2>5, Zenon
<1>6. CASE ListenerDisconnect
  <2>1. InboxInv'
    BY <1>0, <1>6, Zenon DEF ListenerDisconnect
  <2>2. IdInv' /\ HeldInv'
    BY <1>6, Zenon DEF ListenerDisconnect, IdInv, HeldInv, Wrapped
  <2>3. TxInv'
    BY <1>6, HasSessionTypes, Zenon
       DEF ListenerDisconnect, ListenerFails, Goto, TxInv, Live, SessionTypes
  <2>4. OwnedInv'
    BY <1>6, HasSessionTypes, Zenon
       DEF ListenerDisconnect, ListenerFails, Goto, IdInv, OwnedInv, Wrapped, Live, SessionTypes
  <2>5. DropInv'
    <3> SUFFICES ASSUME ~Wrapped', pc'[Main] = "wait"
                 PROVE  /\ \A s \in SessionId : owner'[s] # NoClient /\ s \notin Live' => Excused(s)'
                        /\ \A t \in Thread : \A s \in rm'[t] : Excused(s)'
      BY Zenon DEF DropInv
    <3>1. /\ UNCHANGED <<owner, up, full, sessionMap>>
          /\ rm' = [rm EXCEPT ![Lst] = {Head(inbox).sid} \cap SessionId]
          /\ pc[Main] = "wait" /\ ~Wrapped
      BY <1>6, HasSessionTypes, Zenon DEF ListenerDisconnect, Goto, Wrapped, SessionTypes
    <3>2. /\ Head(inbox) = inbox[1] /\ 1 \in 1 .. Len(inbox) /\ inbox[1] \in Request
          /\ inbox[1].type = "DISCONNECT"
      BY <1>6, InboxTail, Zenon DEF ListenerDisconnect, Receive
    <3>3. Head(inbox).sid \in SessionId => Excused(Head(inbox).sid)
      <4>1. inbox[1].client \in Client
        BY <3>2, Zenon DEF Request
      <4> QED BY <3>1, <3>2, <4>1, Zenon DEF InboxInv, Excused
    <3> QED BY <3>1, <3>3, HasSessionTypes, ZenonT(40) DEF DropInv, Excused, Live, SessionTypes
  <2> QED BY <2>1, <2>2, <2>3, <2>4, <2>5
<1>7. CASE ListenerInsert
  <2>1. IdInv' /\ HeldInv' /\ InboxInv'
    BY <1>7, IdsKept, Zenon DEF ListenerInsert
  <2>2. TxInv' /\ DropInv'
    BY <1>7, HasSessionTypes, Zenon
       DEF ListenerInsert, Goto, TxInv, DropInv, Excused, Wrapped, Live, SessionTypes
  <2>3. OwnedInv'
    BY <1>7, HasSessionTypes, Zenon DEF ListenerInsert, Goto, OwnedInv, Wrapped, Live, SessionTypes
  <2> QED BY <2>1, <2>2, <2>3, Zenon
<1>8. ASSUME NEW k \in ClockType, NEW from \in {"readptp", "readsys"},
             NEW to \in {"readsys", "gettx"}, ListenerRead(k, from, to)
      PROVE  SessionInv'
  <2>1. reply'.sid = reply.sid
    BY <1>8, Zenon DEF ListenerRead, TypeInv, TypeOK, Message
  <2>2. IdInv' /\ HeldInv' /\ InboxInv'
    BY <1>8, IdsKept, Zenon DEF ListenerRead
  <2>3. TxInv' /\ DropInv'
    BY <1>8, <2>1, HasSessionTypes, Zenon
       DEF ListenerRead, Goto, TxInv, DropInv, Excused, Wrapped, Live, SessionTypes
  <2>4. OwnedInv'
    BY <1>8, <2>1, HasSessionTypes, Zenon DEF ListenerRead, Goto, OwnedInv, Wrapped, Live, SessionTypes
  <2> QED BY <2>2, <2>3, <2>4, Zenon
<1>9. CASE ListenerGetTx
  <2>1. IdInv' /\ HeldInv' /\ InboxInv'
    BY <1>9, IdsKept, Zenon DEF ListenerGetTx
  <2>2. TxInv'
    BY <1>9, HasSessionTypes, ZenonT(40) DEF ListenerGetTx, ListenerFails, Goto, TxInv, Live, SessionTypes
  <2>3. OwnedInv' /\ DropInv'
    BY <1>9, HasSessionTypes, ZenonT(40)
       DEF ListenerGetTx, ListenerFails, Goto, OwnedInv, DropInv, Excused, Wrapped, Live, SessionTypes
  <2> QED BY <2>1, <2>2, <2>3, Zenon
<1>10. CASE ListenerSend
  <2>1. /\ UNCHANGED <<sessionMap, nextSession, subscribed, cur, todo, rm, inbox, up, csid, owner>>
        /\ ptx' = [ptx EXCEPT ![Lst] = NullTx] /\ full \subseteq full' /\ pc[Lst] = "send"
        /\ Live' = Live /\ Wrapped' = Wrapped
    BY <1>10, Zenon DEF ListenerSend, FullAfter, Live, Wrapped
  <2>2. PICK lab \in {"loop", "dead"} : pc' = [pc EXCEPT ![Lst] = lab]
    BY <1>10, Zenon DEF ListenerSend, ListenerFails, Goto
  <2>3. NullTx \notin SessionId /\ FreedTx \notin SessionId
    BY SMTT(40) DEF NullTx, FreedTx, SessionId
  <2>4. HeldInv'
    <3>1. CASE CanSend(Lst)
      <4>1. ptx[Lst] = reply.sid /\ ptx[Lst] \in Live
        BY <2>1, <2>3, <3>1, Zenon DEF TxInv, CanSend
      <4>2. sessionMap[ptx[Lst]] = owner[reply.sid]
        BY <4>1, Zenon DEF IdInv, Live
      <4>3. reply \in Message /\ reply.sid \in SessionId /\ Send(Lst, reply)
        BY <1>10, <3>1, <4>1, Zenon DEF ListenerSend, Live, TypeInv, TypeOK
      <4> QED BY <2>1, <3>1, <4>1, <4>2, <4>3, SendHeld, Zenon
    <3>2. CASE ~CanSend(Lst)
      <4>1. queue' = queue
        BY <1>10, <3>2, Zenon DEF ListenerSend
      <4> QED BY <2>1, <4>1, IdsKept, Zenon
    <3> QED BY <3>1, <3>2, Zenon
  <2>5. IdInv' /\ InboxInv'
    BY <2>1, Zenon DEF IdInv, InboxInv
  <2>6. TxInv' /\ DropInv'
    BY <2>1, <2>2, <2>3, HasSessionTypes, Zenon DEF TxInv, DropInv, Excused, SessionTypes
  <2>7. OwnedInv'
    BY <2>1, <2>2, HasSessionTypes, Zenon DEF OwnedInv, SessionTypes
  <2> QED BY <2>4, <2>5, <2>6, <2>7, Zenon
<1>11. CASE Remove(Lst)
  BY <1>11, RemoveSession, Zenon
<1> QED BY <1>1, <1>3, <1>4, <1>5, <1>6, <1>7, <1>8, <1>9, <1>10, <1>11, ZenonT(40)
        DEF ListenerWork, ClockType

LEMMA PublisherSession ==
  ASSUME TypeInv, SessionInv, NEW p \in Source, NotifyWork(p) \/ Publish(p) \/ PublisherStop(p)
  PROVE  SessionInv'
<1> USE ThreadFacts, ConstantsAssumption DEF SessionInv, table, thread, clients, history
<1>1. CASE Publish(p)
  <2>1. IdInv' /\ HeldInv' /\ InboxInv'
    BY <1>1, IdsKept, Zenon DEF Publish
  <2>2. TxInv' /\ OwnedInv' /\ DropInv'
    BY <1>1, HasSessionTypes, ZenonT(40)
       DEF Publish, Goto, TxInv, OwnedInv, DropInv, Excused, Wrapped, Live, SessionTypes
  <2> QED BY <2>1, <2>2, Zenon
<1>2. CASE BeginScan(p)
  <2>1. IdInv' /\ HeldInv' /\ InboxInv'
    BY <1>2, IdsKept, Zenon DEF BeginScan
  <2>2. TxInv' /\ OwnedInv' /\ DropInv'
    BY <1>2, HasSessionTypes, ZenonT(40)
       DEF BeginScan, Goto, TxInv, OwnedInv, DropInv, Excused, Wrapped, Live, SessionTypes
  <2> QED BY SMTT(40), <2>1, <2>2
<1>3. CASE ScanGetTx(p)
  <2>1. PICK s \in todo[p] : ScanGetTx(p)!3!(s)
    BY <1>3, Zenon DEF ScanGetTx
  <2>2. s \in SessionId /\ owner[s] # NoClient
    BY HasSessionTypes, Zenon DEF OwnedInv, SessionTypes
  <2>3. /\ UNCHANGED <<sessionMap, nextSession, subscribed, reply, inbox, queue, up, csid, owner, full>>
        /\ todo' = [todo EXCEPT ![p] = @ \ {s}] /\ Live' = Live /\ Wrapped' = Wrapped
        /\ pc[p] = "scan"
    BY <1>3, <2>1, Zenon DEF ScanGetTx, Live, Wrapped
  <2>4. IdInv' /\ HeldInv' /\ InboxInv'
    BY <2>3, IdsKept, Zenon
  <2>5. CASE s \in Live
    <3>1. /\ cur' = [cur EXCEPT ![p] = s] /\ ptx' = [ptx EXCEPT ![p] = s]
          /\ pc' = [pc EXCEPT ![p] = "send"] /\ rm' = rm
      BY <2>1, <2>5, Zenon DEF Goto
    <3> QED BY <2>2, <2>3, <2>4, <2>5, <3>1, HasSessionTypes, ZenonT(40)
               DEF TxInv, OwnedInv, DropInv, Excused, SessionTypes
  <2>6. CASE s \notin Live
    <3>1. rm' = [rm EXCEPT ![p] = @ \cup {s}] /\ UNCHANGED <<cur, ptx, pc>>
      BY <2>1, <2>6, Zenon
    <3> QED BY <2>2, <2>3, <2>4, <2>6, <3>1, HasSessionTypes, ZenonT(40)
               DEF TxInv, OwnedInv, DropInv, Excused, SessionTypes
  <2> QED BY <2>5, <2>6, Zenon
<1>4. CASE ScanSend(p)
  <2>1. /\ UNCHANGED <<sessionMap, nextSession, subscribed, todo, reply, inbox, up, csid, owner>>
        /\ ptx' = [ptx EXCEPT ![p] = NullTx] /\ pc' = [pc EXCEPT ![p] = "scan"]
        /\ cur' = [cur EXCEPT ![p] = 0] /\ full' = FullAfter(p) /\ full \subseteq full'
        /\ rm' = [rm EXCEPT ![p] = @ \cup ToRemove(p)] /\ pc[p] = "send"
        /\ Live' = Live /\ Wrapped' = Wrapped
    BY <1>4, Zenon DEF ScanSend, FullAfter, Goto, Live, Wrapped
  <2>2. HeldInv'
    <3>1. CASE CanSend(p)
      <4>1. Notification(p) \in Message /\ Notification(p).type = "NOTIFY" /\ Send(p, Notification(p))
        BY <1>4, <3>1, Zenon DEF ScanSend, Notification, Message, NoNews, TypeInv, TypeOK
      <4> QED BY <2>1, <3>1, <4>1, SendHeld, Zenon
    <3>2. CASE ~CanSend(p)
      <4>1. queue' = queue
        BY <1>4, <3>2, Zenon DEF ScanSend
      <4> QED BY <2>1, <4>1, IdsKept, Zenon
    <3> QED BY <3>1, <3>2, Zenon
  <2>3. IdInv' /\ InboxInv'
    BY <2>1, Zenon DEF IdInv, InboxInv
  <2>4. TxInv' /\ OwnedInv'
    <3>1. NullTx \notin SessionId
      BY SMTT(40) DEF NullTx, SessionId
    <3> QED BY <2>1, <3>1, HasSessionTypes, Zenon DEF TxInv, OwnedInv, SessionTypes
  <2>5. DropInv'
    <3> SUFFICES ASSUME ~Wrapped', pc'[Main] = "wait"
                 PROVE  /\ \A s \in SessionId : owner'[s] # NoClient /\ s \notin Live' => Excused(s)'
                        /\ \A t \in Thread : \A s \in rm'[t] : Excused(s)'
      BY Zenon DEF DropInv
    <3>1. pc[Main] = "wait" /\ ~Wrapped
      BY <2>1, HasSessionTypes, Zenon DEF SessionTypes
    <3>2. \A s \in SessionId : Excused(s) => Excused(s)'
      BY <2>1, Zenon DEF Excused
    <3>3. ASSUME NEW s \in ToRemove(p) PROVE Excused(s)'
      <4>1. s = cur[p] /\ ~CanSend(p)
        BY Zenon DEF ToRemove
      <4>2. s \in SessionId /\ owner[s] # NoClient
        BY <2>1, <4>1, HasSessionTypes, Zenon DEF OwnedInv, SessionTypes
      <4>3. CASE s \notin Live
        BY <3>1, <3>2, <4>2, <4>3, Zenon DEF DropInv
      <4>4. CASE s \in Live
        <5>1. ptx[p] = s
          BY <2>1, <3>1, <4>1, <4>4, ZenonT(40) DEF OwnedInv
        <5> QED BY <2>1, <4>1, <4>2, <5>1, Zenon DEF FullAfter, Excused
      <4> QED BY <4>3, <4>4, Zenon
    <3> QED BY <2>1, <3>1, <3>2, <3>3, HasSessionTypes, Zenon DEF DropInv, SessionTypes
  <2> QED BY <2>2, <2>3, <2>4, <2>5, Zenon
<1>5. CASE EndScan(p)
  <2>1. IdInv' /\ HeldInv' /\ InboxInv'
    <3>1. UNCHANGED <<sessionMap, nextSession, owner, inbox, queue, up, csid>>
      BY <1>5, Zenon DEF EndScan
    <3> QED BY <3>1, IdsKept, Zenon
  <2>2. TxInv' /\ OwnedInv' /\ DropInv'
    BY <1>5, HasSessionTypes, ZenonT(40)
       DEF EndScan, Goto, TxInv, OwnedInv, DropInv, Excused, Wrapped, Live, SessionTypes
  <2> QED BY <2>1, <2>2
<1>6. CASE PublisherStop(p)
  <2>1. IdInv' /\ HeldInv' /\ InboxInv'
    BY <1>6, IdsKept, Zenon DEF PublisherStop
  <2>2. TxInv' /\ OwnedInv' /\ DropInv'
    BY <1>6, HasSessionTypes, ZenonT(40)
       DEF PublisherStop, Goto, TxInv, OwnedInv, DropInv, Excused, Wrapped, Live, SessionTypes
  <2> QED BY <2>1, <2>2
<1>7. CASE Remove(p)
  BY <1>7, RemoveSession, Zenon
<1> QED BY <1>1, <1>2, <1>3, <1>4, <1>5, <1>6, <1>7, ZenonT(40) DEF NotifyWork

LEMMA MainSession ==
  ASSUME TypeInv, SessionInv, MainWork \/ NotifyDisconnect
  PROVE  SessionInv'
<1> USE ThreadFacts, ConstantsAssumption DEF SessionInv, table, thread, clients, history
<1>1. CASE NotifyDisconnect
  <2>1. HeldInv'
    <3> SUFFICES ASSUME ~Wrapped', NEW c \in Client
                 PROVE  /\ csid'[c] \in SessionId => owner'[csid'[c]] = c
                        /\ \A i \in 1 .. Len(queue'[c]) : queue'[c][i].type = "CONNECT" =>
                             queue'[c][i].sid \in SessionId /\ owner'[queue'[c][i].sid] = c
      BY Zenon DEF HeldInv
    <3>1. ~Wrapped /\ UNCHANGED <<owner, csid>>
      BY <1>1, ZenonT(40) DEF NotifyDisconnect, Wrapped
    <3>2. queue[c] \in Seq(Message) /\ Len(queue[c]) \in Nat /\ Len(queue[c]) <= Depth
      BY DEF TypeInv, TypeOK
    <3> DEFINE copies == Least(Cardinality({s \in Live : sessionMap[s] = c}), Depth - Len(queue[c]))
               bye == [i \in 1 .. copies |-> Disconnect]
    <3>3. copies \in Nat
      <4>1. IsFiniteSet(SessionId)
        BY FS_Interval, SMTT(40) DEF SessionId
      <4>2. IsFiniteSet({s \in Live : sessionMap[s] = c})
        BY <4>1, FS_Subset, SMTT(40) DEF Live
      <4>3. Cardinality({s \in Live : sessionMap[s] = c}) \in Nat
        BY SMTT(40), <4>2, FS_CardinalityType
      <4> QED BY <3>2, <4>3, LeastFits, ZenonT(40)
    <3>4. queue'[c] = queue[c] \o bye
      BY <1>1, Zenon DEF NotifyDisconnect
    <3> HIDE DEF copies
    <3>5. bye \in Seq(Message) /\ Len(bye) = copies /\ \A i \in 1 .. copies : bye[i] = Disconnect
      BY <3>3, DisconnectType, SMTT(30)
    <3> HIDE DEF bye
    <3>6. ASSUME NEW i \in 1 .. Len(queue'[c]), queue'[c][i].type = "CONNECT"
          PROVE  i \in 1 .. Len(queue[c]) /\ queue'[c][i] = queue[c][i]
      BY <3>2, <3>3, <3>4, <3>5, <3>6, SMTT(40) DEF Disconnect
    <3>7. /\ csid[c] \in SessionId => owner[csid[c]] = c
          /\ \A i \in 1 .. Len(queue[c]) : queue[c][i].type = "CONNECT" =>
               queue[c][i].sid \in SessionId /\ owner[queue[c][i].sid] = c
      BY <3>1, Zenon DEF HeldInv
    <3>8. owner' = owner /\ csid' = csid
      BY <3>1, Zenon
    <3> QED BY <3>6, <3>7, <3>8, Zenon
  <2>2. IdInv' /\ InboxInv'
    BY <1>1, Zenon DEF NotifyDisconnect, IdInv, InboxInv, Wrapped
  <2>3. TxInv' /\ OwnedInv' /\ DropInv'
    BY <1>1, HasSessionTypes, ZenonT(40)
       DEF NotifyDisconnect, Goto, TxInv, OwnedInv, DropInv, Excused, Wrapped, Live, SessionTypes
  <2> QED BY <2>1, <2>2, <2>3, ZenonT(40)
<1>2. CASE MainStop
  <2>1. IdInv' /\ HeldInv' /\ InboxInv'
    BY <1>2, IdsKept, Zenon DEF MainStop
  <2>2. TxInv' /\ OwnedInv' /\ DropInv'
    BY <1>2, HasSessionTypes, ZenonT(40)
       DEF MainStop, Goto, TxInv, OwnedInv, DropInv, Excused, Wrapped, Live, SessionTypes
  <2> QED BY <2>1, <2>2, Zenon
<1>3. CASE MainRemoveAll
  <2>1. \A t \in Thread : t # Main => pc'[t] = pc[t]
    BY <1>3, HasSessionTypes, Zenon DEF MainRemoveAll, Goto, SessionTypes
  <2>2. pc'[Main] # "wait" /\ Live' = {} /\ Wrapped' = Wrapped
    BY <1>3, HasSessionTypes, ZenonT(40) DEF MainRemoveAll, Goto, Live, Wrapped, SessionTypes
  <2>3. HeldInv' /\ InboxInv'
    <3>1. UNCHANGED <<owner, inbox, up, queue, csid>>
      BY <1>3, Zenon DEF MainRemoveAll, clients, history
    <3>2. InboxInv'
      BY <3>1, Zenon DEF InboxInv, Wrapped
    <3> QED BY <3>1, <3>2, HeldKept, Zenon
  <2>4. IdInv'
    BY <1>3, HasSessionTypes, Zenon DEF MainRemoveAll, IdInv, Wrapped, SessionTypes
  <2>5. FreedTx \notin SessionId /\ NullTx \notin SessionId
    BY DEF FreedTx, NullTx, SessionId
  <2>6. TxInv'
    BY <1>3, <2>1, <2>5, HasSessionTypes, Zenon DEF MainRemoveAll, TxInv, Live, SessionTypes
  <2>7. OwnedInv' /\ DropInv'
    BY <1>3, <2>1, <2>2, Zenon DEF MainRemoveAll, OwnedInv, DropInv
  <2> QED BY <2>3, <2>4, <2>6, <2>7, Zenon
<1>4. CASE MainJoin \/ MainExit
  <2>1. /\ \A t \in Thread : pc'[t] \in {pc[t], "clear", "last", "exit"}
        /\ pc'[Main] # "wait"
        /\ UNCHANGED <<table, cur, ptx, todo, rm, reply, inbox, queue, clients, history>>
    BY <1>4, HasSessionTypes, Zenon DEF MainJoin, MainExit, Goto, SessionTypes
  <2>2. IdInv' /\ HeldInv' /\ InboxInv' /\ DropInv'
    BY <2>1, IdsKept, Zenon DEF DropInv, Wrapped
  <2>3. \A t \in Thread : \A l \in {"send", "insert", "readptp", "readsys", "gettx"} :
          pc'[t] = l => pc[t] = l
    BY <2>1, Zenon
  <2>4. TxInv' /\ OwnedInv'
    BY <2>1, <2>3, ZenonT(40) DEF TxInv, OwnedInv, Live, Wrapped
  <2> QED BY <2>2, <2>4, Zenon
<1>5. CASE Remove(Main)
  BY <1>5, RemoveSession, Zenon
<1> QED BY <1>1, <1>2, <1>3, <1>4, <1>5, ZenonT(40) DEF MainWork

LEMMA SessionInvNext == TypeInv /\ SessionInv /\ [Next]_vars => SessionInv'
<1> SUFFICES ASSUME TypeInv, SessionInv, [Next]_vars PROVE SessionInv'
  OBVIOUS
<1>1. CASE UNCHANGED vars
  <2> USE <1>1 DEF vars, table, thread, clients, history, SessionInv, Wrapped, Live
  <2>1. IdInv' /\ HeldInv' /\ InboxInv'
    BY IdsKept, Zenon
  <2>2. TxInv' /\ OwnedInv' /\ DropInv'
    BY ZenonT(40) DEF TxInv, OwnedInv, DropInv, Excused
  <2> QED BY <2>1, <2>2, Zenon
<1>2. CASE Next
  BY <1>2, ClientStepSession, ListenerSession, PublisherSession, MainSession, Zenon DEF Next
<1> QED BY <1>1, <1>2, Zenon

LEMMA SessionInvariant == Spec => [](TypeInv /\ SessionInv)
BY TypeInvInit, TypeInvNext, SessionInvInit, SessionInvNext, PTL DEF Spec

\* For any number of clients and session ids: until the ids wrap around, a
\* session id a client holds is never that of another client's session.
THEOREM SessionOwnership == Spec => []OwnSession
<1>1. TypeInv /\ SessionInv => OwnSession
  BY Zenon DEF OwnSession, SessionInv, HeldInv, IdInv, Live
<1> QED BY <1>1, SessionInvariant, PTL

\* The proxy drops a session only of a client that leaves, or whose queue was
\* full when something was sent to it, until it stops or ids are reused.
THEOREM OnlySlowDropped == Spec => []OnlySlowClientsDropped
<1>1. TypeInv /\ SessionInv => OnlySlowClientsDropped
  BY Zenon DEF OnlySlowClientsDropped, SessionInv, DropInv, Excused
<1> QED BY <1>1, SessionInvariant, PTL

\* CreateClientSession never hands a session in use to another client.
THEOREM NeverStolen == Spec => SessionNeverStolen
<1>1. ASSUME TypeInv, [Next]_vars
      PROVE  \A s \in Live : sessionMap'[s] \in {sessionMap[s], NoClient}
  <2> SUFFICES ASSUME NEW s \in Live PROVE sessionMap'[s] \in {sessionMap[s], NoClient}
    OBVIOUS
  <2>0. s \in SessionId /\ sessionMap \in [SessionId -> Client \cup {NoClient}]
    BY <1>1, HasSessionTypes, Zenon DEF Live, SessionTypes
  <2> USE <2>0 DEF table, thread, clients, history
  <2>1. CASE UNCHANGED vars
    BY <2>1, Zenon DEF vars
  <2>2. ASSUME NEW t \in Thread, Remove(t) PROVE sessionMap'[s] \in {sessionMap[s], NoClient}
    BY <2>2, Zenon DEF Remove, RemoveFromMap, RemoveFromBase
  <2>3. CASE ListenerWork \/ ListenerInterrupted
    <3>1. CASE ListenerConnect
      <4>1. CASE UNCHANGED sessionMap
        BY <4>1, Zenon
      <4>2. ASSUME NEW r \in SessionId, NewId(r), sessionMap' = [sessionMap EXCEPT ![r] = Head(inbox).client]
            PROVE  sessionMap'[s] = sessionMap[s]
        BY <4>2, Zenon DEF NewId
      <4> QED BY <3>1, <4>1, <4>2, Zenon DEF ListenerConnect, NewSession
    <3>2. CASE ListenerWork /\ ~ListenerConnect /\ ~Remove(Lst)
      BY <3>2, Zenon DEF ListenerWork, ListenerLoop, ListenerReconnect, ListenerSubscribe,
                  ListenerDisconnect, ListenerInsert, ListenerRead, ListenerGetTx, ListenerSend
    <3>3. CASE ListenerInterrupted
      BY <3>3, Zenon DEF ListenerInterrupted
    <3> QED BY <2>2, <2>3, <3>1, <3>2, <3>3, ThreadFacts, Zenon
  <2>4. ASSUME NEW p \in Source, NotifyWork(p) \/ Publish(p) \/ PublisherStop(p)
        PROVE  sessionMap'[s] \in {sessionMap[s], NoClient}
    BY <2>2, <2>4, ThreadFacts, Zenon
       DEF NotifyWork, Publish, PublisherStop, BeginScan, ScanGetTx, ScanSend, EndScan
  <2>5. CASE MainWork \/ NotifyDisconnect
    BY <2>2, <2>5, ThreadFacts, Zenon DEF MainWork, MainStop, MainRemoveAll, MainJoin, MainExit,
       NotifyDisconnect
  <2>6. ASSUME NEW c \in Client, ClientStep(c) PROVE sessionMap'[s] \in {sessionMap[s], NoClient}
    BY <2>6, Zenon
       DEF ClientStep, ClientConnect, ClientSubscribe, ClientDisconnect, ClientReceive, ClientGone
  <2> QED BY <1>1, <2>1, <2>3, <2>4, <2>5, <2>6, ZenonT(40) DEF Next
<1>2. Spec => []TypeInv
  BY TypeInvInit, TypeInvNext, PTL DEF Spec
<1> QED BY <1>1, <1>2, PTL DEF Spec, SessionNeverStolen

-----------------------------------------------------------------------------
(***************************************************************************)
(* No status is lost between a notification round and a subscription: the  *)
(* proof of NoLostStatus, on top of who owns which session.                *)
(***************************************************************************)

\* The publisher of x still has session s to notify, or to remove.
Pending(s, x) ==
  /\ x \in Source
  /\ \/ pc[x] \in {"notify", "exit"}
     \/ pc[x] \in {"scan", "send"} /\ s \in todo[x]
     \/ pc[x] = "send" /\ cur[x] = s
     \/ pc[x] \in {"scan", "send", "rm", "rmbase"} /\ s \in rm[x]

\* The listener is about to answer a subscription of s, and the answer has, or
\* will get, the current status x.
ReplyDue(s, x) ==
  /\ Answering(s, x[1])
  /\ \/ pc[Lst] = "readptp"
     \/ pc[Lst] = "readsys" /\ x[2] = "Sys"
     \/ reply.news[x[2]] = ev[x]

\* A session about to be erased from the time bases is no longer in the map.
ErasedInv ==
  ~Wrapped => \A t \in Thread :
    /\ \A s \in rm[t] : owner[s] # NoClient
    /\ pc[t] = "rmbase" => owner[cur[t]] # NoClient /\ cur[t] \notin Live

\* What a source without reports has to say needs no message.
EmptyInv ==
  /\ \A x \in Status \ Source : ev[x] = 0
  /\ \A x \in Status : \A s \in Live : ev[x] = 0 => x \in informed[s]

\* Every live subscriber was sent the current status, or somebody will see to it.
CaredFor ==
  ~Wrapped /\ pc[Lst] # "dead" =>
    \A x \in Status : \A s \in subscribed[x[1]] \cap Live :
      x \in informed[s] \/ Pending(s, x) \/ ReplyDue(s, x)

DeliveryInv == ErasedInv /\ EmptyInv /\ CaredFor

LEMMA StatusPair ==
  \A x \in Status : x[1] \in TimeBase /\ x[2] \in ClockType /\ x = <<x[1], x[2]>>
BY SMTT(40) DEF Status

LEMMA DeliveryInvInit == Init => DeliveryInv
<1> SUFFICES ASSUME Init PROVE DeliveryInv
  OBVIOUS
<1> USE ThreadFacts, StatusPair DEF Init
<1>1. ErasedInv /\ EmptyInv
  BY Zenon DEF ErasedInv, EmptyInv, Live
<1>2. CaredFor
  BY Zenon DEF CaredFor
<1> QED BY <1>1, <1>2, Zenon DEF DeliveryInv

\* A message takes no status away from what a session was sent.
LEMMA SendInforms ==
  ASSUME TypeOK, NEW t \in Thread, NEW msg, Send(t, msg), NEW s \in SessionId
  PROVE  informed[s] \subseteq informed'[s]
<1> DEFINE news == Current(msg)
<1>1. informed' = [informed EXCEPT ![ptx[t]] = @ \cup news]
  BY Zenon DEF Send
<1> HIDE DEF news
<1>2. informed'[s] = IF s = ptx[t] THEN informed[s] \cup news ELSE informed[s]
  BY <1>1, Zenon DEF TypeOK
<1> QED BY <1>2, Zenon

\* Steps that touch neither the table nor the threads.
LEMMA ClientStepDelivery ==
  ASSUME DeliveryInv, NEW c \in Client, ClientStep(c)
  PROVE  DeliveryInv'
<1>1. UNCHANGED <<table, ev, thread, history>>
  BY Zenon DEF ClientStep, ClientConnect, ClientSubscribe, ClientDisconnect, ClientReceive, ClientGone
<1> USE <1>1 DEF DeliveryInv, table, thread, history, Wrapped, Live
<1>2. ErasedInv' /\ EmptyInv'
  BY Zenon DEF ErasedInv, EmptyInv
<1>3. CaredFor'
  BY SMTT(40) DEF CaredFor, Pending, ReplyDue, Answering
<1> QED BY <1>2, <1>3, Zenon

\* removeClient by any thread.
LEMMA RemoveDelivery ==
  ASSUME TypeInv, SessionInv, DeliveryInv, NEW t \in Thread, Remove(t)
  PROVE  DeliveryInv'
<1> USE ThreadFacts, StatusPair DEF DeliveryInv, table, thread, clients, history
<1>1. CASE RemoveFromMap(t)
  <2>1. PICK r \in rm[t] : RemoveFromMap(t)!3!(r)
    BY <1>1, Zenon DEF RemoveFromMap
  <2>2. r \in SessionId /\ Live' = Live \ {r}
    BY <2>1, Zenon DEF Live, TypeInv, TypeOK
  <2>3. /\ UNCHANGED <<subscribed, ev, todo, rm, reply, owner, informed>> /\ Wrapped' = Wrapped
        /\ cur' = [cur EXCEPT ![t] = r] /\ pc' = [pc EXCEPT ![t] = "rmbase"] /\ pc[t] = "rm"
    BY <1>1, <2>1, Zenon DEF RemoveFromMap, Goto, Wrapped
  <2>4. ErasedInv'
    BY <2>2, <2>3, Zenon DEF ErasedInv, TypeInv, TypeOK
  <2>5. EmptyInv'
    BY <2>2, <2>3, Zenon DEF EmptyInv
  <2>6. CaredFor'
    <3> SUFFICES ASSUME ~Wrapped', pc'[Lst] # "dead", NEW x \in Status,
                        NEW s \in subscribed'[x[1]] \cap Live'
                 PROVE  x \in informed'[s] \/ Pending(s, x)' \/ ReplyDue(s, x)'
      BY Zenon DEF CaredFor
    <3>1. x \in informed[s] \/ Pending(s, x) \/ ReplyDue(s, x)
      BY <2>2, <2>3, Zenon DEF CaredFor, TypeInv, TypeOK
    <3>2. Pending(s, x) => Pending(s, x)'
      BY <2>3, Zenon DEF Pending, TypeInv, TypeOK
    <3>3. ReplyDue(s, x) => ReplyDue(s, x)'
      BY <2>3, Zenon DEF ReplyDue, Answering, TypeInv, TypeOK
    <3> QED BY <2>3, <3>1, <3>2, <3>3, Zenon
  <2> QED BY <2>4, <2>5, <2>6, Zenon
<1>2. CASE RemoveFromBase(t)
  <2>1. PICK b \in left[t] : RemoveFromBase(t)!2!(b)
    BY <1>2, Zenon DEF RemoveFromBase
  <2>2. /\ UNCHANGED <<ev, todo, reply, owner, informed>>
        /\ Live' = Live /\ Wrapped' = Wrapped /\ pc[t] = "rmbase"
    BY <1>2, Zenon DEF RemoveFromBase, Live, Wrapped
  <2>3. \A u \in Thread : u # t => pc'[u] = pc[u] /\ rm'[u] = rm[u] /\ cur'[u] = cur[u]
    BY <2>1, Zenon DEF Goto, TypeInv, TypeOK
  <2>4. \A a \in TimeBase : subscribed'[a] \subseteq subscribed[a]
    BY <2>1, Zenon DEF TypeInv, TypeOK
  <2>5. \/ pc'[t] = "rmbase" /\ rm'[t] = rm[t] /\ cur'[t] = cur[t]
        \/ /\ rm'[t] = rm[t] \ {cur[t]}
           /\ pc'[t] = "rm" \/ (pc'[t] \in {"loop", "stop", "idle"} /\ rm[t] \subseteq {cur[t]})
    <3>1. CASE left[t] = {b}
      BY <2>1, <3>1, ZenonT(40) DEF Goto, AfterRemove, TypeInv, TypeOK
    <3>2. CASE left[t] # {b}
      BY <2>1, <2>2, <3>2, Zenon
    <3> QED BY <3>1, <3>2, Zenon
  <2>6. ErasedInv'
    BY <2>2, <2>3, <2>5, SMTT(40) DEF ErasedInv
  <2>7. EmptyInv'
    BY <2>2, Zenon DEF EmptyInv
  <2>8. CaredFor'
    <3> SUFFICES ASSUME ~Wrapped', pc'[Lst] # "dead", NEW x \in Status,
                        NEW s \in subscribed'[x[1]] \cap Live'
                 PROVE  x \in informed'[s] \/ Pending(s, x)' \/ ReplyDue(s, x)'
      BY Zenon DEF CaredFor
    <3>1. pc[Lst] # "dead"
      BY <2>2, <2>3, Zenon
    <3>2. x \in informed[s] \/ Pending(s, x) \/ ReplyDue(s, x)
      BY <2>2, <2>4, <3>1, Zenon DEF CaredFor
    <3>3. s # cur[t]
      BY <2>2, Zenon DEF ErasedInv
    <3>4. Pending(s, x) => Pending(s, x)'
      <4>1. CASE x = t
        BY <2>2, <2>5, <3>3, <4>1, ZenonT(40) DEF Pending
      <4>2. CASE x # t
        BY <2>2, <2>3, <4>2, Zenon DEF Pending
      <4> QED BY <4>1, <4>2, Zenon
    <3>5. ReplyDue(s, x) => ReplyDue(s, x)'
      BY <2>2, <2>3, Zenon DEF ReplyDue, Answering
    <3> QED BY <2>2, <3>2, <3>4, <3>5, ZenonT(40)
  <2> QED BY <2>6, <2>7, <2>8, Zenon
<1> QED BY <1>1, <1>2, Zenon DEF Remove

\* A listener step that only moves the listener between places where it
\* answers no subscription.
LEMMA ListenerIdleStep ==
  ASSUME TypeInv, SessionInv, DeliveryInv,
         UNCHANGED <<sessionMap, subscribed, ev, cur, todo, owner, informed>>,
         \A u \in Thread : u # Lst => pc'[u] = pc[u] /\ rm'[u] = rm[u],
         \A s \in rm'[Lst] : ~Wrapped => owner[s] # NoClient,
         pc[Lst] \notin {"readptp", "readsys", "gettx", "send", "dead"}, pc'[Lst] # "rmbase"
  PROVE  DeliveryInv'
<1> USE ThreadFacts, StatusPair DEF DeliveryInv
<1>1. Live' = Live /\ Wrapped' = Wrapped
  BY Zenon DEF Live, Wrapped
<1>2. ErasedInv' /\ EmptyInv'
  BY <1>1, Zenon DEF ErasedInv, EmptyInv
<1>3. CaredFor'
  BY <1>1, SMTT(40) DEF CaredFor, Pending, ReplyDue, Answering
<1> QED BY <1>2, <1>3, Zenon

LEMMA ConnectDelivery ==
  ASSUME TypeInv, SessionInv, DeliveryInv, ListenerConnect
  PROVE  DeliveryInv'
<1> USE ThreadFacts, StatusPair, ConstantsAssumption DEF DeliveryInv, table, thread, clients, history
<1>1. /\ UNCHANGED <<subscribed, ev, cur, todo, rm>> /\ pc[Lst] = "recv"
      /\ \A u \in Thread : u # Lst => pc'[u] = pc[u]
  BY ZenonT(40) DEF ListenerConnect, NewSession, ListenerFails, Goto, Receive, TypeInv, TypeOK
<1>2. CASE UNCHANGED <<sessionMap, owner, informed>> /\ pc'[Lst] \in {"spin", "dead"}
  BY <1>1, <1>2, ListenerIdleStep, Zenon DEF ErasedInv
<1>3. ASSUME NEW r \in SessionId, NewSession(Head(inbox), r), Head(inbox).client \in linked
      PROVE  DeliveryInv'
  <2> DEFINE c == Head(inbox).client
  <2>1. /\ sessionMap' = [sessionMap EXCEPT ![r] = c] /\ owner' = [owner EXCEPT ![r] = c]
        /\ informed' = [informed EXCEPT ![r] = {x \in Status : ev[x] = 0}]
        /\ pc'[Lst] = "gettx" /\ reply'.type = "CONNECT"
    BY <1>3, SMTT(40) DEF NewSession, Goto, TypeInv, TypeOK
  <2>2. c \in Client /\ c # NoClient
    BY <1>3, Zenon DEF TypeInv, TypeOK
  <2>3. Live' = Live \cup {r}
    BY <2>1, <2>2, SMTT(40) DEF Live, TypeInv, TypeOK
  <2>4. ~Wrapped' => /\ ~Wrapped /\ owner[r] = NoClient
                     /\ \A q \in SessionId : owner[q] # NoClient => q # r /\ owner'[q] = owner[q]
    <3>1. ~Wrapped' => ~Wrapped
      BY <2>1, <2>2, Zenon DEF Wrapped, TypeInv, TypeOK
    <3>2. ~Wrapped => owner[r] = NoClient
      BY <1>3, NewSessionId, ZenonT(40) DEF NewSession
    <3> QED BY <2>1, <3>1, <3>2, ZenonT(40) DEF TypeInv, TypeOK
  <2> HIDE DEF c
  <2>5. ErasedInv'
    <3>1. \A t \in Thread : rm[t] \subseteq SessionId /\ cur[t] \in SessionId
      BY Zenon DEF TypeInv, TypeOK
    <3> QED BY <1>1, <2>1, <2>3, <2>4, <3>1, SMTT(40) DEF ErasedInv
  <2>6. EmptyInv'
    BY <1>1, <2>1, <2>3, ZenonT(40) DEF EmptyInv, Live, TypeInv, TypeOK
  <2>7. CaredFor'
    <3> SUFFICES ASSUME ~Wrapped', pc'[Lst] # "dead", NEW x \in Status,
                        NEW s \in subscribed'[x[1]] \cap Live'
                 PROVE  x \in informed'[s] \/ Pending(s, x)' \/ ReplyDue(s, x)'
      BY Zenon DEF CaredFor
    <3>1. s \in SessionId /\ owner[s] # NoClient
      BY <1>1, Zenon DEF SessionInv, OwnedInv, TypeInv, TypeOK
    <3>2. s # r /\ s \in Live /\ informed'[s] = informed[s]
      BY <2>1, <2>3, <2>4, <3>1, Zenon DEF TypeInv, TypeOK
    <3>3. x \in informed[s] \/ Pending(s, x)
      BY <1>1, <2>4, <3>2, Zenon DEF CaredFor, ReplyDue, Answering
    <3>4. Pending(s, x) => Pending(s, x)'
      BY <1>1, Zenon DEF Pending
    <3> QED BY <3>2, <3>3, <3>4, Zenon
  <2> QED BY <2>5, <2>6, <2>7, Zenon
<1>4. CASE Live = SessionId /\ Goto(Lst, "spin") /\ UNCHANGED <<table, ptx, reply, history>>
  BY <1>2, <1>4, Zenon DEF Goto, TypeInv, TypeOK
<1>5. ASSUME NEW r \in SessionId, NewSession(Head(inbox), r), Head(inbox).client \notin linked
      PROVE  DeliveryInv'
  BY <1>2, <1>5, Zenon DEF NewSession, ListenerFails, Goto, TypeInv, TypeOK
<1> QED BY <1>3, <1>4, <1>5, ZenonT(40) DEF ListenerConnect

LEMMA ListenerDelivery ==
  ASSUME TypeInv, SessionInv, DeliveryInv, ListenerWork \/ ListenerInterrupted
  PROVE  DeliveryInv'
<1> USE ThreadFacts, StatusPair DEF DeliveryInv, table, thread, clients, history
<1>1. CASE ListenerLoop
  BY <1>1, ListenerIdleStep, Zenon DEF ListenerLoop, Goto, ErasedInv, TypeInv, TypeOK
<1>2. CASE ListenerInterrupted
  BY <1>2, ListenerIdleStep, Zenon DEF ListenerInterrupted, Goto, ErasedInv, TypeInv, TypeOK
<1>3. CASE ListenerReconnect
  BY <1>3, ListenerIdleStep, ZenonT(40)
     DEF ListenerReconnect, Receive, ListenerFails, Goto, ErasedInv, TypeInv, TypeOK
<1>4. CASE ListenerConnect
  BY <1>4, ConnectDelivery, Zenon
<1>5. CASE ListenerSubscribe
  BY <1>5, ListenerIdleStep, Zenon
     DEF ListenerSubscribe, Receive, ListenerFails, Goto, ErasedInv, TypeInv, TypeOK
<1>6. CASE ListenerDisconnect
  <2>1. /\ UNCHANGED <<sessionMap, subscribed, ev, cur, todo, owner, informed>>
        /\ \A u \in Thread : u # Lst => pc'[u] = pc[u] /\ rm'[u] = rm[u]
        /\ pc[Lst] = "recv" /\ pc'[Lst] \in {"rm", "loop"}
        /\ rm'[Lst] = {Head(inbox).sid} \cap SessionId
    BY <1>6, Zenon DEF ListenerDisconnect, Receive, Goto, TypeInv, TypeOK
  <2>2. ~Wrapped /\ Head(inbox).sid \in SessionId => owner[Head(inbox).sid] # NoClient
    <3>1. Head(inbox) = inbox[1] /\ 1 \in 1 .. Len(inbox) /\ inbox[1] \in Request
      BY <1>6, InboxTail, Zenon DEF ListenerDisconnect
    <3>2. inbox[1].client # NoClient
      BY <3>1, ConstantsAssumption, Zenon DEF Request
    <3> QED BY <3>1, <3>2, Zenon DEF SessionInv, InboxInv
  <2> QED BY <2>1, <2>2, ListenerIdleStep, Zenon
<1>7. CASE ListenerInsert
  <2>1. /\ UNCHANGED <<sessionMap, ev, cur, todo, rm, reply, owner, informed>>
        /\ pc' = [pc EXCEPT ![Lst] = "readptp"] /\ pc[Lst] = "insert"
        /\ subscribed' = [subscribed EXCEPT ![reply.tb] = @ \cup {reply.sid}]
        /\ Live' = Live /\ Wrapped' = Wrapped
    BY <1>7, Zenon DEF ListenerInsert, Goto, Live, Wrapped
  <2>2. reply.type = "SUBSCRIBE" /\ reply.tb \in TimeBase
    BY <2>1, Zenon DEF TypeInv, ReplyInv
  <2>3. pc'[Lst] = "readptp" /\ \A u \in Thread : u # Lst => pc'[u] = pc[u]
    BY <2>1, Zenon DEF TypeInv, TypeOK
  <2>4. ErasedInv' /\ EmptyInv'
    BY <2>1, <2>3, Zenon DEF ErasedInv, EmptyInv
  <2>5. CaredFor'
    <3> SUFFICES ASSUME ~Wrapped', pc'[Lst] # "dead", NEW x \in Status,
                        NEW s \in subscribed'[x[1]] \cap Live'
                 PROVE  x \in informed'[s] \/ Pending(s, x)' \/ ReplyDue(s, x)'
      BY Zenon DEF CaredFor
    <3>1. CASE s \in subscribed[x[1]]
      <4>1. x \in informed[s] \/ Pending(s, x)
        BY <2>1, <3>1, Zenon DEF CaredFor, ReplyDue, Answering
      <4> QED BY <2>1, <2>3, <4>1, Zenon DEF Pending
    <3>2. CASE s \notin subscribed[x[1]]
      <4>1. x[1] = reply.tb /\ s = reply.sid
        BY <2>1, <2>2, <3>2, ZenonT(40) DEF TypeInv, TypeOK
      <4> QED BY <2>1, <2>2, <2>3, <4>1, Zenon DEF ReplyDue, Answering
    <3> QED BY <3>1, <3>2, Zenon
  <2> QED BY <2>4, <2>5, Zenon
<1>8. CASE ListenerRead("PTP", "readptp", "readsys")
  <2>1. /\ UNCHANGED <<sessionMap, subscribed, ev, cur, todo, rm, owner, informed>>
        /\ pc' = [pc EXCEPT ![Lst] = "readsys"] /\ pc[Lst] = "readptp"
        /\ reply' = [reply EXCEPT !.news["PTP"] = ev[<<reply.tb, "PTP">>]]
        /\ Live' = Live /\ Wrapped' = Wrapped
    BY <1>8, Zenon DEF ListenerRead, Goto, Live, Wrapped
  <2>2. /\ reply'.type = reply.type /\ reply'.sid = reply.sid /\ reply'.tb = reply.tb
        /\ reply'.news["PTP"] = ev[<<reply.tb, "PTP">>]
        /\ \A j \in ClockType : j # "PTP" => reply'.news[j] = reply.news[j]
    BY <2>1, Zenon DEF TypeInv, TypeOK, Message, ClockType
  <2>3. \A u \in Thread : u # Lst => pc'[u] = pc[u]
    BY <2>1, Zenon DEF TypeInv, TypeOK
  <2>4. pc'[Lst] = "readsys"
    BY <2>1, Zenon DEF TypeInv, TypeOK
  <2>5. ErasedInv' /\ EmptyInv'
    BY <2>1, <2>3, <2>4, Zenon DEF ErasedInv, EmptyInv
  <2>6. CaredFor'
    <3> SUFFICES ASSUME ~Wrapped', pc'[Lst] # "dead", NEW x \in Status,
                        NEW s \in subscribed'[x[1]] \cap Live'
                 PROVE  x \in informed'[s] \/ Pending(s, x)' \/ ReplyDue(s, x)'
      BY Zenon DEF CaredFor
    <3>1. x \in informed[s] \/ Pending(s, x) \/ ReplyDue(s, x)
      BY <2>1, Zenon DEF CaredFor
    <3>2. Pending(s, x) => Pending(s, x)'
      BY <2>1, <2>3, Zenon DEF Pending
    <3>3. ASSUME ReplyDue(s, x) PROVE ReplyDue(s, x)'
      <4>1. reply.type = "SUBSCRIBE" /\ reply.sid = s /\ reply.tb = x[1]
        BY <3>3, Zenon DEF ReplyDue, Answering
      <4>2. Answering(s, x[1])'
        BY <2>2, <2>4, <4>1, Zenon DEF Answering
      <4>3. CASE x[2] = "PTP"
        BY <2>1, <2>2, <4>1, <4>2, <4>3, ZenonT(40) DEF ReplyDue
      <4>4. CASE x[2] # "PTP"
        BY <2>1, <2>2, <2>4, <3>3, <4>2, <4>4, ZenonT(40) DEF ReplyDue, ClockType
      <4> QED BY <4>3, <4>4, Zenon
    <3> QED BY <2>1, <3>1, <3>2, <3>3, Zenon
  <2> QED BY <2>5, <2>6, Zenon
<1>9. CASE ListenerRead("Sys", "readsys", "gettx")
  <2>1. /\ UNCHANGED <<sessionMap, subscribed, ev, cur, todo, rm, owner, informed>>
        /\ pc' = [pc EXCEPT ![Lst] = "gettx"] /\ pc[Lst] = "readsys"
        /\ reply' = [reply EXCEPT !.news["Sys"] = ev[<<reply.tb, "Sys">>]]
        /\ Live' = Live /\ Wrapped' = Wrapped
    BY <1>9, Zenon DEF ListenerRead, Goto, Live, Wrapped
  <2>2. /\ reply'.type = reply.type /\ reply'.sid = reply.sid /\ reply'.tb = reply.tb
        /\ reply'.news["Sys"] = ev[<<reply.tb, "Sys">>]
        /\ \A j \in ClockType : j # "Sys" => reply'.news[j] = reply.news[j]
    BY <2>1, Zenon DEF TypeInv, TypeOK, Message, ClockType
  <2>3. \A u \in Thread : u # Lst => pc'[u] = pc[u]
    BY <2>1, Zenon DEF TypeInv, TypeOK
  <2>4. pc'[Lst] = "gettx"
    BY <2>1, Zenon DEF TypeInv, TypeOK
  <2>5. ErasedInv' /\ EmptyInv'
    BY <2>1, <2>3, <2>4, Zenon DEF ErasedInv, EmptyInv
  <2>6. CaredFor'
    <3> SUFFICES ASSUME ~Wrapped', pc'[Lst] # "dead", NEW x \in Status,
                        NEW s \in subscribed'[x[1]] \cap Live'
                 PROVE  x \in informed'[s] \/ Pending(s, x)' \/ ReplyDue(s, x)'
      BY Zenon DEF CaredFor
    <3>1. x \in informed[s] \/ Pending(s, x) \/ ReplyDue(s, x)
      BY <2>1, Zenon DEF CaredFor
    <3>2. Pending(s, x) => Pending(s, x)'
      BY <2>1, <2>3, Zenon DEF Pending
    <3>3. ASSUME ReplyDue(s, x) PROVE ReplyDue(s, x)'
      <4>1. reply.type = "SUBSCRIBE" /\ reply.sid = s /\ reply.tb = x[1]
        BY <3>3, Zenon DEF ReplyDue, Answering
      <4>2. Answering(s, x[1])'
        BY <2>2, <2>4, <4>1, ZenonT(40) DEF Answering
      <4>3. CASE x[2] = "Sys"
        BY <2>1, <2>2, <4>1, <4>2, <4>3, ZenonT(40) DEF ReplyDue
      <4>4. CASE x[2] # "Sys"
        BY <2>1, <2>2, <2>4, <3>3, <4>2, <4>4, ZenonT(40) DEF ReplyDue, ClockType
      <4> QED BY <4>3, <4>4, ZenonT(40)
    <3> QED BY <2>1, <3>1, <3>2, <3>3, ZenonT(40)
  <2> QED BY <2>5, <2>6, Zenon
<1>10. CASE ListenerGetTx
  <2>1. /\ UNCHANGED <<sessionMap, subscribed, ev, cur, todo, rm, reply, owner, informed>>
        /\ pc[Lst] = "gettx" /\ pc'[Lst] \in {"send", "dead"}
        /\ \A u \in Thread : u # Lst => pc'[u] = pc[u]
        /\ Live' = Live /\ Wrapped' = Wrapped
    BY <1>10, Zenon DEF ListenerGetTx, ListenerFails, Goto, Live, Wrapped, TypeInv, TypeOK
  <2>2. ErasedInv' /\ EmptyInv'
    BY <2>1, ZenonT(40) DEF ErasedInv, EmptyInv
  <2>3. CaredFor'
    BY <2>1, SMTT(40) DEF CaredFor, Pending, ReplyDue, Answering
  <2> QED BY <2>2, <2>3, Zenon
<1>11. CASE ListenerSend
  <2>1. /\ UNCHANGED <<sessionMap, subscribed, ev, cur, todo, rm, owner>>
        /\ pc[Lst] = "send" /\ pc'[Lst] = (IF CanSend(Lst) THEN "loop" ELSE "dead")
        /\ \A u \in Thread : u # Lst => pc'[u] = pc[u]
        /\ Live' = Live /\ Wrapped' = Wrapped
    BY <1>11, Zenon DEF ListenerSend, ListenerFails, Goto, Live, Wrapped, TypeInv, TypeOK
  <2>2. \A s \in SessionId : informed[s] \subseteq informed'[s]
    <3>1. CASE CanSend(Lst)
      BY <1>11, <3>1, SendInforms, ZenonT(40) DEF ListenerSend, TypeInv
    <3>2. CASE ~CanSend(Lst)
      BY <1>11, <3>2, ZenonT(40) DEF ListenerSend
    <3> QED BY <3>1, <3>2, Zenon
  <2>3. CanSend(Lst) => Current(reply) \subseteq informed'[reply.sid]
    <3> SUFFICES ASSUME CanSend(Lst) PROVE Current(reply) \subseteq informed'[reply.sid]
      OBVIOUS
    <3>1. ptx[Lst] = reply.sid /\ reply.sid \in SessionId
      BY <2>1, SMTT(40) DEF SessionInv, TxInv, CanSend, FreedTx, SessionId
    <3>2. informed' = [informed EXCEPT ![ptx[Lst]] = @ \cup Current(reply)]
      BY <1>11, Zenon DEF ListenerSend, Send
    <3> QED BY <3>1, <3>2, Zenon DEF TypeInv, TypeOK
  <2>4. ErasedInv' /\ EmptyInv'
    BY <2>1, <2>2, Zenon DEF ErasedInv, EmptyInv, Live
  <2>5. CaredFor'
    <3> SUFFICES ASSUME ~Wrapped', pc'[Lst] # "dead", NEW x \in Status,
                        NEW s \in subscribed'[x[1]] \cap Live'
                 PROVE  x \in informed'[s] \/ Pending(s, x)' \/ ReplyDue(s, x)'
      BY Zenon DEF CaredFor
    <3>1. CanSend(Lst) /\ s \in SessionId
      BY <2>1, Zenon DEF Live
    <3>2. x \in informed[s] \/ Pending(s, x) \/ ReplyDue(s, x)
      BY <2>1, Zenon DEF CaredFor
    <3>3. Pending(s, x) => Pending(s, x)'
      BY <2>1, Zenon DEF Pending
    <3>4. ASSUME ReplyDue(s, x) PROVE x \in informed'[s]
      <4>1. reply.sid = s /\ reply.tb = x[1] /\ reply.news[x[2]] = ev[x]
        BY <2>1, <3>4, Zenon DEF ReplyDue, Answering
      <4>2. CASE ev[x] = 0
        BY <2>1, <2>2, <3>1, <4>2, Zenon DEF EmptyInv
      <4>3. CASE ev[x] # 0
        BY <2>3, <3>1, <4>1, <4>3, Zenon DEF Current, Carried
      <4> QED BY <4>2, <4>3, Zenon
    <3> QED BY <2>2, <3>1, <3>2, <3>3, <3>4, ZenonT(40)
  <2> QED BY <2>4, <2>5, Zenon
<1>12. CASE Remove(Lst)
  BY <1>12, RemoveDelivery, Zenon
<1> QED BY <1>1, <1>2, <1>3, <1>4, <1>5, <1>6, <1>7, <1>8, <1>9, <1>10, <1>11, <1>12, ZenonT(40)
        DEF ListenerWork

LEMMA PublisherDelivery ==
  ASSUME TypeInv, SessionInv, DeliveryInv, NEW p \in Source,
         NotifyWork(p) \/ Publish(p) \/ PublisherStop(p)
  PROVE  DeliveryInv'
<1> USE ThreadFacts, StatusPair, ConstantsAssumption DEF DeliveryInv, table, thread, clients, history
<1>1. CASE Publish(p)
  <2>1. /\ UNCHANGED <<sessionMap, subscribed, cur, todo, rm, reply, owner>>
        /\ ev' = [ev EXCEPT ![p] = @ + 1] /\ pc'[p] = "notify"
        /\ \A s \in SessionId : informed'[s] = informed[s] \ {p}
        /\ \A u \in Thread : u # p => pc'[u] = pc[u]
        /\ Live' = Live /\ Wrapped' = Wrapped
    BY <1>1, ZenonT(40) DEF Publish, Goto, Live, Wrapped, TypeInv, TypeOK
  <2>2. ev'[p] # 0 /\ \A x \in Status : x # p => ev'[x] = ev[x]
    BY <2>1, SMTT(40) DEF TypeInv, TypeOK
  <2>3. ErasedInv' /\ EmptyInv'
    BY <2>1, <2>2, SMTT(40) DEF ErasedInv, EmptyInv, Live
  <2>4. CaredFor'
    <3> SUFFICES ASSUME ~Wrapped', pc'[Lst] # "dead", NEW x \in Status,
                        NEW s \in subscribed'[x[1]] \cap Live'
                 PROVE  x \in informed'[s] \/ Pending(s, x)' \/ ReplyDue(s, x)'
      BY Zenon DEF CaredFor
    <3>1. CASE x = p
      BY <2>1, <3>1, Zenon DEF Pending
    <3>2. CASE x # p
      <4>1. x \in informed[s] \/ Pending(s, x) \/ ReplyDue(s, x)
        BY <2>1, ZenonT(40) DEF CaredFor
      <4>2. s \in SessionId
        BY <2>1, Zenon DEF Live
      <4> QED BY <2>1, <2>2, <3>2, <4>1, <4>2, ZenonT(40) DEF Pending, ReplyDue, Answering
    <3> QED BY <3>1, <3>2, Zenon
  <2> QED BY <2>3, <2>4, Zenon
<1>2. CASE BeginScan(p)
  <2>1. /\ UNCHANGED <<sessionMap, subscribed, ev, cur, rm, reply, owner, informed>>
        /\ todo'[p] = subscribed[p[1]] /\ pc[p] = "notify" /\ pc'[p] = "scan"
        /\ \A u \in Thread : u # p => pc'[u] = pc[u] /\ todo'[u] = todo[u]
        /\ Live' = Live /\ Wrapped' = Wrapped
    BY <1>2, Zenon DEF BeginScan, Goto, Live, Wrapped, TypeInv, TypeOK
  <2>2. ErasedInv' /\ EmptyInv'
    BY <2>1, ZenonT(40) DEF ErasedInv, EmptyInv
  <2>3. CaredFor'
    <3> SUFFICES ASSUME ~Wrapped', pc'[Lst] # "dead", NEW x \in Status,
                        NEW s \in subscribed'[x[1]] \cap Live'
                 PROVE  x \in informed'[s] \/ Pending(s, x)' \/ ReplyDue(s, x)'
      BY Zenon DEF CaredFor
    <3>1. CASE x = p
      BY <2>1, <3>1, Zenon DEF Pending
    <3>2. CASE x # p
      <4>1. x \in informed[s] \/ Pending(s, x) \/ ReplyDue(s, x)
        BY <2>1, Zenon DEF CaredFor
      <4> QED BY <2>1, <3>2, <4>1, ZenonT(40) DEF Pending, ReplyDue, Answering
    <3> QED BY <3>1, <3>2, Zenon
  <2> QED BY <2>2, <2>3, Zenon
<1>3. CASE ScanGetTx(p)
  <2>1. PICK r \in todo[p] : ScanGetTx(p)!3!(r)
    BY <1>3, Zenon DEF ScanGetTx
  <2>2. /\ UNCHANGED <<sessionMap, subscribed, ev, reply, owner, informed>>
        /\ todo'[p] = todo[p] \ {r} /\ pc[p] = "scan"
        /\ \A u \in Thread : u # p => /\ pc'[u] = pc[u] /\ todo'[u] = todo[u]
                                      /\ rm'[u] = rm[u] /\ cur'[u] = cur[u]
        /\ Live' = Live /\ Wrapped' = Wrapped
    BY <1>3, <2>1, ZenonT(40) DEF ScanGetTx, Goto, Live, Wrapped, TypeInv, TypeOK
  <2>3. \/ r \in Live /\ cur'[p] = r /\ pc'[p] = "send" /\ rm'[p] = rm[p]
        \/ r \notin Live /\ rm'[p] = rm[p] \cup {r} /\ pc'[p] = "scan"
    BY <2>1, <2>2, ZenonT(40) DEF Goto, TypeInv, TypeOK
  <2>4. owner[r] # NoClient
    BY Zenon DEF SessionInv, OwnedInv
  <2>5. ErasedInv' /\ EmptyInv'
    BY <2>2, <2>3, <2>4, SMTT(40) DEF ErasedInv, EmptyInv
  <2>6. CaredFor'
    <3> SUFFICES ASSUME ~Wrapped', pc'[Lst] # "dead", NEW x \in Status,
                        NEW s \in subscribed'[x[1]] \cap Live'
                 PROVE  x \in informed'[s] \/ Pending(s, x)' \/ ReplyDue(s, x)'
      BY Zenon DEF CaredFor
    <3>1. x \in informed[s] \/ Pending(s, x) \/ ReplyDue(s, x)
      BY <2>2, Zenon DEF CaredFor
    <3>2. Pending(s, x) => Pending(s, x)'
      <4>1. CASE x = p
        BY <2>2, <2>3, <4>1, ZenonT(40) DEF Pending
      <4>2. CASE x # p
        BY <2>2, <4>2, Zenon DEF Pending
      <4> QED BY <4>1, <4>2, Zenon
    <3>3. ReplyDue(s, x) => ReplyDue(s, x)'
      BY <2>2, Zenon DEF ReplyDue, Answering
    <3> QED BY <2>2, <3>1, <3>2, <3>3, Zenon
  <2> QED BY <2>5, <2>6, Zenon
<1>4. CASE ScanSend(p)
  <2>1. /\ UNCHANGED <<sessionMap, subscribed, ev, todo, reply, owner>>
        /\ pc[p] = "send" /\ pc'[p] = "scan" /\ rm'[p] = rm[p] \cup ToRemove(p)
        /\ \A u \in Thread : u # p => pc'[u] = pc[u] /\ rm'[u] = rm[u] /\ cur'[u] = cur[u]
        /\ Live' = Live /\ Wrapped' = Wrapped
    BY <1>4, Zenon DEF ScanSend, Goto, Live, Wrapped, TypeInv, TypeOK
  <2>2. \A s \in SessionId : informed[s] \subseteq informed'[s]
    <3>1. CASE CanSend(p)
      BY <1>4, <3>1, SendInforms, Zenon DEF ScanSend, TypeInv
    <3>2. CASE ~CanSend(p)
      BY <1>4, <3>2, Zenon DEF ScanSend
    <3> QED BY <3>1, <3>2, Zenon
  <2>3. ToRemove(p) \subseteq {cur[p]} /\ owner[cur[p]] # NoClient
    BY <2>1, Zenon DEF ToRemove, SessionInv, OwnedInv
  <2>4. ErasedInv'
    BY <2>1, <2>3, Zenon DEF ErasedInv
  <2>5. EmptyInv'
    BY <2>1, <2>2, Zenon DEF EmptyInv, Live
  <2>6. ASSUME ~Wrapped, cur[p] \in Live
        PROVE  p \in informed'[cur[p]] \/ cur[p] \in rm'[p]
    <3>1. ptx[p] = cur[p]
      BY <2>1, <2>6, Zenon DEF SessionInv, OwnedInv
    <3>2. CASE ~CanSend(p)
      BY <2>1, <3>2, Zenon DEF ToRemove
    <3>3. CASE CanSend(p)
      <4>1. CASE ev[p] = 0
        BY <2>2, <2>6, <4>1, ZenonT(40) DEF EmptyInv, Live
      <4>2. CASE ev[p] # 0
        <5>1. Notification(p).tb = p[1] /\ Notification(p).news[p[2]] = ev[p]
          BY Zenon DEF Notification, NoNews
        <5>2. p \in Current(Notification(p))
          BY <4>2, <5>1, Zenon DEF Current, Carried
        <5>3. informed' = [informed EXCEPT ![ptx[p]] = @ \cup Current(Notification(p))]
          BY <1>4, <3>3, Zenon DEF ScanSend, Send
        <5> QED BY <2>6, <3>1, <5>2, <5>3, Zenon DEF Live, TypeInv, TypeOK
      <4> QED BY <4>1, <4>2, Zenon
    <3> QED BY <3>2, <3>3, Zenon
  <2>7. CaredFor'
    <3> SUFFICES ASSUME ~Wrapped', pc'[Lst] # "dead", NEW x \in Status,
                        NEW s \in subscribed'[x[1]] \cap Live'
                 PROVE  x \in informed'[s] \/ Pending(s, x)' \/ ReplyDue(s, x)'
      BY Zenon DEF CaredFor
    <3>1. x \in informed[s] \/ Pending(s, x) \/ ReplyDue(s, x)
      BY <2>1, Zenon DEF CaredFor
    <3>2. s \in SessionId /\ informed[s] \subseteq informed'[s]
      BY <2>1, <2>2, Zenon DEF Live
    <3>3. Pending(s, x) => x \in informed'[s] \/ Pending(s, x)'
      <4>1. CASE x = p /\ s = cur[p]
        BY <2>1, <2>6, <4>1, Zenon DEF Pending
      <4>2. CASE x = p /\ s # cur[p]
        BY <2>1, <4>2, Zenon DEF Pending
      <4>3. CASE x # p
        BY <2>1, <4>3, Zenon DEF Pending
      <4> QED BY <4>1, <4>2, <4>3, Zenon
    <3>4. ReplyDue(s, x) => ReplyDue(s, x)'
      BY <2>1, Zenon DEF ReplyDue, Answering
    <3> QED BY <3>1, <3>2, <3>3, <3>4, ZenonT(40)
  <2> QED BY <2>4, <2>5, <2>7, ZenonT(40)
<1>5. CASE EndScan(p) \/ PublisherStop(p)
  <2>1. /\ UNCHANGED <<sessionMap, subscribed, ev, cur, todo, rm, reply, owner, informed>>
        /\ \A u \in Thread : u # p => pc'[u] = pc[u]
        /\ \/ pc[p] = "scan" /\ todo[p] = {} /\ pc'[p] = (IF rm[p] = {} THEN "idle" ELSE "rm")
           \/ pc[p] = "idle" /\ pc'[p] = "done"
        /\ Live' = Live /\ Wrapped' = Wrapped
    BY <1>5, ZenonT(40) DEF EndScan, PublisherStop, Goto, Live, Wrapped, TypeInv, TypeOK
  <2>2. ErasedInv' /\ EmptyInv'
    BY <2>1, Zenon DEF ErasedInv, EmptyInv
  <2>3. CaredFor'
    <3> SUFFICES ASSUME ~Wrapped', pc'[Lst] # "dead", NEW x \in Status,
                        NEW s \in subscribed'[x[1]] \cap Live'
                 PROVE  x \in informed'[s] \/ Pending(s, x)' \/ ReplyDue(s, x)'
      BY Zenon DEF CaredFor
    <3>1. x \in informed[s] \/ Pending(s, x) \/ ReplyDue(s, x)
      BY <2>1, Zenon DEF CaredFor
    <3>2. Pending(s, x) => Pending(s, x)'
      BY <2>1, Zenon DEF Pending
    <3>3. ReplyDue(s, x) => ReplyDue(s, x)'
      BY <2>1, Zenon DEF ReplyDue, Answering
    <3> QED BY <2>1, <3>1, <3>2, <3>3, Zenon
  <2> QED BY <2>2, <2>3, Zenon
<1>6. CASE Remove(p)
  BY <1>6, RemoveDelivery, Zenon
<1> QED BY <1>1, <1>2, <1>3, <1>4, <1>5, <1>6, ZenonT(40) DEF NotifyWork

LEMMA MainDelivery ==
  ASSUME TypeInv, SessionInv, DeliveryInv, MainWork \/ NotifyDisconnect
  PROVE  DeliveryInv'
<1> USE ThreadFacts, StatusPair, ConstantsAssumption DEF DeliveryInv, table, thread, clients, history
<1>1. CASE NotifyDisconnect \/ MainStop
  <2>1. /\ UNCHANGED <<sessionMap, subscribed, ev, cur, todo, reply, owner, informed>>
        /\ \A u \in Thread : u # Main => pc'[u] = pc[u] /\ rm'[u] = rm[u]
        /\ rm'[Main] \in {rm[Main], Live} /\ pc'[Main] # "rmbase"
        /\ Live' = Live /\ Wrapped' = Wrapped
    BY <1>1, ZenonT(40) DEF NotifyDisconnect, MainStop, Goto, Live, Wrapped, TypeInv, TypeOK
  <2>2. \A s \in Live : owner[s] # NoClient
    BY Zenon DEF SessionInv, IdInv, Live
  <2>3. ErasedInv' /\ EmptyInv'
    BY <2>1, <2>2, SMTT(40) DEF ErasedInv, EmptyInv
  <2>4. CaredFor'
    <3> SUFFICES ASSUME ~Wrapped', pc'[Lst] # "dead", NEW x \in Status,
                        NEW s \in subscribed'[x[1]] \cap Live'
                 PROVE  x \in informed'[s] \/ Pending(s, x)' \/ ReplyDue(s, x)'
      BY Zenon DEF CaredFor
    <3>1. x \in informed[s] \/ Pending(s, x) \/ ReplyDue(s, x)
      BY <2>1, Zenon DEF CaredFor
    <3> QED BY <2>1, <3>1, Zenon DEF Pending, ReplyDue, Answering
  <2> QED BY <2>3, <2>4, Zenon
<1>2. CASE MainRemoveAll
  <2>1. /\ UNCHANGED <<subscribed, ev, cur, todo, rm, reply, owner, informed>>
        /\ \A u \in Thread : pc'[u] = "rmbase" => pc[u] = "rmbase"
        /\ Live' = {} /\ Wrapped' = Wrapped
    BY <1>2, ZenonT(40) DEF MainRemoveAll, Goto, Live, Wrapped, TypeInv, TypeOK
  <2> QED BY <2>1, Zenon DEF ErasedInv, EmptyInv, CaredFor
<1>3. CASE MainJoin \/ MainExit
  <2>1. /\ UNCHANGED <<subscribed, ev, cur, todo, rm, reply, owner, informed>>
        /\ \/ \A u \in Thread : pc'[u] = "exit"
           \/ /\ \A u \in Thread : u # Main => pc'[u] = pc[u]
              /\ pc'[Main] # "rmbase"
        /\ Live' = Live /\ Wrapped' = Wrapped
    BY <1>3, ZenonT(40) DEF MainJoin, MainExit, Goto, Live, Wrapped, TypeInv, TypeOK
  <2>2. ErasedInv' /\ EmptyInv'
    BY <2>1, Zenon DEF ErasedInv, EmptyInv
  <2>3. CaredFor'
    <3> SUFFICES ASSUME ~Wrapped', pc'[Lst] # "dead", NEW x \in Status,
                        NEW s \in subscribed'[x[1]] \cap Live'
                 PROVE  x \in informed'[s] \/ Pending(s, x)' \/ ReplyDue(s, x)'
      BY Zenon DEF CaredFor
    <3>1. CASE \A u \in Thread : pc'[u] = "exit"
      BY <2>1, <3>1, Zenon DEF Pending, EmptyInv
    <3>2. CASE \A u \in Thread : u # Main => pc'[u] = pc[u]
      <4>1. x \in informed[s] \/ Pending(s, x) \/ ReplyDue(s, x)
        BY <2>1, <3>2, Zenon DEF CaredFor
      <4> QED BY <2>1, <3>2, <4>1, Zenon DEF Pending, ReplyDue, Answering
    <3> QED BY <2>1, <3>1, <3>2, Zenon
  <2> QED BY <2>2, <2>3, Zenon
<1>4. CASE Remove(Main)
  BY <1>4, RemoveDelivery, Zenon
<1> QED BY <1>1, <1>2, <1>3, <1>4, ZenonT(40) DEF MainWork

LEMMA DeliveryInvNext == TypeInv /\ SessionInv /\ DeliveryInv /\ [Next]_vars => DeliveryInv'
<1> SUFFICES ASSUME TypeInv, SessionInv, DeliveryInv, [Next]_vars PROVE DeliveryInv'
  OBVIOUS
<1>1. CASE UNCHANGED vars
  <2> USE <1>1 DEF vars, table, thread, clients, history, DeliveryInv, Wrapped, Live
  <2>1. ErasedInv' /\ EmptyInv'
    BY ZenonT(40) DEF ErasedInv, EmptyInv
  <2>2. CaredFor'
    BY SMTT(40) DEF CaredFor, Pending, ReplyDue, Answering
  <2> QED BY <2>1, <2>2, ZenonT(40)
<1>2. CASE Next
  BY <1>2, ClientStepDelivery, ListenerDelivery, PublisherDelivery, MainDelivery, ZenonT(40) DEF Next
<1> QED BY <1>1, <1>2, Zenon

\* For any number of clients, time bases and publishers: once a publisher is
\* done and a subscriber has been answered, the subscriber was sent the current
\* status, whatever the interleaving of subscriptions, notifications and
\* removals, until ids are reused or the listener thread has died.
THEOREM NothingLost == Spec => []NoLostStatus
<1>1. DeliveryInv => NoLostStatus
  BY Zenon DEF DeliveryInv, CaredFor, NoLostStatus, AtRest, Pending, ReplyDue
<1>2. Spec => []DeliveryInv
  BY SessionInvariant, DeliveryInvInit, DeliveryInvNext, PTL DEF Spec
<1> QED BY <1>1, <1>2, PTL
=============================================================================
