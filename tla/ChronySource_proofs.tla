------------------------ MODULE ChronySource_proofs ------------------------
(***************************************************************************)
(* Proofs about ChronySource, for every set of samples and all bounds.     *)
(***************************************************************************)
EXTENDS ChronySource, TLAPS

\* The types, but for the bound on leaked sockets, which needs the socket the next
\* open will forget.
Types ==
  /\ up \in BOOLEAN /\ sample \in Sample \cup {NoSample}
  /\ asked \in BOOLEAN
  /\ reply \in SUBSET (Sample \cup {NoSample})
  /\ change \in 0 .. MaxChange /\ ends \in 0 .. MaxEnd
  /\ pc \in {"start", "subscribe", "request", "wait", "process", "publish", "copy",
             "failed", "closed", "clear", "reconnect", "open", "sleep", "done", "joined"}
  /\ chronyFd \in BOOLEAN /\ peer \in BOOLEAN /\ session \in BOOLEAN
  /\ fields \in Sample \cup {NoSample} /\ stored \in Sample \cup {NoSample}
  /\ stopThread \in BOOLEAN

\* A socket that is open when the thread is about to open another one was left by
\* a failure of chrony_init_session, which has made room for it.  A thread that
\* starts has published nothing.
Sockets ==
  /\ leaked \in 0 .. MaxLeak
  /\ pc = "start" => ~chronyFd /\ ~session /\ stored = NoSample
  /\ pc \in {"closed", "clear"} => ~chronyFd
  /\ pc \in {"closed", "clear", "reconnect", "open"} => ~session
  /\ pc \in {"reconnect", "open"} /\ chronyFd => leaked < MaxLeak

\* A thread that reconnects has published the loss.
LostIsEmpty == pc \in {"reconnect", "open"} => stored = NoSample

\* The inductive invariant.
IInv == Types /\ Sockets /\ SessionHasSocket /\ LostIsEmpty

LEMMA InitIInv == Init => IInv
<1> SUFFICES ASSUME Init PROVE IInv
  OBVIOUS
<1>1. Types
  <2>1. change \in 0 .. MaxChange /\ ends \in 0 .. MaxEnd
    BY ConstantsAssumption DEF Init
  <2>2. reply \in SUBSET (Sample \cup {NoSample})
    BY DEF Init
  <2> QED
    BY <2>1, <2>2, Zenon DEF Init, Types
<1>2. Sockets
  BY ConstantsAssumption DEF Init, Sockets
<1>3. SessionHasSocket /\ LostIsEmpty
  BY SMTT(40) DEF Init, SessionHasSocket, LostIsEmpty
<1> QED
  BY <1>1, <1>2, <1>3 DEF IInv

LEMMA NextIInv == IInv /\ [Next]_vars => IInv'
<1> SUFFICES ASSUME IInv, [Next]_vars PROVE IInv'
  OBVIOUS
<1> USE ConstantsAssumption
        DEF IInv, Types, Sockets, SessionHasSocket, LostIsEmpty, chronyd
<1>1. ASSUME NEW s \in Sample \cup {NoSample}, SampleChange(s) PROVE IInv'
  BY <1>1 DEF SampleChange
<1>2. CASE Answer
  BY <1>2, ZenonT(40) DEF Answer
<1>3. CASE Start
  BY <1>3 DEF Start
<1>4. CASE End
  <2>1. Types'
    <3>1. ends' \in 0 .. MaxEnd
      BY <1>4 DEF End
    <3> QED
      BY <1>4, <3>1, Zenon DEF End
  <2>2. Sockets'
    BY <1>4 DEF End
  <2>3. SessionHasSocket' /\ LostIsEmpty'
    BY <1>4 DEF End
  <2> QED
    BY <2>1, <2>2, <2>3
<1>5. CASE Stop
  BY <1>5 DEF Stop
<1>6. CASE ThreadStarts
  <2>1. leaked' = leaked /\ chronyFd' = up /\ peer' = up
    BY <1>6 DEF ThreadStarts, chrony_open_socket
  <2>2. session' \in BOOLEAN /\ (session' => up)
    BY <1>6 DEF ThreadStarts, chrony_init_session
  <2>3. Types'
    <3>1. chronyFd' \in BOOLEAN /\ peer' \in BOOLEAN
      BY <2>1
    <3>2. pc' = "subscribe" /\ UNCHANGED <<chronyd, asked, reply, fields, stored, stopThread>>
      BY <1>6 DEF ThreadStarts
    <3> QED
      BY <2>2, <3>1, <3>2
  <2>4. pc' = "subscribe" /\ UNCHANGED <<up, fields, stored>>
    BY <1>6 DEF ThreadStarts
  <2>5. Sockets'
    BY <2>1, <2>4
  <2>6. SessionHasSocket'
    BY <2>1, <2>2, <2>4
  <2>7. LostIsEmpty'
    BY <1>6, <2>4 DEF ThreadStarts
  <2> QED
    BY <2>3, <2>5, <2>6, <2>7
<1>7. CASE ThreadEnds
  BY <1>7 DEF ThreadEnds
<1>8. CASE subscribe_to_chronyd
  BY <1>8 DEF subscribe_to_chronyd
<1>9. CASE process_chronyd_data
  BY <1>9 DEF process_chronyd_data
<1>10. CASE Publish
  BY <1>10 DEF Publish
<1>11. CASE Failed
  BY <1>11 DEF Failed, close
<1>12. CASE Reconnect
  BY <1>12 DEF Reconnect, chrony_open_socket, chrony_init_session
<1>13. CASE Clear
  BY <1>13 DEF Clear
<1>16. CASE GoOn
  <2>1. /\ UNCHANGED <<chronyd, asked, reply, chronyFd, peer, session, leaked, fields,
                       stored, stopThread>>
        /\ \/ pc = "subscribe" /\ pc' = "request"
           \/ pc = "wait" /\ pc' = "process"
           \/ pc = "publish" /\ pc' = "copy"
           \/ pc = "closed" /\ pc' = "clear"
           \/ pc = "reconnect" /\ pc' = "open"
           \/ pc = "sleep" /\ pc' = "subscribe"
    BY <1>16 DEF GoOn, Tested
  <2> QED
    BY <2>1
<1>14. CASE finalize
  BY <1>14 DEF finalize, close
<1>15. CASE UNCHANGED vars
  BY <1>15 DEF vars
<1> QED
  BY <1>1, <1>2, <1>3, <1>4, <1>5, <1>6, <1>7, <1>8, <1>9, <1>10, <1>11, <1>12, <1>13,
     <1>14, <1>15, <1>16 DEF Next, Daemon, Thread

LEMMA Invariant == Spec => []IInv
  BY InitIInv, NextIInv, PTL DEF Spec

\* The types, and that sockets are lost only where chrony_init_session fails.
THEOREM TypeCorrect == Spec => []TypeOK
<1>1. IInv => TypeOK
  BY DEF IInv, Types, Sockets, TypeOK
<1> QED
  BY <1>1, Invariant, PTL

\* libchrony is only given sessions with an open socket.
THEOREM SessionsAreOpen == Spec => []SessionHasSocket
<1>1. IInv => SessionHasSocket
  BY DEF IInv
<1> QED
  BY <1>1, Invariant, PTL

\* Every step of the thread and of chronyd is one of a time source, or none.
LEMMA StepIsSource ==
  ASSUME IInv, [Next]_vars PROVE [Source!Next]_(Source!vars)
<1> USE DEF IInv, Types, LostIsEmpty, chronyd, known, lost, phase
<1>1. CASE Daemon \/ UNCHANGED vars
  <2>1. UNCHANGED <<pc, fields, stored, stopThread>>
    BY <1>1 DEF Daemon, SampleChange, Answer, Start, End, vars
  <2> QED
    BY <2>1 DEF Source!vars
<1>2. CASE Stop
  <2>1. UNCHANGED <<pc, fields, stored>> /\ ~stopThread /\ stopThread'
    BY <1>2 DEF Stop
  <2>2. CASE pc \in {"done", "joined"}
    BY <2>1, <2>2 DEF Source!vars
  <2>3. CASE pc \notin {"done", "joined"}
    <3>1. Source!Stop
      BY <2>1, <2>3 DEF Source!Stop
    <3> QED
      BY <3>1 DEF Source!Next
  <2> QED
    BY <2>2, <2>3
<1>3. CASE ThreadStarts \/ GoOn \/ Failed \/ finalize
  <2>1. /\ UNCHANGED <<fields, stored, stopThread>>
        /\ \/ pc = "start" /\ pc' = "subscribe"
           \/ pc = "failed" /\ pc' = "closed"
           \/ pc = "done" /\ pc' = "joined"
           \/ /\ ~stopThread
              /\ \/ pc = "subscribe" /\ pc' = "request"
                 \/ pc = "wait" /\ pc' = "process"
                 \/ pc = "publish" /\ pc' = "copy"
                 \/ pc = "closed" /\ pc' = "clear"
                 \/ pc = "reconnect" /\ pc' = "open"
                 \/ pc = "sleep" /\ pc' = "subscribe"
    BY <1>3 DEF ThreadStarts, GoOn, Tested, Failed, finalize
  <2> QED
    BY <2>1 DEF Source!vars
<1>4. CASE ThreadEnds
  <2>1. /\ pc \in {"subscribe", "wait", "publish", "closed", "reconnect", "sleep"}
        /\ pc' = "done" /\ stopThread /\ UNCHANGED <<fields, stored, stopThread>>
    BY <1>4 DEF ThreadEnds
  <2>2. Source!End
    BY <2>1 DEF Source!End
  <2> QED
    BY <2>2 DEF Source!Next
<1>5. CASE subscribe_to_chronyd
  <2>1. pc = "request" /\ UNCHANGED <<fields, stored, stopThread>>
    BY <1>5 DEF subscribe_to_chronyd
  <2>2. CASE pc' = "failed"
    <3>1. Source!Lose
      BY <2>1, <2>2 DEF Source!Lose, Source!Step
    <3> QED
      BY <3>1 DEF Source!Next
  <2>3. CASE pc' = "wait"
    <3>1. CASE stopThread
      BY <2>1, <2>3, <3>1 DEF Source!Skip, Source!Next
    <3>2. CASE ~stopThread
      BY <2>1, <2>3, <3>2 DEF Source!vars
    <3> QED
      BY <3>1, <3>2
  <2> QED
    BY <1>5, <2>2, <2>3 DEF subscribe_to_chronyd
<1>6. CASE process_chronyd_data
  <2>1. /\ pc = "process" /\ UNCHANGED <<stored, stopThread>>
        /\ fields' \in Sample \cup {NoSample}
    BY <1>6 DEF process_chronyd_data
  <2>2. CASE pc' = "failed"
    <3>1. Source!Lose
      BY <2>1, <2>2 DEF Source!Lose, Source!Step
    <3> QED
      BY <3>1 DEF Source!Next
  <2>3. CASE pc' = "publish"
    <3>1. Source!Learn(fields')
      BY <2>1, <2>3 DEF Source!Learn, Source!Step
    <3> QED
      BY <2>1, <3>1 DEF Source!Next
  <2> QED
    BY <1>6, <2>2, <2>3 DEF process_chronyd_data
<1>7. CASE Publish
  <2>1. /\ pc = "copy" /\ pc' = "sleep" /\ stored' = fields
        /\ UNCHANGED <<fields, stopThread>>
    BY <1>7 DEF Publish
  <2>2. Source!Tell
    BY <2>1 DEF Source!Tell, Source!Step
  <2> QED
    BY <2>2 DEF Source!Next
<1>8. CASE Clear
  <2>1. /\ pc = "clear" /\ pc' = "reconnect" /\ stored' = NoSample
        /\ UNCHANGED <<fields, stopThread>>
    BY <1>8 DEF Clear
  <2>2. Source!Tell
    BY <2>1 DEF Source!Tell, Source!Step
  <2> QED
    BY <2>2 DEF Source!Next
<1>9. CASE Reconnect
  <2>1. /\ pc = "open" /\ UNCHANGED <<fields, stored, stopThread>>
        /\ stored = NoSample
    BY <1>9 DEF Reconnect
  <2>2. CASE pc' = "sleep"
    <3>1. Source!Regain
      BY <2>1, <2>2 DEF Source!Regain, Source!Step
    <3> QED
      BY <3>1 DEF Source!Next
  <2>3. CASE pc' = "reconnect"
    <3>1. CASE stopThread
      BY <2>1, <2>3, <3>1 DEF Source!Skip, Source!Next
    <3>2. CASE ~stopThread
      BY <2>1, <2>3, <3>2 DEF Source!vars
    <3> QED
      BY <3>1, <3>2
  <2>4. pc' \in {"sleep", "reconnect"}
    BY <1>9 DEF Reconnect
  <2> QED
    BY <2>2, <2>3, <2>4
<1> QED
  BY <1>1, <1>2, <1>3, <1>4, <1>5, <1>6, <1>7, <1>8, <1>9 DEF Next, Thread

\* The thread implements TimeSource: each sample is told before the next is taken,
\* a failure before chronyd is asked again, and wherever stopThread is set the thread
\* takes, tells or loses at most one thing more.
THEOREM ImplementsTimeSource == Spec => IsTimeSource
<1>1. Init => Source!Init
  BY DEF Init, known, lost, phase, Source!Init
<1>2. IInv /\ [Next]_vars => [Source!Next]_(Source!vars)
  BY StepIsSource
<1> QED
  BY <1>1, <1>2, Invariant, PTL DEF Spec, IsTimeSource, Source!Spec

============================================================================
