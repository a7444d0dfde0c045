---------------------------- MODULE ChronySource ----------------------------
(***************************************************************************)
(* The proxy's thread for one chronyd (clkmgr/proxy/connect_chrony.cpp):   *)
(* it asks chronyd for its first source, publishes the answer (copy() and  *)
(* notifyClients, whose round is the subject of ProxyClients), sleeps and  *)
(* asks again; on any error it publishes an empty status and connects      *)
(* again.                                                                  *)
(*                                                                         *)
(* chronyd and libchrony are the environment.  A sample stands for the     *)
(* source's reference ID, poll interval and offset, which are read and     *)
(* published together; NoSample for a chronyd without source, which        *)
(* libchrony answers with an error, and for the empty chrony_event.  Time, *)
(* and so the length of a sleep, is left out.                              *)
(***************************************************************************)
EXTENDS Naturals

CONSTANTS
  Sample, NoSample,  \* what chronyd can say of its source; nothing
  InitMayFail,       \* whether chrony_init_session can fail
  MaxLeak,           \* bound: sockets lost by chrony_init_session's failures
  MaxChange,         \* bound: changes of chronyd's source
  MaxEnd             \* bound: times chronyd ends

ASSUME ConstantsAssumption ==
  /\ NoSample \notin Sample
  /\ InitMayFail \in BOOLEAN
  /\ MaxLeak \in Nat /\ MaxChange \in Nat /\ MaxEnd \in Nat

VARIABLES
  up, sample,     \* chronyd: whether it runs, and its source
  asked,          \* a request is on its way to chronyd
  reply,          \* the replies on their way to the thread: none or one
  change, ends,   \* changes and ends so far: bound the model
  pc,             \* the thread
  chronyFd,       \* the descriptor is open
  peer,           \* its peer is the chronyd that runs now
  session,        \* session # nullptr
  leaked,         \* sockets that are open and that nothing refers to
  fields,         \* the record received last, in the session
  stored,         \* timeBaseDataMap's chronyEvent, which clients are sent
  stopThread

chronyd == <<up, sample, change, ends>>
vars == <<chronyd, asked, reply, pc, chronyFd, peer, session, leaked, fields, stored,
          stopThread>>

---------------------------------------------------------------------------
(* chronyd, and the main thread's stop *)

SampleChange(s) ==
  /\ up /\ change < MaxChange /\ s # sample
  /\ sample' = s /\ change' = change + 1
  /\ UNCHANGED <<up, ends, asked, reply, pc, chronyFd, peer, session, leaked, fields,
                 stored, stopThread>>

Answer ==
  /\ up /\ asked
  /\ asked' = FALSE /\ reply' = {sample}
  /\ UNCHANGED <<chronyd, pc, chronyFd, peer, session, leaked, fields, stored, stopThread>>

Start ==
  /\ ~up /\ up' = TRUE
  /\ UNCHANGED <<sample, change, ends, asked, reply, pc, chronyFd, peer, session, leaked,
                 fields, stored, stopThread>>

\* The request chronyd has not answered is lost, and nobody tells the sender:
\* the sockets are datagram sockets.
End ==
  /\ up /\ ends < MaxEnd
  /\ up' = FALSE /\ ends' = ends + 1
  /\ asked' = FALSE /\ peer' = FALSE
  /\ UNCHANGED <<sample, change, reply, pc, chronyFd, session, leaked, fields, stored,
                 stopThread>>

\* ConnectSrv::stop.
Stop ==
  /\ ~stopThread /\ stopThread' = TRUE
  /\ UNCHANGED <<chronyd, asked, reply, pc, chronyFd, peer, session, leaked, fields,
                 stored>>

---------------------------------------------------------------------------
(* The thread *)

\* chrony_open_socket: a descriptor that is still open is forgotten.
chrony_open_socket ==
  /\ leaked' = IF chronyFd THEN leaked + 1 ELSE leaked
  /\ chronyFd' = up /\ peer' = up

\* chrony_init_session, of an open socket.
chrony_init_session(ok) ==
  /\ up
  /\ ok \/ (InitMayFail /\ leaked' < MaxLeak)
  /\ session' = ok

\* Mutant: close leaves the session, whose socket is gone.
closeKeepsSession ==
  /\ chronyFd' = FALSE /\ peer' = FALSE
  /\ UNCHANGED session

close == chronyFd' = FALSE /\ peer' = FALSE /\ session' = FALSE

\* thread_loop before its loop.
ThreadStarts ==
  /\ pc = "start" /\ pc' = "subscribe"
  /\ chrony_open_socket
  /\ (\E ok \in BOOLEAN : chrony_init_session(ok)) \/ (~up /\ UNCHANGED session)
  /\ UNCHANGED <<chronyd, asked, reply, fields, stored, stopThread>>

\* Mutant: no test of stopThread in the loop that waits for chronyd's answer.
ThreadEndsNotWaiting ==
  /\ stopThread /\ pc \in {"subscribe", "publish", "closed", "reconnect", "sleep"}
  /\ pc' = "done"
  /\ UNCHANGED <<chronyd, asked, reply, chronyFd, peer, session, leaked, fields, stored,
                 stopThread>>

\* stopThread ends every loop of the thread; poll's timeouts come here, too.
ThreadEnds ==
  /\ stopThread /\ pc \in {"subscribe", "wait", "publish", "closed", "reconnect", "sleep"}
  /\ pc' = "done"
  /\ UNCHANGED <<chronyd, asked, reply, chronyFd, peer, session, leaked, fields, stored,
                 stopThread>>

\* Where the thread is once a test of stopThread has let it pass; what follows the
\* test is a step of its own, as the main thread may stop it in between.  The sleep
\* between two requests is part of the test after it.
Tested ==
  [subscribe |-> "request", wait |-> "process", publish |-> "copy", closed |-> "clear",
   reconnect |-> "open", sleep |-> "subscribe"]

\* poll returns with a reply: a test without one leads back to poll.
GoOn ==
  /\ pc \in DOMAIN Tested /\ ~stopThread
  /\ pc = "wait" => reply # {}
  /\ pc' = Tested[pc]
  /\ UNCHANGED <<chronyd, asked, reply, chronyFd, peer, session, leaked, fields, stored,
                 stopThread>>

\* subscribe_to_chronyd up to the request.
subscribe_to_chronyd ==
  /\ pc = "request"
  /\ \/ ~(session /\ peer) /\ pc' = "failed" /\ UNCHANGED asked
     \/ (session /\ peer) /\ pc' = "wait" /\ asked' = TRUE
  /\ UNCHANGED <<chronyd, reply, chronyFd, peer, session, leaked, fields, stored,
                 stopThread>>

\* process_chronyd_data: nothing but a reply or stopThread ends it.
process_chronyd_data ==
  /\ pc = "process"
  /\ \E r \in reply :
       /\ fields' = r
       /\ pc' = IF r = NoSample THEN "failed" ELSE "publish"
  /\ reply' = {}
  /\ UNCHANGED <<chronyd, asked, chronyFd, peer, session, leaked, stored, stopThread>>

\* The rest of subscribe_to_chronyd.
Publish ==
  /\ pc = "copy" /\ pc' = "sleep"
  /\ stored' = fields
  /\ UNCHANGED <<chronyd, asked, reply, chronyFd, peer, session, leaked, fields,
                 stopThread>>

\* Mutant: the session that failed is freed, its socket stays open.
FailedNotClosed ==
  /\ pc = "failed" /\ pc' = "closed"
  /\ session' = FALSE
  /\ UNCHANGED <<chronyd, asked, reply, chronyFd, peer, leaked, fields, stored, stopThread>>

\* thread_loop after an error: close, and unless stopped clear and notify.
Failed ==
  /\ pc = "failed" /\ pc' = "closed"
  /\ close
  /\ UNCHANGED <<chronyd, asked, reply, leaked, fields, stored, stopThread>>

\* Mutant: the last sample stays published.
ClearKept ==
  /\ pc = "clear" /\ pc' = "reconnect"
  /\ UNCHANGED <<chronyd, asked, reply, chronyFd, peer, session, leaked, fields, stored,
                 stopThread>>

Clear ==
  /\ pc = "clear" /\ pc' = "reconnect"
  /\ stored' = NoSample
  /\ UNCHANGED <<chronyd, asked, reply, chronyFd, peer, session, leaked, fields,
                 stopThread>>

\* Mutant: a failed open ends the loop, too.
ReconnectOnce ==
  /\ pc = "open"
  /\ chrony_open_socket
  /\ \/ ~up /\ pc' = "done" /\ UNCHANGED session
     \/ \E ok \in BOOLEAN : /\ chrony_init_session(ok)
                            /\ pc' = IF ok THEN "sleep" ELSE "reconnect"
  /\ UNCHANGED <<chronyd, asked, reply, fields, stored, stopThread>>

\* One round of the reconnection loop.
Reconnect ==
  /\ pc = "open"
  /\ chrony_open_socket
  /\ \/ ~up /\ pc' = "reconnect" /\ UNCHANGED session
     \/ \E ok \in BOOLEAN : /\ chrony_init_session(ok)
                            /\ pc' = IF ok THEN "sleep" ELSE "reconnect"
  /\ UNCHANGED <<chronyd, asked, reply, fields, stored, stopThread>>

\* ConnectSrv::finalize: join, then close_all.
finalize ==
  /\ pc = "done" /\ pc' = "joined"
  /\ close
  /\ UNCHANGED <<chronyd, asked, reply, leaked, fields, stored, stopThread>>

---------------------------------------------------------------------------

Init ==
  /\ up \in BOOLEAN /\ sample \in Sample \cup {NoSample}
  /\ asked = FALSE /\ reply = {} /\ change = 0 /\ ends = 0
  /\ pc = "start"
  /\ chronyFd = FALSE /\ peer = FALSE /\ session = FALSE /\ leaked = 0
  /\ fields = NoSample /\ stored = NoSample
  /\ stopThread = FALSE

Daemon == (\E s \in Sample \cup {NoSample} : SampleChange(s)) \/ Answer \/ Start \/ End

Thread ==
  \/ ThreadStarts \/ ThreadEnds \/ GoOn \/ subscribe_to_chronyd
  \/ process_chronyd_data \/ Publish \/ Failed \/ Clear \/ Reconnect

Next == Daemon \/ Stop \/ Thread \/ finalize

Spec == Init /\ [][Next]_vars

\* The thread and the join run, and a chronyd that runs answers.
FairSpec == Spec /\ WF_vars(Thread) /\ WF_vars(finalize) /\ WF_vars(Answer)

---------------------------------------------------------------------------
(* Properties *)

\* Types of ChronyThreadSet's members and of what is on its way.
TypeOK ==
  /\ up \in BOOLEAN /\ sample \in Sample \cup {NoSample}
  /\ asked \in BOOLEAN
  /\ reply \in SUBSET (Sample \cup {NoSample})
  /\ change \in 0 .. MaxChange /\ ends \in 0 .. MaxEnd
  /\ pc \in {"start", "subscribe", "request", "wait", "process", "publish", "copy",
             "failed", "closed", "clear", "reconnect", "open", "sleep", "done", "joined"}
  /\ chronyFd \in BOOLEAN /\ peer \in BOOLEAN /\ session \in BOOLEAN
  /\ leaked \in 0 .. MaxLeak
  /\ fields \in Sample \cup {NoSample} /\ stored \in Sample \cup {NoSample}
  /\ stopThread \in BOOLEAN

\* A session is only used with its socket: after any sequence of failures, closes
\* and reconnections libchrony is never handed a session whose descriptor is
\* closed, nor asked about no session at all.
SessionHasSocket ==
  /\ session => chronyFd
  /\ pc \in {"wait", "process", "publish", "copy"} => session
  /\ peer => up

lost == pc \in {"failed", "closed", "clear", "reconnect", "open"}

\* What the thread is about to publish, or has published.
known == IF pc \in {"publish", "copy"} THEN fields ELSE IF lost THEN NoSample ELSE stored

phase ==
  IF pc \in {"done", "joined"} THEN "ended"
  ELSE IF ~stopThread THEN "running"
  ELSE IF pc \in {"request", "process", "copy", "clear", "open"} THEN "last"
  ELSE "stopping"

Source == INSTANCE TimeSource WITH
  Data <- Sample \cup {NoSample}, Empty <- NoSample, told <- stored

\* The thread is a time source: every sample is told before the next one is taken,
\* a failure is published before chronyd is asked again, whatever fails in between,
\* and a thread that is asked to end takes or publishes at most the sample it is
\* about to (thread_loop, subscribe_to_chronyd).
IsTimeSource == Source!Spec

\* The thread waits for a reply that is not on its way.
ReplyLost == pc = "wait" /\ ~asked /\ reply = {}

\* What is published follows chronyd through failures, reconnections and restarts:
\* once chronyd runs for good it is, in the end, what chronyd says, unless a reply
\* was lost (process_chronyd_data then waits on, whatever poll returns).
StatusFollows ==
  <>[](up /\ ~stopThread) => <>[](stored = sample) \/ <>[]ReplyLost

\* HLD_clkmgr.md: the proxy communicates with the daemons "to obtain their latest
\* synchronization status": also after chronyd was restarted.
StatusIsLatest == <>[](up /\ ~stopThread) => <>[](stored = sample)

\* The thread ends when it is asked to, and is joined: every wait tests stopThread.
StopEnds == stopThread ~> pc = "joined"

\* connect_srv.hpp, finalize: "wait till all threads ends / Then close all
\* sockets and clean the list".
AllClosed == pc = "joined" => ~chronyFd /\ ~session /\ leaked = 0

============================================================================
