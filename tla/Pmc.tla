-------------------------------- MODULE Pmc --------------------------------
(***************************************************************************)
(* The tool pmc: it sends management messages to the clocks of a network   *)
(* (or to ptp4l over a UNIX domain socket) and shows what it receives.     *)
(*                                                                         *)
(* It works in one of three modes: batch, where it sends the commands of   *)
(* its command line and then waits for as many answers; uds, where it waits*)
(* for an answer after each line it reads; and net, where it polls its     *)
(* input and the socket.  A batch may use either kind of socket.  Requests *)
(* and answers may be lost, duplicated, delayed and reordered.             *)
(***************************************************************************)
EXTENDS MessageParse

CONSTANTS
    Commands,      \* the commands that are given: <<action, id>>
    MaxCommands,   \* bound: the number of commands
    MaxInbox,      \* bound: datagrams waiting in the socket
    MaxNoise,      \* bound: datagrams that are not answers
    Wait,          \* wait, in units of time
    Auths          \* the authentication TLVs of the datagrams

ASSUME WaitAssumption == Wait \in Nat \ {0}
ASSUME BoundsAssumption == MaxCommands \in Nat /\ MaxInbox \in Nat
ASSUME CommandsAssumption == Commands \subseteq Actions \X MngIds
ASSUME AuthsAssumption ==
    Auths \subseteq {"none", "unknownKey", "unsupported", "wrong", "good"}

VARIABLES
    mode, use_uds,
    allow,         \* obj.allow_unauth()
    p,             \* the parameters of the Message for parse
    pc,
    commands,      \* commands taken so far
    pkts,          \* answers to wait for
    timeout,
    msg,           \* the send half of the Message
    rx,            \* its receive half
    built,         \* what the last step built: the data read, the builder
    requests,      \* requests that may still be answered
    inbox,         \* datagrams in the socket, in order
    noise,         \* datagrams sent so far that are not answers
    shown          \* what the last step showed, and for which datagram

vars == <<mode, use_uds, allow, p, pc, commands, pkts, timeout, msg, rx,
          built, requests, inbox, noise, shown>>
config == <<mode, use_uds, allow, p>>
network == <<requests, inbox, noise>>

Nothing == [kind |-> "none", content |-> NoTlv]
NotShown == [what |-> Nothing, of |-> Nothing]
NotBuilt == [reads |-> NoObject, by |-> NoObject]

(* A step that neither builds a message nor shows one.                     *)
Quiet == built' = NotBuilt /\ shown' = NotShown

(* main, after process.                                                    *)
Init ==
    /\ mode \in {"batch", "uds", "net"}
    /\ use_uds \in BOOLEAN /\ (mode # "batch" => use_uds = (mode = "uds"))
    /\ \E haveAuth \in BOOLEAN :
         /\ allow \in IF haveAuth THEN 0..2 ELSE {0}
         /\ p = [haveAuth |-> haveAuth, ignore |-> allow > 0,
                 rcvSignaling |-> mode = "net"]
    /\ pc = "read"
    /\ commands = 0 /\ pkts = 0 /\ timeout = 0
    /\ msg = NewMessage(TRUE, FALSE, 0)
    /\ rx = NewRx
    /\ built = NotBuilt
    /\ requests = {} /\ inbox = <<>> /\ noise = 0
    /\ shown = NotShown

-----------------------------------------------------------------------------
(* Sending.                                                                *)

(* The TLV object of the builder of the current command.                   *)
TlvObject == IF commands % 2 = 0 THEN "tlv0" ELSE "tlv1"

(* MessageBuilder::buildTlv; values is FALSE when the values of the        *)
(* command cannot be parsed.                                               *)
buildTlv(action, id, values) ==
    IF action = "GET" \/ isEmpty(id) THEN CanSetAction(msg, action, id, NoData)
    ELSE values /\ CanSetAction(msg, action, id, [id |-> id, v |-> <<>>])

(* Mutant of call_data: the message is built even after buildTlv failed.   *)
call_data_always(action, id, values, sent) ==
    /\ msg' = IF buildTlv(action, id, values)
              THEN setAction(msg, action, id, TlvObject) ELSE msg
    /\ built' = [reads |-> msg'.dataSend, by |-> TlvObject]
    /\ requests' = IF sent THEN requests \union {<<action, id>>} ELSE requests

(* call_data and sendAction, up to the request on the network.  The builder*)
(* and its TLV are gone when it returns.                                   *)
call_data(action, id, values, sent) ==
    IF buildTlv(action, id, values)
    THEN /\ msg' = setAction(msg, action, id, TlvObject)
         /\ built' = [reads |-> msg'.dataSend, by |-> TlvObject]
         /\ requests' = IF sent THEN requests \union {<<action, id>>}
                        ELSE requests
    ELSE built' = NotBuilt /\ UNCHANGED <<msg, requests>>

(* run_line: a command is sent, or not.  In batch mode the answers are     *)
(* only counted; with a UDS socket the answer is waited for at once.       *)
run_line(action, id, values, sent) ==
    LET ok == buildTlv(action, id, values) /\ sent
    IN  /\ pc = "read" /\ commands < MaxCommands
        /\ mode = "net" => inbox = <<>>
        /\ commands' = commands + 1
        /\ call_data(action, id, values, sent)
        /\ pkts' = IF ok /\ mode # "net" THEN pkts + 1 ELSE pkts
        /\ pc' = IF ok /\ mode = "uds" THEN "wait" ELSE pc
        /\ timeout' = IF ok /\ mode = "uds" THEN Wait ELSE timeout
        /\ shown' = NotShown
        /\ UNCHANGED <<config, rx, inbox, noise>>

(* Mutant of end_of_input: a batch waits even when nothing was sent.       *)
end_of_input_waits ==
    /\ pc = "read"
    /\ mode = "net" => inbox = <<>>
    /\ pc' = IF mode = "batch" THEN "wait" ELSE "done"
    /\ timeout' = IF pc' = "wait" THEN Wait ELSE timeout
    /\ Quiet
    /\ UNCHANGED <<config, commands, pkts, msg, rx, network>>

(* There are no more commands.                                             *)
end_of_input ==
    /\ pc = "read"
    /\ mode = "net" => inbox = <<>>
    /\ pc' = IF mode = "batch" /\ pkts > 0 THEN "wait" ELSE "done"
    /\ timeout' = IF pc' = "wait" THEN Wait ELSE timeout
    /\ Quiet
    /\ UNCHANGED <<config, commands, pkts, msg, rx, network>>

-----------------------------------------------------------------------------
(* Receiving.                                                              *)

ShowData(r) == [kind |-> "data", content |-> Dispatched(r)]
ShowError(r) == [kind |-> "error", content |-> r.display]
ShowSig(r) == [kind |-> "sig", content |-> Traversed(r)]

(* Mutant of Tolerates: any error is tolerated by any mode but 0.          *)
Tolerates_any(err) == allow > 0

(* The authentication errors that allow_unauth tolerates.                  *)
Tolerates(err) ==
    allow > (IF err \in {"AUTH", "AUTH_NOKEY", "AUTH_WRONG"} THEN 1 ELSE 0)

(* rcv, of one datagram: what it shows and its result.                     *)
rcv(err, r) ==
    LET skip == err \in {"ACTION", "HEADER"} /\ ~use_uds
        tolerated == /\ err \in {"ACTION", "HEADER", "AUTH_NONE", "AUTH",
                                 "AUTH_NOKEY", "AUTH_WRONG"}
                     /\ Tolerates(err)
    IN  CASE err = "OK" -> [show |-> ShowData(r), ret |-> 0]
          [] err = "MSG" -> [show |-> ShowError(r), ret |-> -1]
          [] err = "SIG" -> [show |-> ShowSig(r), ret |-> 1]
          [] skip -> [show |-> Nothing, ret |-> 1]
          [] ~skip /\ tolerated /\ r.type = "Signaling" ->
               [show |-> ShowSig(r), ret |-> 1]
          [] ~skip /\ tolerated /\ r.type = "Management" /\
             r.mngType = "MANAGEMENT" -> [show |-> ShowData(r), ret |-> 0]
          [] ~skip /\ tolerated /\ r.type = "Management" /\
             r.mngType = "MANAGEMENT_ERROR_STATUS" ->
               [show |-> ShowError(r), ret |-> -1]
          [] OTHER -> [show |-> Nothing, ret |-> -1]

(* The first datagram of the socket is taken, parsed and shown.            *)
Parsed == parse(p, rx, Head(inbox))
Result == rcv(Parsed.err, Parsed.rx)

Receive ==
    /\ inbox' = Tail(inbox)
    /\ rx' = Parsed.rx
    /\ shown' = [what |-> Result.show,
                 of |-> IF Result.show = Nothing THEN Nothing ELSE Head(inbox)]
    /\ built' = NotBuilt
    /\ UNCHANGED <<config, commands, msg, requests, noise>>

(* rcv_timeout returns: to the next answer of the batch, to the next line, *)
(* or to the end.                                                          *)
rcv_done ==
    /\ pkts' = pkts - 1
    /\ pc' = IF mode = "uds" THEN "read"
             ELSE IF pkts' > 0 THEN "wait" ELSE "done"
    /\ timeout' = IF pc' = "wait" THEN Wait ELSE 0

(* Mutant of rcv_turn: the loop does not look at the time that is left.    *)
rcv_turn_noLimit(left) ==
    /\ pc = "wait" /\ inbox # <<>> /\ left <= timeout
    /\ Receive
    /\ IF Result.ret = 1 THEN timeout' = left /\ UNCHANGED <<pc, pkts>>
       ELSE rcv_done

(* A turn of the loop of rcv_timeout: tpoll finds a datagram, with left of *)
(* the time remaining.                                                     *)
rcv_turn(left) ==
    /\ pc = "wait" /\ inbox # <<>> /\ left <= timeout
    /\ Receive
    /\ IF Result.ret = 1 /\ left > 0
       THEN timeout' = left /\ UNCHANGED <<pc, pkts>>
       ELSE rcv_done

(* tpoll finds nothing until the time is over.  A time of 0 means for ever.*)
tpoll_expires ==
    /\ pc = "wait" /\ timeout > 0
    /\ inbox = <<>>
    /\ rcv_done
    /\ Quiet
    /\ UNCHANGED <<config, commands, msg, rx, network>>

(* The socket fails: rcv returns -1.                                       *)
rcv_fails ==
    /\ pc = "wait" /\ inbox # <<>>
    /\ inbox' = Tail(inbox)
    /\ rcv_done
    /\ Quiet
    /\ UNCHANGED <<config, commands, msg, rx, requests, noise>>

(* A datagram in net mode.                                                 *)
net_rcv ==
    /\ pc = "read" /\ mode = "net" /\ inbox # <<>>
    /\ Receive
    /\ UNCHANGED <<pc, pkts, timeout>>

(* SIGTERM, SIGINT, SIGQUIT or SIGHUP: the socket is closed.               *)
handle_sig ==
    /\ pc # "done"
    /\ pc' = "done"
    /\ inbox' = <<>> /\ requests' = {} /\ rx' = NewRx
    /\ Quiet
    /\ UNCHANGED <<config, commands, pkts, timeout, msg, noise>>

-----------------------------------------------------------------------------
(* The clocks, external: what well-formed peers send.                      *)

Datagram(type, action, tlv, id, v, auth) ==
    [type |-> type, defect |-> "none", action |-> action, tlv |-> tlv,
     id |-> id, v |-> v, sigs |-> <<>>, auth |-> auth]

(* The answers to a request: a dataField, which is empty for an id without *)
(* data and for a list without entries, or an error with or without text.  *)
Answers(action, id, auth) ==
    LET reply == IF action = "COMMAND" THEN "ACKNOWLEDGE" ELSE "RESPONSE"
        data == IF isEmpty(id) THEN {NoTlv}
                ELSE IF id = "PATH_TRACE_LIST" THEN {NoTlv, "data"}
                ELSE {"data"}
    IN  {Datagram("Management", reply, "MANAGEMENT", id, v, auth) : v \in data}
        \union
        {Datagram("Management", reply, "MANAGEMENT_ERROR_STATUS", id, v, auth) :
           v \in {NoTlv, "text"}}

(* What else a network has: event messages, requests and commands of other *)
(* managers, other versions of PTP, and signaling messages.  The switch of *)
(* rcv is ready for any of them on either socket.                          *)
Noise(auth) ==
    LET request(action) == Datagram("Management", action, "MANAGEMENT",
                                    "PRIORITY1", NoTlv, auth)
    IN  {Datagram("Announce", "GET", NoTlv, "PRIORITY1", NoTlv, auth),
         request("GET"), request("COMMAND"),
         [request("RESPONSE") EXCEPT !.defect = "version"],
         [request("RESPONSE") EXCEPT !.defect = "tlvLength"],
         [Datagram("Signaling", "GET", NoTlv, "PRIORITY1", NoTlv, auth)
            EXCEPT !.sigs = <<[type |-> "L1_SYNC", v |-> "l1"],
                      [type |-> "SLAVE_RX_SYNC_TIMING_DATA", v |-> "rx"]>>]}

(* An answer arrives; the request may be answered again.                   *)
answer(req, auth) ==
    /\ Len(inbox) < MaxInbox
    /\ \E d \in Answers(req[1], req[2], auth) : inbox' = Append(inbox, d)
    /\ Quiet
    /\ UNCHANGED <<config, pc, commands, pkts, timeout, msg, rx, requests, noise>>

(* A request, or the rest of its answers, is lost.                         *)
lose(req) ==
    /\ requests' = requests \ {req}
    /\ Quiet
    /\ UNCHANGED <<config, pc, commands, pkts, timeout, msg, rx, inbox, noise>>

traffic(auth) ==
    /\ noise < MaxNoise /\ Len(inbox) < MaxInbox
    /\ noise' = noise + 1
    /\ \E d \in Noise(auth) : inbox' = Append(inbox, d)
    /\ Quiet
    /\ UNCHANGED <<config, pc, commands, pkts, timeout, msg, rx, requests>>

-----------------------------------------------------------------------------
(* pmc itself: rcv_timeout, and the rest of main.                          *)
rcv_timeout ==
    \/ tpoll_expires
    \/ rcv_fails
    \/ \E left \in 0..Wait : rcv_turn(left)

Step ==
    \/ end_of_input
    \/ \E c \in Commands, values, sent \in BOOLEAN :
         run_line(c[1], c[2], values, sent)
    \/ rcv_timeout
    \/ net_rcv

(* Without keys the authentication TLVs make no difference.                *)
AuthTlvs == IF p.haveAuth THEN Auths ELSE {"none"}

Next ==
    \/ Step
    \/ handle_sig
    \/ pc # "done" /\ \E req \in requests, auth \in AuthTlvs : answer(req, auth)
    \/ pc # "done" /\ \E req \in requests : lose(req)
    \/ pc # "done" /\ \E auth \in AuthTlvs : traffic(auth)

Spec == Init /\ [][Next]_vars

(* The loop of rcv_timeout goes on; neither the user nor the peers need to.*)
FairSpec == Spec /\ WF_vars(rcv_timeout)

-----------------------------------------------------------------------------
(* The members have their types; in particular main never waits for more   *)
(* answers than it has sent commands, nor for a negative number of them.   *)
TypeOK ==
    /\ pc \in {"read", "wait", "done"}
    /\ pkts \in 0..MaxCommands
    /\ timeout \in 0..Wait
    /\ msg.sendAction \in Actions /\ msg.tlv_id \in MngIds
    /\ rx.tlv_id \in MngIds /\ rx.lastSig \in BOOLEAN
    /\ Len(inbox) <= MaxInbox

(* What the manual says of allow_unauth: a message is only shown when its  *)
(* authentication is right, or it has none (1) or a wrong one (2).         *)
Accepted(d) == d.auth = "good" \/ (d.auth = "none" /\ allow >= 1) \/ allow >= 2

(* A reply that parse goes through to its end.                             *)
IsReply(d) ==
    /\ d.type = "Management" /\ d.defect \notin {"length", "version"}
    /\ d.action \in {"RESPONSE", "ACKNOWLEDGE"}
    /\ checkReplyAction(d.id, d.action)

(* rcv: when messages are authenticated, pmc shows what the manual says;   *)
(* except that over a UNIX domain socket, where the cases of ACTION and    *)
(* HEADER fall through to the one of AUTH_NONE, mode 1 shows a message that*)
(* is not a reply even when its authentication is wrong.  Mode 0 shows     *)
(* nothing that is not authentic, whatever the socket.                     *)
ShownIsAccepted ==
    p.haveAuth /\ shown.what # Nothing =>
        \/ Accepted(shown.of)
        \/ use_uds /\ allow = 1 /\ ~IsReply(shown.of)

(* Without that exception, as man/pmc.8 has it, it does not hold: one      *)
(* datagram over a UNIX domain socket is enough.                           *)
ShownAsDocumented ==
    p.haveAuth /\ shown.what # Nothing => Accepted(shown.of)

(* call_data: a message is only built with the TLV of its own builder, not *)
(* with the one that the Message still refers to, which is released.       *)
BuildReadsOwnTlv == built.reads \in {NoObject, built.by}

(* rcv_timeout: pmc never waits for ever for an answer; it waits again,    *)
(* takes the next command or ends, whatever is lost.                       *)
WaitEnds == \A n \in 1..MaxCommands :
    (pc = "wait" /\ pkts = n) ~> (pc # "wait" \/ pkts < n)

(* getData and getErrDisplay: what is shown for a message is what that     *)
(* message holds.                                                          *)
ShownIsReceived ==
    shown.what.kind \in {"data", "error"} => shown.what.content = shown.of.v
=============================================================================
