----------------------------- MODULE Pmc_proofs -----------------------------
(***************************************************************************)
(* Theorems about pmc, for any commands, any number of datagrams that are  *)
(* lost, duplicated or reordered, and any time it waits.                   *)
(***************************************************************************)
EXTENDS Pmc, TLAPS

AuthValues == {"none", "unknownKey", "unsupported", "wrong", "good"}

\* The datagrams there are: all that is said of them is their id and their
\* authentication.
Datagrams ==
    (UNION {Answers(action, id, auth) : action \in Actions, id \in MngIds,
                                        auth \in AuthValues})
    \union (UNION {Noise(auth) : auth \in AuthValues})

MsgOK ==
    /\ {"sendAction", "tlv_id", "dataSend"} \subseteq DOMAIN msg
    /\ msg.sendAction \in Actions /\ msg.tlv_id \in MngIds

RxOK(r) ==
    /\ DOMAIN r = DOMAIN NewRx
    /\ r.tlv_id \in MngIds /\ r.lastSig \in BOOLEAN

\* While pmc waits there is an answer to wait for.
CountInv ==
    /\ pc \in {"read", "wait", "done"}
    /\ commands \in 0 .. MaxCommands /\ pkts \in 0 .. commands
    /\ timeout \in 0 .. Wait
    /\ pc = "wait" => pkts > 0

NetworkInv ==
    /\ requests \subseteq {r \in Actions \X MngIds : r[1] \in mng_allowed(r[2])}
    /\ inbox \in Seq(Datagrams) /\ Len(inbox) <= MaxInbox

ConfigInv ==
    /\ use_uds \in BOOLEAN /\ allow \in 0 .. 2
    /\ p.haveAuth \in BOOLEAN /\ (p.ignore <=> allow > 0)

PmcInv ==
    /\ CountInv /\ MsgOK /\ RxOK(rx) /\ NetworkInv /\ ConfigInv
    /\ ShownIsAccepted /\ BuildReadsOwnTlv

---------------------------------------------------------------------------
(* The operators *)

LEMMA SetsFields == \A r, e : Sets(r, e).err = e /\ Sets(r, e).rx = r
BY DEF Sets

\* errAuth tells a right authentication, and none, from the others.
LEMMA ErrAuthTells ==
  ASSUME NEW q, q.haveAuth = TRUE, NEW d, d.auth \in AuthValues
  PROVE  /\ errAuth(q, d) \in {"AUTH_NONE", "AUTH_NOKEY", "AUTH", "AUTH_WRONG", "OK"}
         /\ errAuth(q, d) = "OK" => d.auth = "good"
         /\ errAuth(q, d) = "AUTH_NONE" => d.auth = "none"
<1>1. errAuth(q, d) = parseAuth(d.auth)
  BY Zenon DEF errAuth
<1> QED
  BY <1>1 DEF parseAuth, AuthValues

\* What parse returns is an error of the message, or the result of its
\* authentication, or it says that the message is an error or a signaling message,
\* and then the authentication is right.
Outcome(err, ea) ==
    \/ err \in {"TOO_SMALL", "HEADER", "ACTION", "INVALID_TLV"}
    \/ err = ea
    \/ err \in {"MSG", "SIG"} /\ ea = "OK"

LEMMA ParseMngOutcome ==
  ASSUME NEW q, NEW r, NEW d
  PROVE  Outcome(parseMngTlv(q, r, d).err, errAuth(q, d))
<1> DEFINE ea == errAuth(q, d)
<1>1. ASSUME NEW s PROVE Outcome(parseError(q, s, d).err, ea)
  <2> DEFINE new == [s EXCEPT !.replyAction = d.action, !.tlv_id = d.id]
             shows == [new EXCEPT !.display = IF d.v = NoTlv THEN @ ELSE d.v]
  <2>1. \/ parseError(q, s, d) = Sets(new, "ACTION")
        \/ parseError(q, s, d) = Sets(shows, IF ea = "OK" THEN "MSG" ELSE ea)
    BY Zenon DEF parseError
  <2> HIDE DEF ea, new, shows
  <2> QED
    BY <2>1, SetsFields DEF Outcome
<1>2. ASSUME NEW s PROVE Outcome(parseManagement(q, s, d).err, ea)
  <2> DEFINE new == [s EXCEPT !.replyAction = d.action, !.tlv_id = d.id]
             gets == [new EXCEPT !.dataGet = IF d.v = NoTlv THEN @
                                             ELSE [id |-> d.id, v |-> d.v]]
  <2>1. \/ parseManagement(q, s, d) = Sets(new, "ACTION")
        \/ parseManagement(q, s, d) = Sets(gets, ea)
    BY Zenon DEF parseManagement
  <2> HIDE DEF ea, new, gets
  <2> QED
    BY <2>1, SetsFields DEF Outcome
<1> DEFINE old == [r EXCEPT !.lastSig = FALSE]
           new == [r EXCEPT !.mngType = d.tlv, !.lastSig = FALSE]
<1>3. \/ parseMngTlv(q, r, d) = Sets(old, "ACTION")
      \/ parseMngTlv(q, r, d) = Sets(new, "ACTION")
      \/ parseMngTlv(q, r, d) = Sets(new, "TOO_SMALL")
      \/ parseMngTlv(q, r, d) = Sets(new, "INVALID_TLV")
      \/ parseMngTlv(q, r, d) = Sets(new, ea)
      \/ parseMngTlv(q, r, d) = parseError(q, new, d)
      \/ parseMngTlv(q, r, d) = parseManagement(q, new, d)
  BY DEF parseMngTlv
<1> HIDE DEF ea, old, new
<1>4. Outcome(parseMngTlv(q, r, d).err, ea)
  BY <1>1, <1>2, <1>3, SetsFields DEF Outcome
<1> QED
  BY <1>4, Zenon DEF ea

LEMMA ParseOutcome ==
  ASSUME NEW q, NEW r, NEW d
  PROVE  Outcome(parse(q, r, d).err, errAuth(q, d))
<1> DEFINE ea == errAuth(q, d)
<1>1. ASSUME NEW s PROVE Outcome(parseSig(q, s, d).err, ea)
  <2> DEFINE kept == SelectSeq(d.sigs, LAMBDA t : t.type \in SigTlvs)
             new == [s EXCEPT !.lastSig = TRUE, !.sigTlvs = kept]
  <2>1. parseSig(q, s, d) = Sets(new, IF ea = "OK" THEN "SIG" ELSE ea)
    BY Zenon DEF parseSig
  <2> HIDE DEF ea, new
  <2> QED
    BY <2>1, SetsFields DEF Outcome
<1> DEFINE new == [r EXCEPT !.type = d.type]
<1>2. \/ parse(q, r, d) = Sets(r, "TOO_SMALL")
      \/ parse(q, r, d) = Sets(r, "HEADER") \/ parse(q, r, d) = Sets(new, "HEADER")
      \/ parse(q, r, d) = parseSig(q, new, d)
      \/ parse(q, r, d) = parseMngTlv(q, new, d)
  BY DEF parse
<1> HIDE DEF new
<1>3. ASSUME NEW s PROVE Outcome(parseMngTlv(q, s, d).err, ea)
  BY ParseMngOutcome, Zenon
<1> HIDE DEF ea
<1>4. Outcome(parse(q, r, d).err, ea)
  BY <1>1, <1>2, <1>3, SetsFields DEF Outcome
<1> QED
  BY <1>4, Zenon DEF ea

\* A reply is never taken for another message.
LEMMA ReplyOutcome ==
  ASSUME NEW q, NEW r, NEW d, IsReply(d),
         errAuth(q, d) \notin {"ACTION", "HEADER"}
  PROVE  parse(q, r, d).err \notin {"ACTION", "HEADER"}
<1> DEFINE ea == errAuth(q, d)
           new == [r EXCEPT !.type = d.type]
           mng == [new EXCEPT !.mngType = d.tlv, !.lastSig = FALSE]
<1>1. \/ parse(q, r, d) = Sets(r, "TOO_SMALL")
      \/ parse(q, r, d) = parseMngTlv(q, new, d)
  BY DEF parse, IsReply
<1>2. \/ parseMngTlv(q, new, d) = Sets(mng, ea)
      \/ parseMngTlv(q, new, d) = Sets(mng, "TOO_SMALL")
      \/ parseMngTlv(q, new, d) = Sets(mng, "INVALID_TLV")
      \/ parseMngTlv(q, new, d) = parseError(q, mng, d)
      \/ parseMngTlv(q, new, d) = parseManagement(q, mng, d)
  BY DEF parseMngTlv, IsReply
<1> HIDE DEF new, mng
<1> DEFINE id == [mng EXCEPT !.replyAction = d.action, !.tlv_id = d.id]
           shows == [id EXCEPT !.display = IF d.v = NoTlv THEN @ ELSE d.v]
           gets == [id EXCEPT !.dataGet = IF d.v = NoTlv THEN @
                                          ELSE [id |-> d.id, v |-> d.v]]
<1>3. parseError(q, mng, d) = Sets(shows, IF ea = "OK" THEN "MSG" ELSE ea)
  BY Zenon DEF parseError, IsReply
<1>4. parseManagement(q, mng, d) = Sets(gets, ea)
  BY Zenon DEF parseManagement, IsReply
<1>5. \A e \in {"MSG", "TOO_SMALL", "INVALID_TLV"} : e \notin {"ACTION", "HEADER"}
  OBVIOUS
<1> HIDE DEF ea, id, shows, gets
<1>6. ea \notin {"ACTION", "HEADER"}
  BY Zenon DEF ea
<1> QED
  BY <1>1, <1>2, <1>3, <1>4, <1>5, <1>6, SetsFields

---------------------------------------------------------------------------
(* What parse leaves in the object *)

\* The members of the receive half.
RxFields == {"type", "mngType", "replyAction", "tlv_id", "dataGet", "display",
             "sigTlvs", "lastSig"}

LEMMA NewRxOK == RxOK(NewRx)
BY DEF RxOK, NewRx, MngIds, EmptyIds

LEMMA RxOKFields ==
  ASSUME NEW r
  PROVE  RxOK(r) <=> /\ DOMAIN r = RxFields
                     /\ r.tlv_id \in MngIds /\ r.lastSig \in BOOLEAN
<1>1. DOMAIN NewRx = RxFields
  BY DEF NewRx, RxFields
<1> QED
  BY <1>1, Zenon DEF RxOK

\* A member other than the id may change.
LEMMA RxSets ==
  ASSUME NEW r, RxOK(r), NEW x
  PROVE  /\ RxOK([r EXCEPT !.type = x]) /\ RxOK([r EXCEPT !.dataGet = x])
         /\ RxOK([r EXCEPT !.display = x]) /\ RxOK([r EXCEPT !.lastSig = FALSE])
<1>1. DOMAIN r = RxFields /\ r.tlv_id \in MngIds /\ r.lastSig \in BOOLEAN
  BY RxOKFields, Zenon
<1>2. RxOK([r EXCEPT !.type = x])
  <2> DEFINE s == [r EXCEPT !.type = x]
  <2>1. DOMAIN s = RxFields /\ s.tlv_id = r.tlv_id /\ s.lastSig = r.lastSig
    BY <1>1 DEF RxFields
  <2> HIDE DEF s
  <2>2. RxOK(s)
    BY <1>1, <2>1, RxOKFields, Zenon
  <2> QED
    BY <2>2, Zenon DEF s
<1>3. RxOK([r EXCEPT !.dataGet = x])
  <2> DEFINE s == [r EXCEPT !.dataGet = x]
  <2>1. DOMAIN s = RxFields /\ s.tlv_id = r.tlv_id /\ s.lastSig = r.lastSig
    BY <1>1 DEF RxFields
  <2> HIDE DEF s
  <2>2. RxOK(s)
    BY <1>1, <2>1, RxOKFields, Zenon
  <2> QED
    BY <2>2, Zenon DEF s
<1>4. RxOK([r EXCEPT !.display = x])
  <2> DEFINE s == [r EXCEPT !.display = x]
  <2>1. DOMAIN s = RxFields /\ s.tlv_id = r.tlv_id /\ s.lastSig = r.lastSig
    BY <1>1 DEF RxFields
  <2> HIDE DEF s
  <2>2. RxOK(s)
    BY <1>1, <2>1, RxOKFields, Zenon
  <2> QED
    BY <2>2, Zenon DEF s
<1>5. RxOK([r EXCEPT !.lastSig = FALSE])
  <2> DEFINE s == [r EXCEPT !.lastSig = FALSE]
  <2>1. DOMAIN s = RxFields /\ s.tlv_id = r.tlv_id /\ s.lastSig = FALSE
    BY <1>1 DEF RxFields
  <2> HIDE DEF s
  <2>2. RxOK(s)
    BY <1>1, <2>1, RxOKFields, Zenon
  <2> QED
    BY <2>2, Zenon DEF s
<1> QED
  BY <1>2, <1>3, <1>4, <1>5, Zenon

\* The id and the action of a management message, its type, and a signaling
\* message.
LEMMA RxSetsTwo ==
  ASSUME NEW r, RxOK(r), NEW x, NEW id \in MngIds
  PROVE  /\ RxOK([r EXCEPT !.replyAction = x, !.tlv_id = id])
         /\ RxOK([r EXCEPT !.mngType = x, !.lastSig = FALSE])
         /\ RxOK([r EXCEPT !.lastSig = TRUE, !.sigTlvs = x])
<1>1. DOMAIN r = RxFields /\ r.tlv_id \in MngIds /\ r.lastSig \in BOOLEAN
  BY RxOKFields, Zenon
<1>2. RxOK([r EXCEPT !.replyAction = x, !.tlv_id = id])
  <2> DEFINE s == [r EXCEPT !.replyAction = x, !.tlv_id = id]
  <2>1. DOMAIN s = RxFields /\ s.tlv_id = id /\ s.lastSig = r.lastSig
    BY <1>1, SMTT(40) DEF RxFields
  <2> HIDE DEF s
  <2>2. RxOK(s)
    BY <1>1, <2>1, RxOKFields, Zenon
  <2> QED
    BY <2>2, Zenon DEF s
<1>3. RxOK([r EXCEPT !.mngType = x, !.lastSig = FALSE])
  <2> DEFINE s == [r EXCEPT !.mngType = x, !.lastSig = FALSE]
  <2>1. DOMAIN s = RxFields /\ s.tlv_id = r.tlv_id /\ s.lastSig = FALSE
    BY <1>1, SMTT(40) DEF RxFields
  <2> HIDE DEF s
  <2>2. RxOK(s)
    BY <1>1, <2>1, RxOKFields, Zenon
  <2> QED
    BY <2>2, Zenon DEF s
<1>4. RxOK([r EXCEPT !.lastSig = TRUE, !.sigTlvs = x])
  <2> DEFINE s == [r EXCEPT !.lastSig = TRUE, !.sigTlvs = x]
  <2>1. DOMAIN s = RxFields /\ s.tlv_id = r.tlv_id /\ s.lastSig = TRUE
    BY <1>1, SMTT(40) DEF RxFields
  <2> HIDE DEF s
  <2>2. RxOK(s)
    BY <1>1, <2>1, RxOKFields, Zenon
  <2> QED
    BY <2>2, Zenon DEF s
<1> QED
  BY <1>2, <1>3, <1>4, Zenon

LEMMA ParseMngRx ==
  ASSUME NEW q, NEW r, RxOK(r), NEW d, d.id \in MngIds
  PROVE  RxOK(parseMngTlv(q, r, d).rx)
<1> DEFINE ea == errAuth(q, d)
<1>1. ASSUME NEW s, RxOK(s) PROVE RxOK(parseError(q, s, d).rx)
  <2> DEFINE new == [s EXCEPT !.replyAction = d.action, !.tlv_id = d.id]
             x == IF d.v = NoTlv THEN new.display ELSE d.v
             shows == [new EXCEPT !.display = x]
  <2>1. \/ parseError(q, s, d) = Sets(new, "ACTION")
        \/ parseError(q, s, d) = Sets(shows, IF ea = "OK" THEN "MSG" ELSE ea)
    BY Zenon DEF parseError
  <2>2. RxOK(new)
    BY <1>1, RxSetsTwo, Zenon
  <2> HIDE DEF new, x
  <2>3. RxOK(shows)
    BY <2>2, RxSets, Zenon
  <2> HIDE DEF shows
  <2> QED
    BY <2>1, <2>2, <2>3, SetsFields
<1>2. ASSUME NEW s, RxOK(s) PROVE RxOK(parseManagement(q, s, d).rx)
  <2> DEFINE new == [s EXCEPT !.replyAction = d.action, !.tlv_id = d.id]
             x == IF d.v = NoTlv THEN new.dataGet ELSE [id |-> d.id, v |-> d.v]
             gets == [new EXCEPT !.dataGet = x]
  <2>1. \/ parseManagement(q, s, d) = Sets(new, "ACTION")
        \/ parseManagement(q, s, d) = Sets(gets, ea)
    BY Zenon DEF parseManagement
  <2>2. RxOK(new)
    BY <1>2, RxSetsTwo, Zenon
  <2> HIDE DEF new, x
  <2>3. RxOK(gets)
    BY <2>2, RxSets, Zenon
  <2> HIDE DEF gets
  <2> QED
    BY <2>1, <2>2, <2>3, SetsFields
<1> DEFINE old == [r EXCEPT !.lastSig = FALSE]
           new == [r EXCEPT !.mngType = d.tlv, !.lastSig = FALSE]
<1>3. \/ parseMngTlv(q, r, d) = Sets(old, "ACTION")
      \/ parseMngTlv(q, r, d) = Sets(new, "ACTION")
      \/ parseMngTlv(q, r, d) = Sets(new, "TOO_SMALL")
      \/ parseMngTlv(q, r, d) = Sets(new, "INVALID_TLV")
      \/ parseMngTlv(q, r, d) = Sets(new, ea)
      \/ parseMngTlv(q, r, d) = parseError(q, new, d)
      \/ parseMngTlv(q, r, d) = parseManagement(q, new, d)
  BY DEF parseMngTlv
<1>4. RxOK(old) /\ RxOK(new)
  BY RxSets, RxSetsTwo, Zenon
<1> HIDE DEF ea, old, new
<1>5. RxOK(parseError(q, new, d).rx) /\ RxOK(parseManagement(q, new, d).rx)
  BY <1>1, <1>2, <1>4, Zenon
<1> QED
  BY <1>3, <1>4, <1>5, SetsFields

LEMMA ParseRx ==
  ASSUME NEW q, NEW r, RxOK(r), NEW d, d.id \in MngIds
  PROVE  RxOK(parse(q, r, d).rx)
<1> DEFINE new == [r EXCEPT !.type = d.type]
<1>1. \/ parse(q, r, d) = Sets(r, "TOO_SMALL")
      \/ parse(q, r, d) = Sets(r, "HEADER") \/ parse(q, r, d) = Sets(new, "HEADER")
      \/ parse(q, r, d) = parseSig(q, new, d)
      \/ parse(q, r, d) = parseMngTlv(q, new, d)
  BY DEF parse
<1>2. RxOK(new)
  BY RxSets, Zenon
<1> HIDE DEF new
<1>3. RxOK(parseSig(q, new, d).rx)
  <2> DEFINE kept == SelectSeq(d.sigs, LAMBDA t : t.type \in SigTlvs)
             sig == [new EXCEPT !.lastSig = TRUE, !.sigTlvs = kept]
             err == IF errAuth(q, d) = "OK" THEN "SIG" ELSE errAuth(q, d)
  <2>1. parseSig(q, new, d) = Sets(sig, err)
    BY Zenon DEF parseSig
  <2> HIDE DEF kept
  <2>2. RxOK(sig)
    BY <1>2, RxSetsTwo, Zenon
  <2> HIDE DEF sig, err
  <2> QED
    BY <2>1, <2>2, SetsFields
<1>4. RxOK(parseMngTlv(q, new, d).rx)
  BY <1>2, ParseMngRx, Zenon
<1> QED
  BY <1>1, <1>2, <1>3, <1>4, SetsFields

---------------------------------------------------------------------------
(* The datagrams *)

\* Any datagram has an id and an authentication of the model.
LEMMA DatagramFields ==
  ASSUME NEW d \in Datagrams
  PROVE  d.id \in MngIds /\ d.auth \in AuthValues
<1>1. ASSUME NEW action \in Actions, NEW id \in MngIds, NEW auth \in AuthValues,
             d \in Answers(action, id, auth)
      PROVE  d.id = id /\ d.auth = auth
  BY <1>1 DEF Answers, Datagram
<1>2. ASSUME NEW auth \in AuthValues, d \in Noise(auth)
      PROVE  d.id = "PRIORITY1" /\ d.auth = auth
  BY <1>2 DEF Noise, Datagram
<1>3. "PRIORITY1" \in MngIds
  BY DEF MngIds, SmallIds
<1>4. \/ \E action \in Actions, id \in MngIds, auth \in AuthValues :
           d \in Answers(action, id, auth)
      \/ \E auth \in AuthValues : d \in Noise(auth)
  BY DEF Datagrams
<1> QED
  BY <1>1, <1>2, <1>3, <1>4, Zenon

---------------------------------------------------------------------------
(* Receiving *)

\* rcv only shows a message that parse accepts, or whose error it tolerates; the
\* errors of another message only over a UNIX domain socket.
LEMMA RcvShows ==
  ASSUME NEW err, NEW r, rcv(err, r).show # Nothing
  PROVE  \/ err \in {"OK", "MSG", "SIG"}
         \/ err \in {"ACTION", "HEADER"} /\ use_uds /\ Tolerates(err)
         \/ err \in {"AUTH_NONE", "AUTH", "AUTH_NOKEY", "AUTH_WRONG"} /\
            Tolerates(err)
<1> SUFFICES ASSUME err \notin {"OK", "MSG", "SIG"},
                    ~(err \in {"ACTION", "HEADER"} /\ use_uds /\ Tolerates(err))
             PROVE  err \in {"AUTH_NONE", "AUTH", "AUTH_NOKEY", "AUTH_WRONG"} /\
                    Tolerates(err)
  BY Zenon
<1>1. CASE err \in {"ACTION", "HEADER"}
  BY <1>1 DEF rcv
<1>2. CASE err \notin {"ACTION", "HEADER"}
  BY <1>2 DEF rcv
<1> QED
  BY <1>1, <1>2, Zenon

\* The head and the tail of a sequence of datagrams.
LEMMA InboxParts ==
  ASSUME NEW S, NEW s \in Seq(S), s # <<>>
  PROVE  /\ Head(s) \in S /\ Head(s) = s[1] /\ 1 \in 1 .. Len(s)
         /\ Tail(s) \in Seq(S) /\ Len(Tail(s)) = Len(s) - 1
         /\ \A i \in 1 .. Len(Tail(s)) : Tail(s)[i] = s[i + 1] /\
                                         i + 1 \in 1 .. Len(s)
OBVIOUS

LEMMA TailNetwork ==
  ASSUME NetworkInv, inbox # <<>>, inbox' = Tail(inbox),
         UNCHANGED <<requests, use_uds>>
  PROVE  NetworkInv'
<1>1. /\ inbox' \in Seq(Datagrams) /\ Len(inbox') = Len(inbox) - 1
      /\ \A i \in 1 .. Len(inbox') : inbox'[i] = inbox[i + 1] /\
                                     i + 1 \in 1 .. Len(inbox)
  BY InboxParts, Zenon DEF NetworkInv
<1>2. Len(inbox') <= MaxInbox
  <2>1. Len(inbox) \in Nat /\ Len(inbox) <= MaxInbox
    BY DEF NetworkInv
  <2> QED
    BY <1>1, <2>1, BoundsAssumption
<1> QED
  BY <1>1, <1>2, Zenon DEF NetworkInv

\* What Receive shows is authentic as far as pmc was told to be strict.
LEMMA ReceiveShows ==
  ASSUME ConfigInv, NetworkInv, inbox # <<>>, Receive
  PROVE  ShownIsAccepted'
<1> DEFINE d == Head(inbox)
           ea == errAuth(p, d)
           err == Parsed.err
<1>1. d \in Datagrams /\ d = inbox[1] /\ 1 \in 1 .. Len(inbox)
  BY InboxParts, Zenon DEF NetworkInv
<1>2. d.auth \in AuthValues
  BY <1>1, DatagramFields, Zenon
<1>3. Outcome(err, ea)
  BY ParseOutcome, Zenon DEF Parsed
<1> SUFFICES ASSUME (p.haveAuth)', (shown.what # Nothing)'
             PROVE  (\/ shown.of.auth = "good"
                     \/ shown.of.auth = "none" /\ allow >= 1
                     \/ allow >= 2
                     \/ use_uds /\ allow = 1 /\ ~IsReply(shown.of))'
  BY Zenon DEF ShownIsAccepted, Accepted
<1>4. p.haveAuth = TRUE /\ p' = p /\ allow' = allow /\ use_uds' = use_uds
  BY Zenon DEF Receive, config, ConfigInv
<1>5. Result.show # Nothing /\ shown'.of = d
  BY DEF Receive
<1>6. \/ err \in {"OK", "MSG", "SIG"}
      \/ err \in {"ACTION", "HEADER"} /\ use_uds /\ Tolerates(err)
      \/ err \in {"AUTH_NONE", "AUTH", "AUTH_NOKEY", "AUTH_WRONG"} /\
         Tolerates(err)
  BY <1>5, RcvShows, Zenon DEF Result
<1>7. /\ ea \in {"AUTH_NONE", "AUTH_NOKEY", "AUTH", "AUTH_WRONG", "OK"}
      /\ ea = "OK" => d.auth = "good"
      /\ ea = "AUTH_NONE" => d.auth = "none"
  BY <1>2, <1>4, ErrAuthTells, Zenon
<1>8. IsReply(d) => err \notin {"ACTION", "HEADER"}
  <2>1. ea \notin {"ACTION", "HEADER"}
    BY <1>7
  <2> QED
    BY <2>1, ReplyOutcome, Zenon DEF Parsed
<1> HIDE DEF d, ea, err
<1>9. allow \in 0 .. 2
  BY Zenon DEF ConfigInv
<1>10. CASE err \in {"OK", "MSG", "SIG"}
  <2>1. ea = "OK"
    BY <1>3, <1>7, <1>10 DEF Outcome
  <2> QED
    BY <2>1, <1>7, <1>5, Zenon
<1>11. CASE err \in {"AUTH_NONE", "AUTH", "AUTH_NOKEY", "AUTH_WRONG"} /\
            Tolerates(err)
  <2>1. err = ea
    BY <1>3, <1>11 DEF Outcome
  <2>2. err = "AUTH_NONE" => allow >= 1
    BY <1>9, <1>11 DEF Tolerates
  <2>3. err # "AUTH_NONE" => allow >= 2
    BY <1>9, <1>11 DEF Tolerates
  <2> QED
    BY <2>1, <2>2, <2>3, <1>4, <1>5, <1>7, Zenon
<1>12. CASE err \in {"ACTION", "HEADER"} /\ use_uds /\ Tolerates(err)
  <2>1. allow >= 2 \/ allow = 1
    BY <1>9, <1>12 DEF Tolerates
  <2>2. ~IsReply(shown'.of)
    BY <1>5, <1>8, <1>12, Zenon
  <2> QED
    BY <2>1, <2>2, <1>4, <1>12, Zenon DEF IsReply
<1> QED
  BY <1>6, <1>10, <1>11, <1>12, Zenon

LEMMA ReceiveStep ==
  ASSUME PmcInv, inbox # <<>>, Receive
  PROVE  /\ MsgOK' /\ RxOK(rx)' /\ NetworkInv' /\ ConfigInv'
         /\ ShownIsAccepted' /\ BuildReadsOwnTlv'
<1> USE DEF PmcInv
<1>1. MsgOK'
  BY Zenon DEF Receive, MsgOK
<1>2. RxOK(rx)'
  <2>1. Head(inbox) \in Datagrams
    BY InboxParts, Zenon DEF NetworkInv
  <2>2. Head(inbox).id \in MngIds
    BY <2>1, DatagramFields, Zenon
  <2>3. RxOK(Parsed.rx)
    BY <2>2, ParseRx, Zenon DEF Parsed
  <2> QED
    BY <2>3, Zenon DEF Receive, RxOK
<1>3. NetworkInv'
  BY TailNetwork, Zenon DEF Receive, config
<1>4. ConfigInv'
  BY Zenon DEF Receive, config, ConfigInv
<1>5. ShownIsAccepted'
  BY ReceiveShows, Zenon
<1>6. BuildReadsOwnTlv'
  BY DEF Receive, BuildReadsOwnTlv, NotBuilt
<1> QED
  BY <1>1, <1>2, <1>3, <1>4, <1>5, <1>6, Zenon

\* rcv_timeout returns with one answer less to wait for.
LEMMA DoneCount ==
  ASSUME CountInv, pc = "wait", rcv_done, commands' = commands
  PROVE  CountInv'
<1>1. pkts' = pkts - 1 /\ pkts' \in 0 .. commands' /\ commands' \in 0 .. MaxCommands
  BY BoundsAssumption DEF CountInv, rcv_done
<1>2. pc' \in {"read", "wait", "done"} /\ (pc' = "wait" => pkts' > 0)
  BY Zenon DEF rcv_done
<1>3. timeout' \in 0 .. Wait
  <2>1. timeout' = Wait \/ timeout' = 0
    BY Zenon DEF rcv_done
  <2> QED
    BY <2>1, WaitAssumption
<1> QED
  BY <1>1, <1>2, <1>3, Zenon DEF CountInv

LEMMA TurnCount ==
  ASSUME CountInv, NEW left \in 0 .. Wait, rcv_turn(left)
  PROVE  CountInv'
<1>1. commands' = commands /\ pc = "wait"
  BY Zenon DEF rcv_turn, Receive
<1>2. CASE rcv_done
  BY <1>1, <1>2, DoneCount, Zenon
<1>3. CASE timeout' = left /\ UNCHANGED <<pc, pkts>>
  BY <1>1, <1>3, Zenon DEF CountInv
<1> QED
  BY <1>2, <1>3, Zenon DEF rcv_turn

---------------------------------------------------------------------------
(* Sending *)

\* A command that can be built is one of the table, and the Message holds the
\* TLV of this command or none.
LEMMA BuildsOwn ==
  ASSUME MsgOK, NEW action \in Actions, NEW id \in MngIds, NEW values \in BOOLEAN,
         NEW sent \in BOOLEAN, call_data(action, id, values, sent)
  PROVE  /\ MsgOK' /\ BuildReadsOwnTlv'
         /\ requests' = requests \/
            (requests' = requests \union {<<action, id>>} /\
             action \in mng_allowed(id))
<1>1. CASE ~buildTlv(action, id, values)
  <2>1. built' = NotBuilt /\ UNCHANGED <<msg, requests>>
    BY <1>1, Zenon DEF call_data
  <2>2. BuildReadsOwnTlv'
    BY <2>1 DEF BuildReadsOwnTlv, NotBuilt
  <2> QED
    BY <2>1, <2>2, Zenon DEF MsgOK
<1>2. CASE buildTlv(action, id, values)
  <2> DEFINE own == TlvObject
             data == IF NeedsData(action, id) THEN own ELSE NoObject
  <2>1. /\ msg' = [msg EXCEPT !.sendAction = action, !.tlv_id = id,
                              !.dataSend = data]
        /\ built' = [reads |-> msg'.dataSend, by |-> own]
        /\ requests' = requests \/ requests' = requests \union {<<action, id>>}
    BY <1>2, Zenon DEF call_data, setAction
  <2>2. data \in {NoObject, own}
    BY Zenon
  <2> HIDE DEF own, data
  <2>3. /\ DOMAIN msg' = DOMAIN msg /\ msg'.sendAction = action
        /\ msg'.tlv_id = id /\ msg'.dataSend = data
    BY <2>1, SMTT(40) DEF MsgOK
  <2>4. MsgOK'
    BY <2>3, Zenon DEF MsgOK
  <2>5. built'.reads = data /\ built'.by = own
    BY <2>1, <2>3
  <2>6. BuildReadsOwnTlv'
    BY <2>2, <2>5, Zenon DEF BuildReadsOwnTlv
  <2>7. action \in mng_allowed(id)
    BY <1>2, Zenon DEF buildTlv, CanSetAction, allowedAction
  <2> QED
    BY <2>1, <2>4, <2>6, <2>7, Zenon
<1> QED
  BY <1>1, <1>2, Zenon

\* A step that shows nothing.
LEMMA NothingShown == ASSUME shown' = NotShown PROVE ShownIsAccepted'
BY DEF ShownIsAccepted, NotShown

LEMMA NothingBuilt == ASSUME built' = NotBuilt PROVE BuildReadsOwnTlv'
BY DEF BuildReadsOwnTlv, NotBuilt

LEMMA ConfigKept == ASSUME ConfigInv, UNCHANGED config PROVE ConfigInv'
BY Zenon DEF ConfigInv, config

LEMMA RunLineStep ==
  ASSUME PmcInv, NEW action \in Actions, NEW id \in MngIds,
         NEW values \in BOOLEAN, NEW sent \in BOOLEAN,
         run_line(action, id, values, sent)
  PROVE  PmcInv'
<1>1. CountInv /\ MsgOK /\ RxOK(rx) /\ NetworkInv /\ ConfigInv
  BY Zenon DEF PmcInv
<1>2. /\ pc = "read" /\ commands < MaxCommands
      /\ call_data(action, id, values, sent)
      /\ commands' = commands + 1
      /\ pkts' = pkts + 1 \/ pkts' = pkts
      /\ (pc' = "wait" /\ timeout' = Wait /\ pkts' = pkts + 1) \/
         (pc' = pc /\ timeout' = timeout)
      /\ shown' = NotShown
      /\ UNCHANGED <<config, rx, inbox, noise>>
  <2>1. mode = "uds" => mode # "net"
    OBVIOUS
  <2> QED
    BY <2>1, Zenon DEF run_line
<1>3. MsgOK' /\ BuildReadsOwnTlv'
  BY <1>1, <1>2, BuildsOwn, Zenon
<1>4. CountInv'
  <2>1. commands \in 0 .. MaxCommands /\ pkts \in 0 .. commands
    BY <1>1, Zenon DEF CountInv
  <2>2. commands' \in 0 .. MaxCommands /\ pkts' \in 0 .. commands'
    BY <1>2, <2>1, BoundsAssumption
  <2>3. timeout' \in 0 .. Wait
    <3>1. Wait \in 0 .. Wait /\ timeout \in 0 .. Wait
      BY <1>1, WaitAssumption DEF CountInv
    <3> QED
      BY <1>2, <3>1, Zenon
  <2>4. pc' \in {"read", "wait", "done"} /\ (pc' = "wait" => pkts' > 0)
    BY <1>2, <2>1, BoundsAssumption
  <2> QED
    BY <2>2, <2>3, <2>4, Zenon DEF CountInv
<1>5. NetworkInv'
  <2>1. \/ requests' = requests
        \/ requests' = requests \union {<<action, id>>} /\
           action \in mng_allowed(id)
    BY <1>1, <1>2, BuildsOwn, Zenon
  <2>2. inbox' = inbox /\ use_uds' = use_uds
    BY <1>2, Zenon DEF config
  <2>3. requests' \subseteq {r \in Actions \X MngIds : r[1] \in mng_allowed(r[2])}
    BY <1>1, <2>1 DEF NetworkInv
  <2> QED
    BY <1>1, <2>2, <2>3, Zenon DEF NetworkInv
<1>6. RxOK(rx)' /\ ConfigInv' /\ ShownIsAccepted'
  BY <1>1, <1>2, ConfigKept, NothingShown, Zenon DEF RxOK
<1> QED
  BY <1>3, <1>4, <1>5, <1>6, Zenon DEF PmcInv

---------------------------------------------------------------------------
(* The other steps *)

\* The steps that neither build nor show anything, and leave the Message.
LEMMA QuietStep ==
  ASSUME PmcInv, Quiet, UNCHANGED <<config, msg>>, CountInv', RxOK(rx)',
         NetworkInv'
  PROVE  PmcInv'
<1>1. MsgOK /\ ConfigInv
  BY Zenon DEF PmcInv
<1>2. shown' = NotShown /\ built' = NotBuilt /\ UNCHANGED config /\ msg' = msg
  BY Zenon DEF Quiet
<1>3. ShownIsAccepted' /\ BuildReadsOwnTlv' /\ ConfigInv' /\ MsgOK'
  BY <1>1, <1>2, NothingShown, NothingBuilt, ConfigKept, Zenon DEF MsgOK
<1> QED
  BY <1>3, Zenon DEF PmcInv

LEMMA NetworkKept ==
  ASSUME NetworkInv, UNCHANGED <<requests, inbox, use_uds>>
  PROVE  NetworkInv'
BY Zenon DEF NetworkInv

LEMMA CountKept ==
  ASSUME CountInv, UNCHANGED <<pc, commands, pkts, timeout>>
  PROVE  CountInv'
BY Zenon DEF CountInv

LEMMA EndStep == ASSUME PmcInv, end_of_input PROVE PmcInv'
<1>1. CountInv /\ RxOK(rx) /\ NetworkInv
  BY Zenon DEF PmcInv
<1>2. /\ pc' = "done" \/ (pc' = "wait" /\ pkts > 0)
      /\ timeout' = Wait \/ timeout' = timeout
      /\ Quiet /\ UNCHANGED <<config, commands, pkts, msg, rx, network>>
  BY Zenon DEF end_of_input
<1>3. CountInv'
  <2>1. pc' \in {"read", "wait", "done"} /\ (pc' = "wait" => pkts > 0)
    BY <1>2
  <2>2. Wait \in 0 .. Wait
    BY WaitAssumption
  <2> QED
    BY <1>1, <1>2, <2>1, <2>2, Zenon DEF CountInv
<1>4. UNCHANGED <<requests, inbox, use_uds>> /\ rx' = rx
  BY <1>2, Zenon DEF network, config
<1>5. NetworkInv' /\ RxOK(rx)'
  BY <1>1, <1>4, NetworkKept, Zenon DEF RxOK
<1> QED
  BY <1>2, <1>3, <1>5, QuietStep, Zenon

LEMMA ExpireStep == ASSUME PmcInv, tpoll_expires PROVE PmcInv'
<1>1. CountInv /\ RxOK(rx) /\ NetworkInv
  BY Zenon DEF PmcInv
<1>2. CountInv'
  BY <1>1, DoneCount, Zenon DEF tpoll_expires
<1>3. UNCHANGED <<requests, inbox, use_uds>> /\ rx' = rx
  BY Zenon DEF tpoll_expires, network, config
<1>4. NetworkInv' /\ RxOK(rx)'
  BY <1>1, <1>3, NetworkKept, Zenon DEF RxOK
<1> QED
  BY <1>2, <1>4, QuietStep, Zenon DEF tpoll_expires

LEMMA FailStep == ASSUME PmcInv, rcv_fails PROVE PmcInv'
<1>1. CountInv /\ RxOK(rx) /\ NetworkInv
  BY Zenon DEF PmcInv
<1>2. CountInv'
  BY <1>1, DoneCount, Zenon DEF rcv_fails
<1>3. /\ inbox # <<>> /\ inbox' = Tail(inbox) /\ UNCHANGED <<requests, use_uds>>
      /\ rx' = rx
  BY Zenon DEF rcv_fails, config
<1>4. NetworkInv' /\ RxOK(rx)'
  BY <1>1, <1>3, TailNetwork, Zenon DEF RxOK
<1> QED
  BY <1>2, <1>4, QuietStep, Zenon DEF rcv_fails

LEMMA SignalStep == ASSUME PmcInv, handle_sig PROVE PmcInv'
<1>1. CountInv /\ NetworkInv
  BY Zenon DEF PmcInv
<1>2. /\ pc' = "done" /\ UNCHANGED <<commands, pkts, timeout>>
      /\ inbox' = <<>> /\ requests' = {} /\ rx' = NewRx
  BY Zenon DEF handle_sig
<1>3. CountInv'
  <2>1. pc' \in {"read", "wait", "done"} /\ pc' # "wait"
    BY <1>2
  <2> QED
    BY <1>1, <1>2, <2>1, Zenon DEF CountInv
<1>4. NetworkInv'
  <2>1. inbox' \in Seq(Datagrams) /\ Len(inbox') = 0
    BY <1>2
  <2>2. 0 <= MaxInbox /\ \A i \in 1 .. 0 : FALSE
    BY BoundsAssumption
  <2>3. requests' \subseteq {r \in Actions \X MngIds : r[1] \in mng_allowed(r[2])}
    BY <1>2, Zenon
  <2> QED
    BY <2>1, <2>2, <2>3, Zenon DEF NetworkInv
<1>5. RxOK(rx)'
  BY <1>2, NewRxOK, Zenon DEF RxOK
<1> QED
  BY <1>3, <1>4, <1>5, QuietStep, Zenon DEF handle_sig

\* A datagram arrives.
LEMMA ArrivalNetwork ==
  ASSUME NetworkInv, Len(inbox) < MaxInbox, UNCHANGED <<requests, use_uds>>,
         NEW d \in Datagrams, inbox' = Append(inbox, d)
  PROVE  NetworkInv'
<1>1. inbox \in Seq(Datagrams)
  BY Zenon DEF NetworkInv
<1>2. /\ inbox' \in Seq(Datagrams) /\ Len(inbox') = Len(inbox) + 1
      /\ \A i \in 1 .. Len(inbox') :
           inbox'[i] = d \/ (i \in 1 .. Len(inbox) /\ inbox'[i] = inbox[i])
  BY <1>1
<1>3. Len(inbox') <= MaxInbox
  <2>1. Len(inbox) \in Nat
    BY <1>1
  <2> QED
    BY <1>2, <2>1, BoundsAssumption
<1> QED
  BY <1>2, <1>3, Zenon DEF NetworkInv

LEMMA AuthTlvValues == AuthTlvs \subseteq AuthValues
BY AuthsAssumption DEF AuthTlvs, AuthValues

LEMMA AnswerStep ==
  ASSUME PmcInv, NEW req \in requests, NEW auth \in AuthTlvs, answer(req, auth)
  PROVE  PmcInv'
<1>1. CountInv /\ RxOK(rx) /\ NetworkInv
  BY Zenon DEF PmcInv
<1>2. req[1] \in Actions /\ req[2] \in MngIds /\ req[1] \in mng_allowed(req[2])
  BY <1>1 DEF NetworkInv
<1>3. PICK d \in Answers(req[1], req[2], auth) : inbox' = Append(inbox, d)
  BY Zenon DEF answer
<1>5. auth \in AuthValues
  BY AuthTlvValues, Zenon
<1>6. d \in Datagrams
  <2> DEFINE a == req[1]
             i == req[2]
  <2>1. a \in Actions /\ i \in MngIds /\ d \in Answers(a, i, auth)
    BY <1>2, Zenon
  <2> HIDE DEF a, i
  <2> QED
    BY <1>5, <2>1 DEF Datagrams
<1>7. /\ Len(inbox) < MaxInbox /\ Quiet
      /\ UNCHANGED <<config, pc, commands, pkts, timeout, msg, rx, requests, noise>>
  BY Zenon DEF answer
<1>8. use_uds' = use_uds
  BY <1>7, Zenon DEF config
<1>9. NetworkInv'
  BY <1>1, <1>3, <1>6, <1>7, <1>8, ArrivalNetwork, Zenon
<1>10. CountInv' /\ RxOK(rx)'
  BY <1>1, <1>7, CountKept, Zenon DEF RxOK
<1> QED
  BY <1>7, <1>9, <1>10, QuietStep, Zenon

LEMMA TrafficStep ==
  ASSUME PmcInv, NEW auth \in AuthTlvs, traffic(auth)
  PROVE  PmcInv'
<1>1. CountInv /\ RxOK(rx) /\ NetworkInv
  BY Zenon DEF PmcInv
<1>2. PICK d \in Noise(auth) : inbox' = Append(inbox, d)
  BY Zenon DEF traffic
<1>3. auth \in AuthValues
  BY AuthTlvValues, Zenon
<1>4. d \in Datagrams
  BY <1>2, <1>3 DEF Datagrams
<1>5. /\ Len(inbox) < MaxInbox /\ Quiet
      /\ UNCHANGED <<config, pc, commands, pkts, timeout, msg, rx, requests>>
  BY Zenon DEF traffic
<1>6. use_uds' = use_uds
  BY <1>5, Zenon DEF config
<1>7. NetworkInv'
  BY <1>1, <1>2, <1>4, <1>5, <1>6, ArrivalNetwork, Zenon
<1>8. CountInv' /\ RxOK(rx)'
  BY <1>1, <1>5, CountKept, Zenon DEF RxOK
<1> QED
  BY <1>5, <1>7, <1>8, QuietStep, Zenon

LEMMA LoseStep == ASSUME PmcInv, NEW req, lose(req) PROVE PmcInv'
<1>1. CountInv /\ RxOK(rx) /\ NetworkInv
  BY Zenon DEF PmcInv
<1>2. /\ requests' = requests \ {req} /\ Quiet
      /\ UNCHANGED <<config, pc, commands, pkts, timeout, msg, rx, inbox, noise>>
  BY Zenon DEF lose
<1>3. NetworkInv'
  <2>1. requests' \subseteq {r \in Actions \X MngIds : r[1] \in mng_allowed(r[2])}
    BY <1>1, <1>2, Zenon DEF NetworkInv
  <2>2. inbox' = inbox /\ use_uds' = use_uds
    BY <1>2, Zenon DEF config
  <2> QED
    BY <1>1, <2>1, <2>2, Zenon DEF NetworkInv
<1>4. CountInv' /\ RxOK(rx)'
  BY <1>1, <1>2, CountKept, Zenon DEF RxOK
<1> QED
  BY <1>2, <1>3, <1>4, QuietStep, Zenon

LEMMA PmcStep ==
  ASSUME PmcInv, Step
  PROVE  PmcInv'
<1>1. ASSUME NEW c \in Commands, NEW values \in BOOLEAN, NEW sent \in BOOLEAN,
             run_line(c[1], c[2], values, sent)
      PROVE  PmcInv'
  <2>1. c[1] \in Actions /\ c[2] \in MngIds
    BY CommandsAssumption
  <2> QED
    BY <1>1, <2>1, RunLineStep, Zenon
<1>2. ASSUME NEW left \in 0 .. Wait, rcv_turn(left) PROVE PmcInv'
  <2>1. CountInv
    BY Zenon DEF PmcInv
  <2>2. inbox # <<>> /\ Receive
    BY <1>2, Zenon DEF rcv_turn
  <2>3. CountInv'
    BY <1>2, <2>1, TurnCount, Zenon
  <2> QED
    BY <2>2, <2>3, ReceiveStep, Zenon DEF PmcInv
<1>3. CASE net_rcv
  <2>1. CountInv
    BY Zenon DEF PmcInv
  <2>2. inbox # <<>> /\ Receive /\ UNCHANGED <<pc, pkts, timeout>>
    BY <1>3, Zenon DEF net_rcv
  <2>3. CountInv'
    BY <2>1, <2>2, CountKept, Zenon DEF Receive
  <2> QED
    BY <2>2, <2>3, ReceiveStep, Zenon DEF PmcInv
<1> QED
  BY <1>1, <1>2, <1>3, EndStep, ExpireStep, FailStep, Zenon DEF Step, rcv_timeout

LEMMA PmcInit == Init => PmcInv
<1> SUFFICES ASSUME Init PROVE PmcInv
  OBVIOUS
<1>1. CountInv
  BY BoundsAssumption, WaitAssumption DEF Init, CountInv
<1>2. MsgOK
  BY DEF Init, MsgOK, NewMessage, Actions, MngIds, EmptyIds
<1>3. RxOK(rx)
  BY NewRxOK, Zenon DEF Init
<1>4. NetworkInv
  <2>1. inbox = <<>> /\ requests = {}
    BY Zenon DEF Init
  <2> QED
    BY <2>1, BoundsAssumption DEF NetworkInv
<1>5. ConfigInv
  <2>1. use_uds \in BOOLEAN
    BY Zenon DEF Init
  <2>2. PICK haveAuth \in BOOLEAN :
          /\ allow \in IF haveAuth THEN 0 .. 2 ELSE {0}
          /\ p = [haveAuth |-> haveAuth, ignore |-> allow > 0,
                  rcvSignaling |-> mode = "net"]
    BY Zenon DEF Init
  <2>3. allow \in 0 .. 2
    BY <2>2
  <2>4. p.haveAuth = haveAuth /\ p.ignore = (allow > 0)
    <3> DEFINE ignore == allow > 0
               rcvSignaling == mode = "net"
    <3>1. p = [haveAuth |-> haveAuth, ignore |-> ignore,
               rcvSignaling |-> rcvSignaling]
      BY <2>2, Zenon
    <3> HIDE DEF ignore, rcvSignaling
    <3>2. p.haveAuth = haveAuth /\ p.ignore = ignore
      BY <3>1, Zenon
    <3> QED
      BY <3>2, Zenon DEF ignore
  <2> QED
    BY <2>1, <2>2, <2>3, <2>4, Zenon DEF ConfigInv
<1>6. ShownIsAccepted /\ BuildReadsOwnTlv
  BY DEF Init, ShownIsAccepted, BuildReadsOwnTlv, NotShown, NotBuilt
<1> QED
  BY <1>1, <1>2, <1>3, <1>4, <1>5, <1>6, Zenon DEF PmcInv

LEMMA PmcInvariant == Spec => []PmcInv
<1>1. ASSUME PmcInv, [Next]_vars PROVE PmcInv'
  <2>1. CASE Next
    BY <1>1, <2>1, PmcStep, SignalStep, AnswerStep, LoseStep, TrafficStep, Zenon
    DEF Next
  <2>2. CASE UNCHANGED vars
    BY <1>1, <2>2, Zenon DEF vars, PmcInv, CountInv, MsgOK, RxOK, NetworkInv,
       ConfigInv, ShownIsAccepted, Accepted, IsReply, BuildReadsOwnTlv
  <2> QED
    BY <1>1, <2>1, <2>2, Zenon
<1> QED
  BY <1>1, PmcInit, PTL DEF Spec

---------------------------------------------------------------------------
(* The theorems *)

\* The members of pmc and of its Message have their types, and main, which counts
\* the answers it still waits for, never counts below zero nor beyond the commands
\* it has sent, whatever is lost, duplicated or reordered.
THEOREM TypeCorrect == Spec => []TypeOK
<1>1. PmcInv => TypeOK
  <2> SUFFICES ASSUME PmcInv PROVE TypeOK
    OBVIOUS
  <2>1. pkts \in 0 .. MaxCommands
    BY BoundsAssumption DEF PmcInv, CountInv
  <2> QED
    BY <2>1, Zenon DEF PmcInv, CountInv, MsgOK, RxOK, NetworkInv, TypeOK
<1> QED
  BY <1>1, PmcInvariant, PTL

\* rcv, with keys: whatever the peers send, only a message whose authentication is
\* right is shown, or one without any with allow_unauth 1, or any with 2; and over a
\* UNIX domain socket with allow_unauth 1 also a message that is not a reply, as the
\* errors of the header and the action fall through to the one of a missing
\* authentication.  Over a network, or with allow_unauth 0, it is what man/pmc.8 says.
THEOREM ShownAccepted == Spec => []ShownIsAccepted
<1>1. PmcInv => ShownIsAccepted
  BY Zenon DEF PmcInv
<1> QED
  BY <1>1, PmcInvariant, PTL

\* call_data: a message is built with the TLV of its own builder or without data;
\* never with the TLV of an earlier builder, which is released.
THEOREM BuildReadsOwn == Spec => []BuildReadsOwnTlv
<1>1. PmcInv => BuildReadsOwnTlv
  BY Zenon DEF PmcInv
<1> QED
  BY <1>1, PmcInvariant, PTL

=============================================================================
