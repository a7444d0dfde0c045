---------------------------- MODULE MessageParse ----------------------------
(***************************************************************************)
(* The receive half of the class Message: parse of a datagram, parseAuth,  *)
(* parseSig, and what is left of it in the object for the getters.         *)
(*                                                                         *)
(* A datagram is a record:                                                 *)
(*   type    the message type: Management, Signaling or any other          *)
(*   defect  none, or what is wrong with its header or its length          *)
(*   action  the actionField                                               *)
(*   tlv     the type of the TLV of a management message                   *)
(*   id      its managementId                                              *)
(*   v       its dataField, or the display text of an error; "none" when   *)
(*           it has no octets                                              *)
(*   sigs    the TLVs of a signaling message: type and content             *)
(*   auth    its authentication TLV, which is the last TLV if there is one *)
(*                                                                         *)
(* The members of the object that parse sets are the record rx, and p has  *)
(* the parameters it depends on: haveAuth, ignore (RCV_AUTH_IGNORE) and    *)
(* rcvSignaling; otherwise rcvAuth is RCV_AUTH_ALL, the default.           *)
(***************************************************************************)
EXTENDS Message

NoTlv == "none"

NewRx == [type |-> NoTlv, mngType |-> NoTlv, replyAction |-> NoTlv,
          tlv_id |-> "NULL_PTP_MANAGEMENT",
          dataGet |-> [id |-> NoTlv, v |-> NoTlv], display |-> NoTlv,
          sigTlvs |-> <<>>, lastSig |-> FALSE]

(* parseAuth: what each authentication TLV leads to.                       *)
parseAuth(auth) ==
    CASE auth = "none" -> "AUTH_NONE"
      [] auth = "unknownKey" -> "AUTH_NOKEY"
      [] auth = "unsupported" -> "AUTH"
      [] auth = "wrong" -> "AUTH_WRONG"
      [] auth = "good" -> "OK"

errAuth(p, d) == IF p.haveAuth THEN parseAuth(d.auth) ELSE "OK"

(* parse returns at once with an authentication error.                     *)
Refuses(p, d) == errAuth(p, d) # "OK" /\ ~p.ignore

Sets(rx, err) == [err |-> err, rx |-> rx]

(* checkReplyAction                                                        *)
checkReplyAction(id, action) ==
    \/ action = "ACKNOWLEDGE" /\ "COMMAND" \in mng_allowed(id)
    \/ action = "RESPONSE" /\ mng_allowed(id) \intersect {"GET", "SET"} # {}

(* The filter of pmc: prms.allowSigTlv.                                    *)
SigTlvs == {"SLAVE_RX_SYNC_TIMING_DATA", "SLAVE_DELAY_TIMING_DATA_NP"}

(* parseSig: the TLVs of the filter are kept in their order, the previous  *)
(* ones are gone.                                                          *)
parseSig(p, rx, d) ==
    LET kept == SelectSeq(d.sigs, LAMBDA t : t.type \in SigTlvs)
        new == [rx EXCEPT !.lastSig = TRUE, !.sigTlvs = kept]
    IN  Sets(new, IF errAuth(p, d) = "OK" THEN "SIG" ELSE errAuth(p, d))

(* The two management TLVs, after the authentication.                      *)
parseError(p, rx, d) ==
    LET new == [rx EXCEPT !.replyAction = d.action, !.tlv_id = d.id]
    IN  IF ~checkReplyAction(d.id, d.action) THEN Sets(new, "ACTION")
        ELSE Sets([new EXCEPT !.display = IF d.v = NoTlv THEN @ ELSE d.v],
                  IF errAuth(p, d) = "OK" THEN "MSG" ELSE errAuth(p, d))

parseManagement(p, rx, d) ==
    LET new == [rx EXCEPT !.replyAction = d.action, !.tlv_id = d.id]
    IN  IF ~checkReplyAction(d.id, d.action) THEN Sets(new, "ACTION")
        ELSE Sets([new EXCEPT !.dataGet = IF d.v = NoTlv THEN @
                                          ELSE [id |-> d.id, v |-> d.v]],
                  errAuth(p, d))

parseMngTlv(p, rx, d) ==
    LET reply == d.action \in {"RESPONSE", "ACKNOWLEDGE"}
        new == [rx EXCEPT !.mngType = d.tlv, !.lastSig = FALSE]
    IN  IF ~reply /\ d.action # "COMMAND"
        THEN Sets([rx EXCEPT !.lastSig = FALSE], "ACTION")
        ELSE IF d.defect = "tlvLength" THEN Sets(new, "TOO_SMALL")
        ELSE IF Refuses(p, d) THEN Sets(new, errAuth(p, d))
        ELSE CASE d.tlv = "MANAGEMENT_ERROR_STATUS" ->
                    IF reply THEN parseError(p, new, d)
                    ELSE Sets(new, "ACTION")
               [] d.tlv = "MANAGEMENT" ->
                    IF reply THEN parseManagement(p, new, d)
                    ELSE Sets(new, "ACTION")
               [] OTHER -> Sets(new, "INVALID_TLV")

parse(p, rx, d) ==
    LET new == [rx EXCEPT !.type = d.type]
    IN  CASE d.defect = "short" -> Sets(rx, "TOO_SMALL")
          [] d.defect = "length" -> Sets(rx, "HEADER")
          [] \/ d.type \notin {"Management", "Signaling"}
             \/ d.type = "Signaling" /\ ~p.rcvSignaling
             \/ d.defect = "version" -> Sets(new, "HEADER")
          [] OTHER -> IF d.type = "Signaling" THEN parseSig(p, new, d)
                      ELSE parseMngTlv(p, new, d)

-----------------------------------------------------------------------------
(* MessageDispatcher::callHadler: the data that the handler of the id gets,*)
(* or none.                                                                *)
Dispatched(rx) ==
    IF isEmpty(rx.tlv_id) \/ rx.dataGet.id # rx.tlv_id THEN NoTlv
    ELSE rx.dataGet.v

(* traversSigTlvs                                                          *)
Traversed(rx) == IF rx.lastSig THEN rx.sigTlvs ELSE <<>>
=============================================================================
