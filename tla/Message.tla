------------------------------ MODULE Message ------------------------------
(***************************************************************************)
(* The send half of the class Message of the library: the action, the id   *)
(* and the data of the next management message, the length planned for it  *)
(* and the length it has once it is built.                                 *)
(*                                                                         *)
(* A message object is a record with                                       *)
(*   linuxptp    m_prms.implementSpecific = linuxptp                       *)
(*   useZeroGet  m_prms.useZeroGet                                         *)
(*   mac         the octets of the ICV when it sends authentication TLVs   *)
(*               (m_haveAuth and m_prms.sendAuth), otherwise 0             *)
(*   sendAction, tlv_id, dataSend                                          *)
(*               the members m_sendAction, m_tlv_id and m_dataSend         *)
(* dataSend refers to an object the Message does not own.  The operators   *)
(* that look into the object take its content as a parameter: a record of  *)
(* its id and its value, or NoData.                                        *)
(***************************************************************************)
EXTENDS MngTlvs

NoData == [id |-> "none", v |-> <<>>]
NoObject == "nullptr"

mngMsgBaseSize == 54
authTlvSize == 10

NewMessage(linuxptp, useZeroGet, mac) ==
    [linuxptp |-> linuxptp, useZeroGet |-> useZeroGet, mac |-> mac,
     sendAction |-> "GET", tlv_id |-> "NULL_PTP_MANAGEMENT",
     dataSend |-> NoObject]

isEmpty(id) == mng_size(id) = 0

isValidId(m, id) == m.linuxptp \/ id \notin LinuxptpIds

allowedAction(m, id, action) ==
    isValidId(m, id) /\ action \in mng_allowed(id)

(* verifyTlv: the object has the class of the id.                          *)
verifyTlv(id, content) == ~isEmpty(id) /\ content.id = id

(* A SET or COMMAND of an id with a dataField.                             *)
NeedsData(action, id) ==
    id # "NULL_PTP_MANAGEMENT" /\ action # "GET" /\ ~isEmpty(id)

(* The arguments for which setAction returns true.                         *)
CanSetAction(m, action, id, content) ==
    /\ allowedAction(m, id, action)
    /\ NeedsData(action, id) => verifyTlv(id, content)

(* The message after setAction has returned true.                          *)
setAction(m, action, id, object) ==
    [m EXCEPT !.sendAction = action, !.tlv_id = id,
              !.dataSend = IF NeedsData(action, id) THEN object ELSE NoObject]

clearData(m) ==
    IF m.dataSend = NoObject THEN m
    ELSE [m EXCEPT !.sendAction = "GET", !.dataSend = NoObject]

-----------------------------------------------------------------------------
AuthOctets(m) == IF m.mac > 0 THEN authTlvSize + m.mac ELSE 0

(* The length of the message that build would make, or -2 when it cannot   *)
(* be calculated.                                                          *)
getMsgPlanedLen(m, content) ==
    LET get == m.sendAction = "GET"
        value == IF get \/ content = NoData THEN EmptyValue(m.tlv_id)
                 ELSE content.v
        size == IF mng_size(m.tlv_id) = -2 THEN dataFieldSize(m.tlv_id, value)
                ELSE mng_size(m.tlv_id)
    IN  IF get /\ m.useZeroGet THEN mngMsgBaseSize + AuthOctets(m)
        ELSE IF mng_size(m.tlv_id) = -2 /\ ~get /\ content = NoData THEN -2
        ELSE Even(size) + mngMsgBaseSize + AuthOctets(m)

(* The octets of the dataField: the data, or zeros for a GET.              *)
BuiltData(m, content) ==
    IF m.sendAction # "GET" /\ content # NoData
    THEN DataOctets(m.tlv_id, content.v)
    ELSE IF m.sendAction = "GET" /\ ~m.useZeroGet /\ ~isEmpty(m.tlv_id)
         THEN IF mng_size(m.tlv_id) = -2
              THEN dataFieldSize(m.tlv_id, EmptyValue(m.tlv_id))
              ELSE mng_size(m.tlv_id)
    ELSE 0

(* build in a buffer of bufSize octets: the error and the length built.    *)
(* digest is FALSE when the library fails to compute the ICV.              *)
build(m, content, bufSize, digest) ==
    LET len == mngMsgBaseSize + Even(BuiltData(m, content)) + AuthOctets(m)
        data == m.sendAction # "GET" /\ content # NoData
    IN  IF bufSize < mngMsgBaseSize THEN [err |-> "TOO_SMALL", len |-> 0]
        ELSE IF data /\ content.id # m.tlv_id
             THEN [err |-> "MISMATCH_TLV", len |-> 0]
        ELSE IF data /\ ~TextFits(m.tlv_id, content.v)
             THEN [err |-> "TOO_SMALL", len |-> 0]
        ELSE IF data /\ ~Fits48(m.tlv_id, content.v) /\
                bufSize >= mngMsgBaseSize + End48(m.tlv_id)
             THEN [err |-> "VAL", len |-> 0]
        ELSE IF len > bufSize THEN [err |-> "TOO_SMALL", len |-> 0]
        ELSE IF m.mac > 0 /\ ~digest THEN [err |-> "AUTH", len |-> 0]
        ELSE [err |-> "OK", len |-> len]
=============================================================================
