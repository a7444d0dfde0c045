------------------------------- MODULE TlvMem -------------------------------
(***************************************************************************)
(* The C interface that sends a management message: the memory object of a *)
(* TLV (ptpmgmt_tlv_mem), the builder that fills one (ptpmgmt_builder) and *)
(* the C wrapper of a Message, which keeps its own C++ copy of the data.   *)
(*                                                                         *)
(* The application calls the functions of the interface in any order, with *)
(* pointers that the interface gave it and that it has not released.       *)
(* malloc may fail, and may return an address that was freed before.       *)
(***************************************************************************)
EXTENDS Message, FiniteSets

CONSTANTS
    Blocks,        \* the addresses malloc returns
    Objects,       \* the addresses of C++ copies of a TLV
    Ids,           \* the management ids the application uses
    TextLengths,   \* the lengths of its texts
    MaxAllocs      \* bound: blocks a TLV memory holds besides the TLV

NoBlock == "NULL"

ASSUME BlocksAssumption ==
    NoBlock \notin Blocks /\ NoObject \notin Objects

VARIABLES
    mem,        \* the ptpmgmt_tlv_mem: tlv, id and _memHndl (nalc)
    text,       \* the PTPText_t of the TLV: textField and lengthField
    live,       \* the addresses of Blocks that are allocated
    held,       \* the addresses the application got and did not release
    msg,        \* the Message of the wrapper
    sendTlv,    \* the C++ copy the wrapper owns
    objects,    \* the content of the C++ objects that are allocated
    dataSend    \* the data given last, for getSendData of the wrapper

vars == <<mem, text, live, held, msg, sendTlv, objects, dataSend>>
memVars == <<mem, text, live, held>>
msgVars == <<msg, sendTlv, objects, dataSend>>

NoText == [textField |-> NoBlock, lengthField |-> 0]

Elements(s) == {s[i] : i \in DOMAIN s}

(* The blocks the memory object frees when it is freed.                    *)
Owned == Elements(mem.nalc) \union ({mem.tlv} \ {NoBlock})

(* ptpmgmt_tlv_mem_alloc, ptpmgmt_msg_alloc_prms and                       *)
(* ptpmgmt_builder_alloc.                                                  *)
Init ==
    /\ mem = [tlv |-> NoBlock, id |-> "NULL_PTP_MANAGEMENT", nalc |-> <<>>]
    /\ text = NoText
    /\ live = {} /\ held = {}
    /\ \E linuxptp \in BOOLEAN : msg = NewMessage(linuxptp, FALSE, 0)
    /\ sendTlv = NoObject
    /\ objects = <<>>
    /\ dataSend = NoBlock

-----------------------------------------------------------------------------
(* The memory of a TLV.                                                    *)

Free(s) == Blocks \ s

(* _tlv_mem_clearTlv, when the TLV b of id replaces what the object holds. *)
ReplaceTlv(b, id) ==
    /\ mem' = [tlv |-> b, id |-> id, nalc |-> <<>>]
    /\ live' = (live \ Owned) \union {b}
    /\ held' = {}
    /\ text' = NoText

newTlv(id) ==
    /\ ~isEmpty(id)                       \* tlv_c_size[id] > 0
    /\ \E b \in Free(live) : ReplaceTlv(b, id)
    /\ UNCHANGED msgVars

clear ==
    /\ mem' = [tlv |-> NoBlock, id |-> "NULL_PTP_MANAGEMENT", nalc |-> <<>>]
    /\ live' = live \ Owned
    /\ held' = {}
    /\ text' = NoText

(* The blocks that malloc returns for the first n parts of a TLV, with the *)
(* address b taken.                                                        *)
Copies(n, b) ==
    {s \in [1..n -> Free(live \union {b})] :
        \A i, j \in 1..n : s[i] = s[j] => i = j}

(* Mutant of FreeCopies: the vector of the copies does not own them.       *)
FreeCopies_tlvOnly(b, copies) == {b}

(* What a failing copyTlv frees: the TLV, and with _nalc the copies.       *)
FreeCopies(b, copies) == {b} \union Elements(copies)

(* copyTlv and copy: the copies are collected in a vector of their own, and*)
(* the TLV is only replaced when all of them succeeded.  After n parts, the*)
(* next one may fail: it is empty, or malloc fails.                        *)
copyTlv(id, parts) ==
    /\ ~isEmpty(id)
    /\ \E b \in Free(live), n \in 0..Len(parts) :
         /\ n < Cardinality(Free(live))
         /\ \A i \in 1..n : parts[i] > 0
         /\ \E copies \in Copies(n, b) :
              \/ /\ n = Len(parts)
                 /\ mem' = [tlv |-> b, id |-> id, nalc |-> copies]
                 /\ live' = (live \ Owned) \union {b} \union Elements(copies)
                 /\ held' = Elements(copies)
                 /\ text' =
                      IF id = "USER_DESCRIPTION"
                      THEN [textField |-> copies[1], lengthField |-> parts[1]]
                      ELSE NoText
              \/ /\ n < Len(parts)
                 /\ live' = (live \union {b} \union Elements(copies))
                               \ FreeCopies(b, copies)
                 /\ UNCHANGED <<mem, held, text>>
    /\ UNCHANGED msgVars

(* allocMem and callocMem: the block b is zeroed and remembered.           *)
Remember(b) ==
    /\ mem.tlv # NoBlock
    /\ Len(mem.nalc) < MaxAllocs
    /\ mem' = [mem EXCEPT !.nalc = Append(@, b)]
    /\ live' = live \union {b}
    /\ held' = held \union {b}

allocMem ==
    /\ \E b \in Free(live) : Remember(b)
    /\ UNCHANGED text
    /\ UNCHANGED msgVars

(* allocString and allocStringLen, stored in the TLV.                      *)
allocString(len) ==
    /\ len > 0 /\ len <= UINT8_MAX
    /\ \E b \in Free(live) :
         /\ Remember(b)
         /\ text' = [textField |-> b, lengthField |-> len]
    /\ UNCHANGED msgVars

(* realloc moves the block b to c, or leaves it where it is.               *)
Move(b, c) ==
    \E i \in DOMAIN mem.nalc :
        /\ mem.nalc[i] = b
        /\ \A j \in DOMAIN mem.nalc : mem.nalc[j] = b => i <= j
        /\ mem' = [mem EXCEPT !.nalc[i] = c]
        /\ live' = (live \ {b}) \union {c}
        /\ held' = (held \ {b}) \union {c}

(* reallocMem and recallocMem; without a block they are allocMem.          *)
reallocMem(b) ==
    /\ mem.tlv # NoBlock
    /\ \E c \in Free(live) \union {b} :
         /\ Move(b, c)
         /\ text' = IF text.textField = b THEN [text EXCEPT !.textField = c]
                    ELSE text
    /\ UNCHANGED msgVars

(* reallocString and reallocStringLen: only a longer text needs memory.    *)
reallocString(len) ==
    /\ text # NoText
    /\ mem.tlv # NoBlock
    /\ len > 0 /\ len <= UINT8_MAX
    /\ \/ /\ len <= text.lengthField
          /\ text' = [text EXCEPT !.lengthField = len]
          /\ UNCHANGED <<mem, live, held>>
       \/ /\ len > text.lengthField
          /\ \E c \in Free(live) \union {text.textField} :
               /\ Move(text.textField, c)
               /\ text' = [textField |-> c, lengthField |-> len]
    /\ UNCHANGED msgVars

(* _tlv_mem_freeMem.  vector::erase assigns each element after b to the one*)
(* before it and destroys the last; the assignment of unq_cptr does        *)
(* nothing, so the element that goes, and is freed, is the last one.       *)
EraseElement(b) ==
    LET last == mem.nalc[Len(mem.nalc)]
    IN  /\ b \in Elements(mem.nalc)
        /\ mem' = [mem EXCEPT !.nalc = SubSeq(@, 1, Len(@) - 1)]
        /\ live' = live \ {last}
        /\ held' = held \ {b}

freeMem(b) ==
    /\ EraseElement(b)
    /\ text' = IF text.textField = b THEN NoText ELSE text
    /\ UNCHANGED msgVars

freeString ==
    /\ EraseElement(text.textField)
    /\ text' = NoText
    /\ UNCHANGED msgVars

-----------------------------------------------------------------------------
(* The wrapper of the Message.                                             *)

(* The content c2cppMngTlv reads from the TLV of the memory object.        *)
TlvContent(id, txt) ==
    [id |-> id, v |-> IF id \in VariableIds
                      THEN [i \in DOMAIN EmptyValue(id) |-> txt.lengthField]
                      ELSE <<>>]

(* ptpmgmt_msg_setAction without data.                                     *)
SetActionNoData(action, id) ==
    /\ CanSetAction(msg, action, id, NoData)
    /\ msg' = setAction(msg, action, id, NoObject)
    /\ UNCHANGED <<sendTlv, objects, dataSend>>

(* Mutant of SetActionData: the previous copy is not deleted.              *)
SetActionData_keepOld(action, id, tlv, content) ==
    \E o \in Objects \ DOMAIN objects :
        /\ objects' = [x \in DOMAIN objects \union {o} |->
                         IF x = o THEN content ELSE objects[x]]
        /\ sendTlv' = o
        /\ dataSend' = tlv
        /\ msg' = setAction(msg, action, id, o)

(* ptpmgmt_msg_setAction with data: the copy o replaces the previous one   *)
(* before Message::setAction decides whether it accepts it.                *)
SetActionData(action, id, tlv, content) ==
    \E o \in Objects \ DOMAIN objects :
        /\ objects' = [x \in (DOMAIN objects \ {sendTlv}) \union {o} |->
                         IF x = o THEN content ELSE objects[x]]
        /\ sendTlv' = o
        /\ dataSend' = tlv
        /\ msg' = IF CanSetAction(msg, action, id, content)
                  THEN setAction(msg, action, id, o)
                  ELSE msg

(* The application gives its TLV to the message.                           *)
msg_setAction(action) ==
    /\ mem.tlv # NoBlock
    /\ action # "GET"
    /\ SetActionData(action, mem.id, mem.tlv, TlvContent(mem.id, text))
    /\ UNCHANGED memVars

msg_clearData ==
    /\ msg' = clearData(msg)
    /\ UNCHANGED <<sendTlv, objects, dataSend>>
    /\ UNCHANGED memVars

-----------------------------------------------------------------------------
(* The builder.                                                            *)

(* buildTlv of a GET, or of an id without data.                            *)
buildTlvNoData(action, id) ==
    /\ isValidId(msg, id)
    /\ action = "GET" \/ isEmpty(id)
    /\ SetActionNoData(action, id)
    /\ UNCHANGED memVars

(* buildTlv with data: newTlv, then the callback of the application, which *)
(* stores a text of len octets in a TLV that has one.  It returns false    *)
(* when it is not assigned or could not allocate the text.                 *)
buildTlvData(action, id, len) ==
    /\ isValidId(msg, id)
    /\ action # "GET" /\ ~isEmpty(id)
    /\ \E b \in Free(live) :
       \/ /\ ReplaceTlv(b, id)                         \* returns false
          /\ UNCHANGED msgVars
       \/ /\ id \notin VariableIds
          /\ ReplaceTlv(b, id)
          /\ SetActionData(action, id, b, TlvContent(id, NoText))
       \/ /\ id \in VariableIds
          /\ \E c \in Free((live \ Owned) \union {b}) :
               LET txt == [textField |-> c, lengthField |-> len]
               IN  /\ mem' = [tlv |-> b, id |-> id, nalc |-> <<c>>]
                   /\ live' = (live \ Owned) \union {b, c}
                   /\ held' = {c}
                   /\ text' = txt
                   /\ SetActionData(action, id, b, TlvContent(id, txt))

builder_clear ==
    /\ clear
    /\ msg' = clearData(msg)
    /\ UNCHANGED <<sendTlv, objects, dataSend>>

-----------------------------------------------------------------------------
(* The lengths of the parts of a TLV of id that copyTlv copies, the same   *)
(* for all of them: an empty part fails like a malloc, and that can fail at*)
(* any part.                                                               *)
Parts(id) == {[i \in DOMAIN EmptyValue(id) |-> len] : len \in TextLengths}

Next ==
    \/ \E id \in Ids : newTlv(id)
    \/ clear /\ UNCHANGED msgVars
    \/ \E id \in Ids : \E parts \in Parts(id) : copyTlv(id, parts)
    \/ allocMem
    \/ \E len \in TextLengths : allocString(len)
    \/ \E b \in held : reallocMem(b)
    \/ \E len \in TextLengths : reallocString(len)
    \/ \E b \in held : freeMem(b)
    \/ freeString
    \/ \E action \in Actions : msg_setAction(action)
    \/ msg_clearData
    \/ \E action \in Actions, id \in Ids : buildTlvNoData(action, id)
    \/ \E action \in Actions, id \in Ids, len \in TextLengths \ {0} :
         buildTlvData(action, id, len)
    \/ builder_clear

Spec == Init /\ [][Next]_vars

-----------------------------------------------------------------------------
(* tlv_mem: every block that is allocated is owned exactly once: no block  *)
(* leaks and none is freed twice, whatever was copied, moved, erased or    *)
(* replaced, and also when a copy fails half way.                          *)
OwnedIsLive ==
    /\ live = Owned
    /\ \A i, j \in DOMAIN mem.nalc : mem.nalc[i] = mem.nalc[j] => i = j
    /\ mem.tlv \notin Elements(mem.nalc)

(* freeMem releases the memory it is given: "@return true if memory belong *)
(* to this memory tlv and successfuly released" (pub/c/msg.h:944).  So a   *)
(* pointer that the application got and did not release points to          *)
(* allocated memory.                                                       *)
HeldIsLive == held \subseteq live

(* The wrapper owns at most one C++ copy.                                  *)
OneCopy == DOMAIN objects = {sendTlv} \ {NoObject}

(* getSendData: the data of the next message is allocated.                 *)
SendDataAlive == msg.dataSend # NoObject => msg.dataSend \in DOMAIN objects
=============================================================================
