--------------------------- MODULE TlvMem_proofs ---------------------------
(***************************************************************************)
(* Proofs about TlvMem: every allocated block of a TLV memory is owned     *)
(* exactly once, and the wrapper of a message owns its only C++ copy, for  *)
(* any number of addresses, ids and texts.                                 *)
(***************************************************************************)
EXTENDS TlvMem, TLAPS

MemIds == Ids \union {"NULL_PTP_MANAGEMENT"}

MemType ==
    mem \in [tlv : Blocks \union {NoBlock}, id : MemIds, nalc : Seq(Blocks)]

MemInv == MemType /\ OwnedIsLive

-----------------------------------------------------------------------------
(* What the functions leave in the memory object, stated of the sequence of*)
(* its allocations alone.                                                  *)

(* The first two conjuncts of OwnedIsLive for a TLV t, allocations s and   *)
(* allocated blocks l.                                                     *)
Sound(t, s, l) ==
    /\ l = Elements(s) \union ({t} \ {NoBlock})
    /\ \A i, j \in DOMAIN s : s[i] = s[j] => i = j
    /\ t \notin Elements(s)

(* newTlv, clear: an object without further allocations is sound when      *)
(* everything it owned is freed.                                           *)
LEMMA FreshSound ==
    ASSUME NEW t, NEW l, l = {t} \ {NoBlock}
    PROVE  Sound(t, <<>>, l)
  BY DEF Sound, Elements

(* allocMem: a block that was free is remembered.                          *)
LEMMA AppendSound ==
    ASSUME NEW t, NEW s \in Seq(Blocks), NEW l, NEW b \in Blocks, b \notin l,
           Sound(t, s, l)
    PROVE  Sound(t, Append(s, b), l \union {b}) /\ Append(s, b) \in Seq(Blocks)
<1> DEFINE r == Append(s, b)
<1>1. /\ r \in Seq(Blocks) /\ DOMAIN r = 1..(Len(s) + 1)
      /\ DOMAIN s = 1..Len(s) /\ Len(s) \in Nat
      /\ \A i \in 1..Len(s) : r[i] = s[i]
      /\ r[Len(s) + 1] = b
  OBVIOUS
<1>2. Elements(r) = Elements(s) \union {b}
  BY <1>1, SMTT(30) DEF Elements
<1>3. \A i \in DOMAIN s : s[i] \in l
  BY DEF Sound, Elements
<1>4. \A i, j \in DOMAIN r : r[i] = r[j] => i = j
  BY <1>1, <1>3, SMTT(30) DEF Sound
<1>5. t # NoBlock => t \in l
  BY DEF Sound
<1> HIDE DEF r
<1>6. t \notin Elements(r)
  BY <1>2, <1>5, BlocksAssumption DEF Sound
<1>7. l \union {b} = Elements(r) \union ({t} \ {NoBlock})
  BY <1>2, BlocksAssumption DEF Sound
<1> QED
  BY <1>1, <1>4, <1>6, <1>7, SMTT(40) DEF Sound, r

(* realloc: the allocation at i moves to a free block, or stays.           *)
LEMMA MoveSound ==
    ASSUME NEW t, NEW s \in Seq(Blocks), NEW l, NEW i \in DOMAIN s,
           NEW c \in Blocks, c \notin l \/ c = s[i], Sound(t, s, l)
    PROVE  /\ Sound(t, [s EXCEPT ![i] = c], (l \ {s[i]}) \union {c})
           /\ [s EXCEPT ![i] = c] \in Seq(Blocks)
<1> DEFINE r == [s EXCEPT ![i] = c]
<1>1. /\ r \in Seq(Blocks) /\ DOMAIN r = DOMAIN s
      /\ r[i] = c /\ \A j \in DOMAIN s : j # i => r[j] = s[j]
  OBVIOUS
<1>2. \A j \in DOMAIN s : s[j] \in l
  BY DEF Sound, Elements
<1>3. \A j, k \in DOMAIN s : s[j] = s[k] => j = k
  BY DEF Sound
<1>4. \A j, k \in DOMAIN r : r[j] = r[k] => j = k
  BY <1>1, <1>2, <1>3
<1>5. Elements(r) = (Elements(s) \ {s[i]}) \union {c}
  BY <1>1, <1>3 DEF Elements
<1>6. t \notin Elements(s) /\ (t # NoBlock => t \in l) /\ s[i] \in Elements(s)
  BY DEF Sound, Elements
<1> HIDE DEF r
<1>7. t \notin Elements(r)
  BY <1>5, <1>6, BlocksAssumption
<1>8. (l \ {s[i]}) \union {c} = Elements(r) \union ({t} \ {NoBlock})
  BY <1>5, <1>6, BlocksAssumption DEF Sound
<1> QED
  BY <1>1, <1>4, <1>7, <1>8, ZenonT(40) DEF Sound, r

(* freeMem: the last allocation goes and is freed, whichever was asked for.*)
LEMMA EraseSound ==
    ASSUME NEW t, NEW s \in Seq(Blocks), NEW l, Len(s) > 0, Sound(t, s, l)
    PROVE  /\ Sound(t, SubSeq(s, 1, Len(s) - 1), l \ {s[Len(s)]})
           /\ SubSeq(s, 1, Len(s) - 1) \in Seq(Blocks)
<1> DEFINE r == SubSeq(s, 1, Len(s) - 1)
           n == Len(s)
<1>1. /\ n \in Nat /\ n > 0 /\ DOMAIN s = 1..n /\ n \in 1..n
      /\ r \in Seq(Blocks) /\ DOMAIN r = 1..(n - 1)
      /\ \A i \in 1..(n - 1) : r[i] = s[i]
      /\ \A i \in 1..n : i \in 1..(n - 1) \/ i = n
      /\ \A i \in 1..(n - 1) : i \in 1..n /\ i # n
  BY SMTT(30)
<1> HIDE DEF r, n
<1>2. \A j, k \in 1..n : s[j] = s[k] => j = k
  BY <1>1 DEF Sound
<1>3. Elements(r) = Elements(s) \ {s[n]}
  BY <1>1, <1>2 DEF Elements
<1>4. \A j, k \in DOMAIN r : r[j] = r[k] => j = k
  BY <1>1, <1>2
<1>5. t \notin Elements(s) /\ (t # NoBlock => t \in l) /\ s[n] \in Elements(s)
  BY <1>1 DEF Sound, Elements
<1>6. l \ {s[n]} = Elements(r) \union ({t} \ {NoBlock})
  BY <1>3, <1>5 DEF Sound
<1> QED
  BY <1>1, <1>3, <1>4, <1>5, <1>6, ZenonT(40) DEF Sound, r, n

-----------------------------------------------------------------------------
LEMMA InvOfSound ==
    MemInv <=> MemType /\ Sound(mem.tlv, mem.nalc, live)
  BY DEF MemInv, OwnedIsLive, Owned, Sound

LEMMA MemInvInit == Init => MemInv
  BY DEF Init, MemInv, MemType, MemIds, OwnedIsLive, Owned, Elements

(* A step that gives the object a new TLV and the allocations s, and frees *)
(* what it owned, keeps the invariant.                                     *)
LEMMA ReplaceKeeps ==
    ASSUME MemInv, NEW t \in Blocks \union {NoBlock}, NEW id \in MemIds,
           NEW s \in Seq(Blocks), NEW l,
           Sound(t, s, l),
           mem' = [tlv |-> t, id |-> id, nalc |-> s],
           live' = (live \ Owned) \union l
    PROVE  MemInv'
<1>1. live = Owned
  BY DEF MemInv, OwnedIsLive
<1>2. live' = l
  BY <1>1
<1>3. MemType'
  BY DEF MemType
<1>4. mem'.tlv = t /\ mem'.nalc = s
  OBVIOUS
<1>5. Sound(mem'.tlv, mem'.nalc, live')
  BY <1>2, <1>4, ZenonT(40)
<1> QED
  BY <1>3, <1>5 DEF MemInv, OwnedIsLive, Owned, Sound

(* A step that only changes the allocations keeps the invariant.           *)
LEMMA AllocsKeep ==
    ASSUME MemInv, NEW s \in Seq(Blocks),
           mem' = [mem EXCEPT !.nalc = s],
           Sound(mem.tlv, s, live')
    PROVE  MemInv'
<1>1. MemType'
  BY DEF MemInv, MemType
<1>2. mem'.tlv = mem.tlv /\ mem'.nalc = s
  BY DEF MemInv, MemType
<1>3. Sound(mem'.tlv, mem'.nalc, live')
  BY <1>2
<1> QED
  BY <1>1, <1>3 DEF MemInv, OwnedIsLive, Owned, Sound

LEMMA MoveKeeps ==
    ASSUME MemInv, NEW b, NEW c \in Free(live) \union {b}, Move(b, c)
    PROVE  MemInv'
<1>1. PICK i \in DOMAIN mem.nalc :
        /\ mem.nalc[i] = b
        /\ mem' = [mem EXCEPT !.nalc[i] = c]
        /\ live' = (live \ {b}) \union {c}
  BY ZenonT(40) DEF Move
<1>2. mem.nalc \in Seq(Blocks) /\ Sound(mem.tlv, mem.nalc, live)
  BY InvOfSound DEF MemType
<1>3. c \in Blocks /\ (c \notin live \/ c = mem.nalc[i])
  BY <1>1, <1>2 DEF Free
<1> DEFINE s == [mem.nalc EXCEPT ![i] = c]
<1>4. s \in Seq(Blocks) /\ Sound(mem.tlv, s, (live \ {mem.nalc[i]}) \union {c})
  BY <1>2, <1>3, MoveSound
<1>5. mem' = [mem EXCEPT !.nalc = s]
  BY <1>1
<1> HIDE DEF s
<1> QED
  BY <1>1, <1>4, <1>5, AllocsKeep, ZenonT(40)

LEMMA EraseKeeps ==
    ASSUME MemInv, NEW b, EraseElement(b)
    PROVE  MemInv'
<1> DEFINE s == SubSeq(mem.nalc, 1, Len(mem.nalc) - 1)
<1>1. /\ b \in Elements(mem.nalc)
      /\ mem' = [mem EXCEPT !.nalc = s]
      /\ live' = live \ {mem.nalc[Len(mem.nalc)]}
  BY DEF EraseElement
<1>2. mem.nalc \in Seq(Blocks) /\ Sound(mem.tlv, mem.nalc, live)
  BY InvOfSound DEF MemType
<1>3. Len(mem.nalc) > 0
  BY <1>1, <1>2 DEF Elements
<1>4. s \in Seq(Blocks)
      /\ Sound(mem.tlv, s, live \ {mem.nalc[Len(mem.nalc)]})
  BY SMTT(40), <1>2, <1>3, EraseSound
<1> HIDE DEF s
<1> QED
  BY <1>1, <1>4, AllocsKeep, ZenonT(40)

LEMMA RememberKeeps ==
    ASSUME MemInv, NEW b \in Free(live), Remember(b)
    PROVE  MemInv'
<1> DEFINE s == Append(mem.nalc, b)
<1>1. mem' = [mem EXCEPT !.nalc = s] /\ live' = live \union {b}
  BY DEF Remember
<1>2. mem.nalc \in Seq(Blocks) /\ Sound(mem.tlv, mem.nalc, live)
  BY InvOfSound DEF MemType
<1>3. s \in Seq(Blocks) /\ Sound(mem.tlv, s, live \union {b})
  BY <1>2, AppendSound DEF Free
<1> HIDE DEF s
<1> QED
  BY <1>1, <1>3, AllocsKeep, ZenonT(40)

LEMMA ReplaceTlvKeeps ==
    ASSUME MemInv, NEW b \in Blocks, NEW id \in MemIds, ReplaceTlv(b, id)
    PROVE  MemInv'
<1>1. <<>> \in Seq(Blocks) /\ Sound(b, <<>>, {b})
  BY FreshSound, BlocksAssumption
<1> QED
  BY <1>1, ReplaceKeeps, ZenonT(40) DEF ReplaceTlv

LEMMA ClearKeeps ==
    ASSUME MemInv, clear
    PROVE  MemInv'
<1>1. <<>> \in Seq(Blocks) /\ Sound(NoBlock, <<>>, {})
  BY FreshSound
<1>2. live' = (live \ Owned) \union {}
  BY DEF clear
<1> QED
  BY <1>1, <1>2, ReplaceKeeps, ZenonT(40) DEF clear, MemIds

LEMMA CopyKeeps ==
    ASSUME MemInv, NEW id \in Ids, NEW parts \in Parts(id),
           copyTlv(id, parts)
    PROVE  MemInv'
<1>0. PICK b \in Free(live), n \in 0..Len(parts) :
        \E copies \in Copies(n, b) :
          \/ /\ mem' = [tlv |-> b, id |-> id, nalc |-> copies]
             /\ live' = (live \ Owned) \union {b} \union Elements(copies)
          \/ /\ live' = (live \union {b} \union Elements(copies)) \ FreeCopies(b, copies)
             /\ UNCHANGED mem
  BY ZenonT(40) DEF copyTlv
<1>1. PICK copies \in Copies(n, b) :
        \/ /\ mem' = [tlv |-> b, id |-> id, nalc |-> copies]
           /\ live' = (live \ Owned) \union {b} \union Elements(copies)
        \/ /\ live' = (live \union {b} \union Elements(copies)) \ FreeCopies(b, copies)
           /\ UNCHANGED mem
  BY <1>0, ZenonT(40)
<1>2. /\ copies \in [1..n -> Free(live \union {b})]
      /\ \A i, j \in DOMAIN copies : copies[i] = copies[j] => i = j
  <2>1. /\ copies \in [1..n -> Free(live \union {b})]
        /\ \A i, j \in 1..n : copies[i] = copies[j] => i = j
    BY <1>1, Zenon DEF Copies
  <2> QED
    BY <2>1, Zenon
<1>6. b \in Blocks /\ b \notin Elements(copies)
  BY <1>2 DEF Free, Elements
<1>3. CASE /\ mem' = [tlv |-> b, id |-> id, nalc |-> copies]
           /\ live' = (live \ Owned) \union {b} \union Elements(copies)
  <2>1. copies \in Seq(Blocks)
    <3>1. n \in Nat
      BY <1>0
    <3> QED
      BY <1>2, <3>1, SMTT(40) DEF Free
  <2>2. Sound(b, copies, {b} \union Elements(copies))
    BY <1>2, <1>6, BlocksAssumption, SMTT(40) DEF Sound
  <2>3. live' = (live \ Owned) \union ({b} \union Elements(copies))
    BY <1>3
  <2> QED
    BY <1>3, <1>6, <2>1, <2>2, <2>3, ReplaceKeeps, SMTT(40) DEF MemIds
\* What was allocated was not in use, and all of it is freed.
<1>4. CASE /\ live' = (live \union {b} \union Elements(copies)) \ FreeCopies(b, copies)
           /\ UNCHANGED mem
  <2>1. b \notin live /\ \A x \in Elements(copies) : x \notin live
    BY <1>2 DEF Free, Elements
  <2>2. live' = live
    BY <1>4, <2>1 DEF FreeCopies
  <2> QED
    BY <1>4, <2>2 DEF MemInv, MemType, OwnedIsLive, Owned
<1> QED
  BY <1>1, <1>3, <1>4, Zenon

LEMMA BuildKeeps ==
    ASSUME MemInv, NEW action, NEW id \in Ids, NEW len,
           buildTlvData(action, id, len)
    PROVE  MemInv'
<1>1. PICK b \in Free(live) :
        \/ ReplaceTlv(b, id)
        \/ \E c \in Free((live \ Owned) \union {b}) :
             /\ mem' = [tlv |-> b, id |-> id, nalc |-> <<c>>]
             /\ live' = (live \ Owned) \union {b, c}
  BY Zenon DEF buildTlvData
<1>2. b \in Blocks /\ id \in MemIds
  BY DEF Free, MemIds
<1>3. CASE ReplaceTlv(b, id)
  BY SMTT(40), <1>2, <1>3, ReplaceTlvKeeps
<1>4. CASE \E c \in Free((live \ Owned) \union {b}) :
             /\ mem' = [tlv |-> b, id |-> id, nalc |-> <<c>>]
             /\ live' = (live \ Owned) \union {b, c}
  <2>1. PICK c \in Free((live \ Owned) \union {b}) :
             /\ mem' = [tlv |-> b, id |-> id, nalc |-> <<c>>]
             /\ live' = (live \ Owned) \union {b, c}
    BY SMTT(40), <1>4
  <2>2. c \in Blocks /\ c # b
    BY DEF Free
  <2>3. <<c>> \in Seq(Blocks) /\ Elements(<<c>>) = {c}
    BY <2>2 DEF Elements
  <2>4. \A i, j \in DOMAIN <<c>> : <<c>>[i] = <<c>>[j] => i = j
    OBVIOUS
  <2>5. Sound(b, <<c>>, {b, c})
    BY <1>2, <2>2, <2>3, <2>4, BlocksAssumption, SMTT(40) DEF Sound
  <2> QED
    BY <1>2, <2>1, <2>3, <2>5, ReplaceKeeps, ZenonT(40)
<1> QED
  BY SMTT(40), <1>1, <1>3, <1>4

LEMMA MemInvNext == MemInv /\ [Next]_vars => MemInv'
<1> SUFFICES ASSUME MemInv, [Next]_vars PROVE MemInv'
  OBVIOUS
<1>1. ASSUME UNCHANGED <<mem, live>> PROVE MemInv'
  BY <1>1 DEF MemInv, MemType, OwnedIsLive, Owned
<1>2. CASE \E id \in Ids : newTlv(id)
  BY <1>2, ReplaceTlvKeeps DEF newTlv, Free, MemIds
<1>3. CASE clear /\ UNCHANGED msgVars
  BY SMTT(40), <1>3, ClearKeeps
<1>4. CASE \E id \in Ids : \E parts \in Parts(id) : copyTlv(id, parts)
  BY SMTT(40), <1>4, CopyKeeps
<1>5. CASE allocMem
  BY <1>5, RememberKeeps, SMTT(40) DEF allocMem
<1>6. CASE \E len \in TextLengths : allocString(len)
  BY <1>6, RememberKeeps DEF allocString
<1>7. CASE \E b \in held : reallocMem(b)
  BY <1>7, MoveKeeps, SMTT(40) DEF reallocMem
<1>8. CASE \E len \in TextLengths : reallocString(len)
  <2>1. \/ UNCHANGED <<mem, live>>
        \/ \E c \in Free(live) \union {text.textField} :
             Move(text.textField, c)
    BY <1>8 DEF reallocString
  <2> QED
    BY SMTT(40), <2>1, <1>1, MoveKeeps
<1>9. CASE \E b \in held : freeMem(b)
  BY <1>9, EraseKeeps, SMTT(40) DEF freeMem
<1>10. CASE freeString
  BY <1>10, EraseKeeps, SMTT(40) DEF freeString
<1>11. CASE \E action \in Actions : msg_setAction(action)
  BY <1>11, <1>1, SMTT(40) DEF msg_setAction, memVars
<1>12. CASE msg_clearData
  BY <1>12, <1>1, SMTT(40) DEF msg_clearData, memVars
<1>13. CASE \E action \in Actions, id \in Ids : buildTlvNoData(action, id)
  BY <1>13, <1>1, SMTT(40) DEF buildTlvNoData, memVars
<1>14. CASE \E action \in Actions, id \in Ids, len \in TextLengths \ {0} :
              buildTlvData(action, id, len)
  BY SMTT(40), <1>14, BuildKeeps
<1>15. CASE builder_clear
  BY <1>15, ClearKeeps, SMTT(40) DEF builder_clear
<1>16. CASE UNCHANGED vars
  BY <1>16, <1>1 DEF vars
<1> QED
  BY <1>2, <1>3, <1>4, <1>5, <1>6, <1>7, <1>8, <1>9, <1>10, <1>11, <1>12,
     SMTT(40), <1>13, <1>14, <1>15, <1>16 DEF Next

(* tlv_mem: in every state every allocated block is owned exactly once, so *)
(* that nothing leaks and nothing is freed twice, for any application.     *)
THEOREM NoLeakNoDoubleFree == Spec => []OwnedIsLive
<1>1. MemInv => OwnedIsLive
  BY DEF MemInv
<1> QED
  BY <1>1, MemInvInit, MemInvNext, PTL DEF Spec

-----------------------------------------------------------------------------
CopyInv == sendTlv \in Objects \union {NoObject} /\ OneCopy

LEMMA SetActionDataKeeps ==
    ASSUME CopyInv, NEW action, NEW id, NEW tlv, NEW content,
           SetActionData(action, id, tlv, content)
    PROVE  CopyInv'
<1>1. PICK o \in Objects \ DOMAIN objects :
        /\ objects' = [x \in (DOMAIN objects \ {sendTlv}) \union {o} |->
                         IF x = o THEN content ELSE objects[x]]
        /\ sendTlv' = o
  BY DEF SetActionData
<1>2. DOMAIN objects' = {o}
  BY <1>1 DEF CopyInv, OneCopy
<1> QED
  BY <1>1, <1>2, BlocksAssumption, SMTT(40) DEF CopyInv, OneCopy

(* ptpmgmt_msg_setAction: the wrapper owns every C++ copy that is          *)
(* allocated, so that the copy of a TLV is freed with the next one or with *)
(* the wrapper.                                                            *)
THEOREM WrapperOwnsItsCopy == Spec => []OneCopy
<1>1. Init => CopyInv
  BY DEF Init, CopyInv, OneCopy
<1>2. CopyInv /\ [Next]_vars => CopyInv'
  <2> SUFFICES ASSUME CopyInv, [Next]_vars PROVE CopyInv'
    OBVIOUS
  <2>1. ASSUME UNCHANGED <<sendTlv, objects>> PROVE CopyInv'
    BY <2>1 DEF CopyInv, OneCopy
  <2>2. CASE \E action \in Actions : msg_setAction(action)
    BY <2>2, SetActionDataKeeps DEF msg_setAction
  <2>3. CASE \E action \in Actions, id \in Ids, len \in TextLengths \ {0} :
               buildTlvData(action, id, len)
    <3>1. PICK action \in Actions, id \in Ids, len \in TextLengths \ {0} :
            buildTlvData(action, id, len)
      BY <2>3
    <3>2. \/ UNCHANGED msgVars
          \/ \E tlv, content : SetActionData(action, id, tlv, content)
      BY <3>1, Zenon DEF buildTlvData
    <3> QED
      BY <3>2, <2>1, SetActionDataKeeps, SMTT(40) DEF msgVars
  <2>4. CASE \E action \in Actions, id \in Ids : buildTlvNoData(action, id)
    BY <2>4, <2>1, SMTT(40) DEF buildTlvNoData, SetActionNoData
  <2>5. CASE \/ \E id \in Ids : newTlv(id)
             \/ clear /\ UNCHANGED msgVars
             \/ \E id \in Ids : \E parts \in Parts(id) : copyTlv(id, parts)
             \/ allocMem
             \/ \E len \in TextLengths : allocString(len)
             \/ \E b \in held : reallocMem(b)
             \/ \E len \in TextLengths : reallocString(len)
             \/ \E b \in held : freeMem(b)
             \/ freeString
             \/ msg_clearData
             \/ builder_clear
    BY <2>5, <2>1, SMTT(40)
    DEF newTlv, copyTlv, allocMem, allocString, reallocMem, reallocString,
        freeMem, freeString, msg_clearData, builder_clear,
       msgVars
  <2>6. CASE UNCHANGED vars
    BY <2>6, <2>1 DEF vars
  <2> QED
    BY <2>2, <2>3, <2>4, <2>5, <2>6, SMTT(40) DEF Next
<1>3. CopyInv => OneCopy
  BY DEF CopyInv
<1> QED
  BY <1>1, <1>2, <1>3, PTL DEF Spec
=============================================================================
