------------------------------ MODULE Sockets ------------------------------
(***************************************************************************)
(* The sockets of the library (SockUnix, SockIp4, SockIp6 and SockRaw):    *)
(* their setters, init, close and the destructor, with the system calls    *)
(* they make, each of which may fail, and other programs that use the same *)
(* addresses.                                                              *)
(*                                                                         *)
(* The system's part is the record sys: bound has the open descriptors     *)
(* with the address each is bound to, names the addresses of Unix sockets  *)
(* that are taken, and others those that other programs took.  The address *)
(* of a Unix socket is a file, which stays until it is unlinked, or is     *)
(* abstract, and ends with its socket.                                     *)
(***************************************************************************)
EXTENDS ConfigFile

CONSTANTS
    Fds,          \* the descriptors socket returns
    Files,        \* the addresses of Unix sockets that are files
    Abstracts     \* those that are abstract

ASSUME FdsAssumption == -1 \notin Fds

VARIABLES
    sk,           \* the object: SockBase and the class it is of
    sys

NoName == "empty or too long"
NoFd == -1
Unbound == "unbound"
Kinds == {UDS, 2, 4, 6}

ASSUME AddressAssumption ==
    /\ Files # {}
    /\ {NoName, Unbound, "any", "mcast", "device"} \cap (Files \union Abstracts)
         = {}

NoSock == [kind |-> 0]

(* The constructors: nothing is set.                                       *)
NewVals(kind) ==
    CASE kind = UDS -> [peer |-> 0]
      [] kind = 4 -> [ttl |-> Unset]
      [] kind = 6 -> [ttl |-> Unset, scope |-> Unset]
      [] kind = 2 -> [priority |-> Unset, mac |-> 0]

NewSock(kind) ==
    [kind |-> kind, isInit |-> FALSE, fd |-> NoFd, me |-> NoName,
     haveIf |-> FALSE, vals |-> NewVals(kind), addr |-> "any"]

SockInit ==
    /\ sk = NoSock
    /\ sys = [bound |-> Empty, names |-> {}, others |-> {}]

-----------------------------------------------------------------------------
(* closeBase, as what it leaves of the system and of the object.  The      *)
(* destructor of SockBase calls it as well, but there closeChild is that   *)
(* of SockBase, which does nothing.                                        *)

Released(y, fd) ==
    IF fd = NoFd THEN y
    ELSE [y EXCEPT !.bound = Restrict(@, DOMAIN @ \ {fd}),
                   !.names = @ \ ({y.bound[fd]} \cap Abstracts)]

(* Mutant of closeChild: it does not ask whether the socket was initialised.*)
closeChild_always(s, y) ==
    IF s.kind = UDS /\ s.me \in Files
    THEN [y EXCEPT !.names = @ \ {s.me}]
    ELSE y

closeChild(s, y) ==
    IF s.kind = UDS /\ s.isInit /\ s.me \notin Abstracts
    THEN [y EXCEPT !.names = @ \ {s.me}]
    ELSE y

closeBase(s, y) == closeChild(s, Released(y, s.fd))

Closed(s) == [s EXCEPT !.fd = NoFd, !.isInit = FALSE]

-----------------------------------------------------------------------------
(* initBase and initIp.  The calls they make, in order.                    *)
UnixCalls == <<"socket", "bind">>
IpCalls == <<"socket", "REUSEADDR", "bind", "BINDTODEVICE">>
Ip4Calls == <<"TTL", "ADD_MEMBERSHIP", "LOOP", "IF">>
Ip6Calls == <<"scope", "HOPS", "ADD_MEMBERSHIP", "LOOP", "IF">>
RawCalls == <<"socket", "BINDTODEVICE", "PRIORITY", "FILTER",
              "ADD_MEMBERSHIP", "bind">>

Calls(kind) ==
    CASE kind = UDS -> UnixCalls
      [] kind = 4 -> IpCalls \o Ip4Calls
      [] kind = 6 -> IpCalls \o Ip6Calls
      [] kind = 2 -> RawCalls

Position(kind, call) ==
    CHOOSE i \in DOMAIN Calls(kind) : Calls(kind)[i] = call

CanInit(s) ==
    /\ ~s.isInit
    /\ CASE s.kind = UDS -> s.me # NoName
         [] s.kind \in {4, 6} -> s.haveIf /\ s.vals.ttl >= 0
         [] s.kind = 2 -> s.haveIf /\ s.vals.mac # 0 /\ s.vals.priority >= 0

(* Whether the first n calls may succeed and the next one fail: the check  *)
(* of the scope fails only when it is not set, and has to then, as bind to *)
(* an address that is taken.                                               *)
MaySucceed(s, y, n) ==
    /\ n \in 0..Len(Calls(s.kind))
    /\ Fds \subseteq DOMAIN y.bound => n = 0
    /\ s.kind = UDS /\ s.me \in y.names => n < Position(UDS, "bind")
    /\ s.kind = 6 => IF s.vals.scope < 0 THEN n < Position(6, "scope")
                     ELSE n + 1 # Position(6, "scope")

BindAddress(s) ==
    CASE s.kind = UDS -> s.me [] s.kind = 2 -> "device" [] OTHER -> s.addr

(* init of the object s, where n calls succeed.  A descriptor that init    *)
(* fails with stays open until the next init or close.  An IP socket that  *)
(* is initialised replaces the address it bound to by the multicast        *)
(* address, which it sends to.                                             *)
initBase(s, n) ==
    LET y == closeBase(s, sys)
        fd == CHOOSE d \in Fds \ DOMAIN y.bound : TRUE
        success == n = Len(Calls(s.kind))
        bound == n >= Position(s.kind, "bind")
    IN  IF ~CanInit(s) THEN n = 0 /\ sk' = s /\ UNCHANGED sys
        ELSE IF n = 0
        THEN MaySucceed(s, y, n) /\ sk' = Closed(s) /\ sys' = y
        ELSE /\ MaySucceed(s, y, n)
             /\ sk' = [s EXCEPT !.fd = fd, !.isInit = success,
                   !.addr = IF success /\ s.kind \in {4, 6} THEN "mcast"
                            ELSE @]
             /\ sys' = [y EXCEPT
                   !.bound = [d \in DOMAIN y.bound \union {fd} |->
                                IF d # fd THEN y.bound[d]
                                ELSE IF bound THEN BindAddress(s)
                                ELSE Unbound],
                   !.names = IF bound /\ s.kind = UDS THEN @ \union {s.me}
                             ELSE @]

-----------------------------------------------------------------------------
(* The setters: what they accept, and the object they leave.  All but that *)
(* of the peer refuse once the socket is initialised.                      *)
Accepts(key, val) ==
    CASE key = "ttl" -> TRUE
      [] key \in {"scope", "priority"} -> val <= 15
      [] key \in {"peer", "mac"} -> val # 0

Set(s, key, val) ==
    IF (s.isInit /\ key # "peer") \/ ~Accepts(key, val) THEN s
    ELSE [s EXCEPT !.vals[key] = val]

setSelfAddress(s, name) ==
    IF s.isInit \/ name = NoName THEN s ELSE [s EXCEPT !.me = name]

setIf(s, found) == IF s.isInit \/ ~found THEN s ELSE [s EXCEPT !.haveIf = TRUE]

(* An application that uses a socket by itself.                            *)
newSock(kind) == sk = NoSock /\ sk' = NewSock(kind) /\ UNCHANGED sys

setSock ==
    /\ \/ \E key \in DOMAIN sk.vals, val \in {0, 15, 16} :
            sk' = Set(sk, key, val)
       \/ \E name \in Files \union Abstracts \union {NoName} :
            sk.kind = UDS /\ sk' = setSelfAddress(sk, name)
       \/ \E found \in BOOLEAN : sk.kind # UDS /\ sk' = setIf(sk, found)
    /\ UNCHANGED sys

closeSock == sk' = Closed(sk) /\ sys' = closeBase(sk, sys)

deleteSock == sk' = NoSock /\ sys' = Released(sys, sk.fd)

(* Another program takes an address that is free, or gives up its own.     *)
otherBinds(name) ==
    /\ name \notin sys.names
    /\ sys' = [sys EXCEPT !.names = @ \union {name},
                          !.others = @ \union {name}]
    /\ UNCHANGED sk

otherEnds(name) ==
    /\ name \in sys.others
    /\ sys' = [sys EXCEPT !.names = @ \ {name}, !.others = @ \ {name}]
    /\ UNCHANGED sk

SockNext ==
    \/ \E kind \in Kinds : newSock(kind)
    \/ sk # NoSock /\ (setSock \/ closeSock \/ deleteSock)
    \/ sk # NoSock /\ \E n \in 0..Len(Calls(sk.kind)) : initBase(sk, n)
    \/ \E name \in Files \union Abstracts : otherBinds(name) \/ otherEnds(name)

-----------------------------------------------------------------------------
(* init, close and the destructor: the only descriptor that is open is the *)
(* one the object has, whatever failed before; a socket that is            *)
(* initialised is open and bound, a Unix socket to its own address, which  *)
(* no other program has; and the address of another program is never       *)
(* unlinked.                                                               *)
SocketKeepsItsOwn ==
    /\ sk = NoSock => DOMAIN sys.bound = {}
    /\ sk # NoSock => DOMAIN sys.bound = {sk.fd} \ {NoFd}
    /\ sk # NoSock /\ sk.isInit =>
         /\ sk.fd # NoFd /\ sys.bound[sk.fd] # Unbound
         /\ sk.kind = UDS =>
              sys.bound[sk.fd] = sk.me /\ sk.me \in sys.names \ sys.others
    /\ sys.others \subseteq sys.names

(* "User can close the socket, change this value, and initialize a new     *)
(* socket." (pub/sock.h:506): an IP socket receives what is sent to        *)
(* any address of its interface, also when it is initialised again.        *)
BoundToAny ==
    sk # NoSock /\ sk.kind \in {4, 6} /\ sk.fd # NoFd =>
        sys.bound[sk.fd] \in {"any", Unbound}

(* The destructor leaves no address behind.                                *)
AddressesRemoved == sk = NoSock => sys.names \subseteq sys.others
=============================================================================
