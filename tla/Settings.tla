------------------------------ MODULE Settings ------------------------------
(***************************************************************************)
(* How an application gets its settings: the command line (Options), the   *)
(* configuration file (ConfigFile), the file of security associations      *)
(* (SaFile), and Init::process, which combines them into the parameters of *)
(* the Message and a socket.                                               *)
(*                                                                         *)
(* An application reads a file by itself, uses a socket by itself, or      *)
(* parses its command line and calls process, which reads files as well.   *)
(* A file is read in a step per line.  The options have the names of the   *)
(* code (startOptions), and integers as values.                            *)
(***************************************************************************)
EXTENDS Message, Sockets

CONSTANTS
    Args,        \* the arguments a command line may have: <<option, value>>
    MaxArgs,     \* bound: arguments of a command line
    Sections,    \* the names of the sections of configuration files
    CfgFiles,    \* the configuration files there are: name |-> lines
    SaFiles,     \* the files of associations there are: name |-> lines
    CfgLines,    \* the lines of a configuration file read by itself
    SaLines,     \* the lines of a file of associations read by itself
    MaxLines     \* bound: lines of these

ASSUME SectionsAssumption == "global" \in Sections

(* The lines there are: a section has a name, a value has one of the keys  *)
(* of ranges, and a key one of the types of key_cfg.  A line with anything *)
(* else is ignored or wrong.                                               *)
IsCfgLine(line) ==
    /\ line.kind = "section" => line.name \in Sections
    /\ line.kind = "value" => line.key \in CfgKeys
IsSaLine(line) == line.kind = "key" => line.type \in DOMAIN key_cfg

ASSUME FilesAssumption ==
    /\ \A line \in CfgLines : IsCfgLine(line)
    /\ \A line \in SaLines : IsSaLine(line)
    /\ \A f \in DOMAIN CfgFiles :
         /\ CfgFiles[f] \in Seq(Range(CfgFiles[f]))
         /\ \A line \in Range(CfgFiles[f]) : IsCfgLine(line)
    /\ \A f \in DOMAIN SaFiles :
         /\ SaFiles[f] \in Seq(Range(SaFiles[f]))
         /\ \A line \in Range(SaFiles[f]) : IsSaLine(line)

ASSUME ArgsAssumption == \A a \in Args : a[2] \in Int

VARIABLES
    pc,          \* what the application is doing
    lines,       \* the lines read so far of the file being read
    opts,        \* Options: m_opts
    argc,        \* the number of arguments parsed
    net,         \* Options: m_net_select, then the choice of process
    cfg,         \* Init: m_cfg; or the object of a file read by itself
    sa,          \* SaFile::read_sa: its local variables
    loaded,      \* SaFile: m_spps
    msg,         \* Init: m_msg
    auth,        \* its m_haveAuth, m_sppID, m_keyID and m_sa
    prms,        \* process: the local MsgParams
    params,      \* Message: m_prms
    allow        \* Init: m_allow_unauth
                 \* sk and sys of Sockets: Init: m_sk

vars == <<pc, lines, opts, argc, net, cfg, sa, loaded, msg, auth, prms,
          params, allow, sk, sys>>
files == <<lines, cfg, sa, loaded>>
options == <<opts, argc, net>>
message == <<msg, auth, params>>
socket == <<sk, sys>>

(* The MsgParams of a new Message.                                         *)
NewParams ==
    [transportSpecific |-> 0, domainNumber |-> 0, boundaryHops |-> 1,
     minorVersion |-> 0, useZeroGet |-> TRUE, ignore |-> FALSE,
     self |-> "none"]

NoAuth == [haveAuth |-> FALSE, sppID |-> 0, keyID |-> 0, spps |-> Empty]

(* The associations that an earlier read left.                             *)
OldSpps == Put(Empty, 9, Put(Empty, 9, 16))

Init ==
    /\ pc \in {"options", "read_cfg", "read_sa", "sockets"}
    /\ lines = <<>>
    /\ opts = Empty /\ argc = 0 /\ net = 0
    /\ cfg = NewCfg(Sections)
    /\ sa = NewSa
    /\ loaded = IF pc = "options" THEN Empty ELSE OldSpps
    /\ msg = NewMessage(TRUE, TRUE, 0)
    /\ auth = NoAuth
    /\ prms = NewParams /\ params = NewParams
    /\ allow = 0
    /\ SockInit

-----------------------------------------------------------------------------
(* The loops of read_cfg and read_sa: a turn with the next line, which is  *)
(* the last one when the line is wrong, and the end of the file, where the *)
(* associations are taken over.                                            *)

cfg_turn(line, wrong) ==
    /\ lines' = Append(lines, line)
    /\ cfg' = cfg_line(cfg, line)
    /\ pc' = IF cfg'.err THEN wrong ELSE pc
    /\ UNCHANGED <<sa, loaded, options, message, prms, allow, socket>>

sa_turn(line, wrong) ==
    /\ lines' = Append(lines, line)
    /\ sa' = sa_line(sa, line)
    /\ pc' = IF sa'.err THEN wrong ELSE pc
    /\ UNCHANGED <<cfg, loaded, options, message, prms, allow, socket>>

(* Reading a file by itself.                                               *)

cfg_read(line) ==
    /\ pc = "read_cfg" /\ Len(lines) < MaxLines
    /\ cfg_turn(line, "wrong")

sa_read(line) ==
    /\ pc = "read_sa" /\ Len(lines) < MaxLines
    /\ sa_turn(line, "wrong")

sa_eof ==
    /\ pc = "read_sa"
    /\ loaded' = sa_end(loaded, sa)
    /\ pc' = IF CloseSpp(sa).err THEN "wrong" ELSE "loaded"
    /\ UNCHANGED <<lines, cfg, sa, options, message, prms, allow, socket>>

-----------------------------------------------------------------------------
(* Options::parse_options: one argument.  -2, -4, -6 and -u select a       *)
(* network, and -n does by name; v and h end the program.                  *)
parse_option(c, v) ==
    /\ pc = "options" /\ argc < MaxArgs
    /\ argc' = argc + 1
    /\ \/ /\ c \in {"v", "h", "?"} \/ (c = "n" /\ v \notin {2, 4, 6})
          /\ pc' = "exit"
          /\ UNCHANGED <<opts, net>>
       \/ /\ c \in {"n", "net"} /\ v \in {2, 4, 6, UDS}
          /\ net' = v
          /\ UNCHANGED <<pc, opts>>
       \/ /\ c \notin {"v", "h", "?", "n", "net"}
          /\ opts' = Put(opts, c, v)
          /\ UNCHANGED <<pc, net>>
    /\ UNCHANGED <<files, message, prms, allow, socket>>

given(c) == c \in DOMAIN opts

(* The value of an option, or else of a key of the configuration.          *)
option(c, key) == IF given(c) THEN opts[c] ELSE global(cfg, key)

fail == pc' = "failed"

-----------------------------------------------------------------------------
(* Init::process.                                                          *)

CfgFile == CfgFiles[opts["f"]]

process_cfg ==
    /\ pc = "options"
    /\ \/ /\ ~given("f")
          /\ pc' = "auth"
          /\ UNCHANGED <<lines, cfg>>
       \/ /\ given("f") /\ opts["f"] \notin DOMAIN CfgFiles    \* fopen
          /\ fail
          /\ UNCHANGED <<lines, cfg>>
       \/ /\ given("f") /\ opts["f"] \in DOMAIN CfgFiles
          /\ pc' = "cfg" /\ lines' = <<>> /\ cfg' = NewCfg(Sections)
    /\ UNCHANGED <<sa, loaded, options, message, prms, allow, socket>>

process_cfg_line ==
    /\ pc = "cfg" /\ Len(lines) < Len(CfgFile)
    /\ cfg_turn(CfgFile[Len(lines) + 1], "failed")

process_cfg_eof ==
    /\ pc = "cfg" /\ Len(lines) = Len(CfgFile)
    /\ pc' = "auth"
    /\ UNCHANGED <<files, options, message, prms, allow, socket>>

Spp == IF given("B") THEN opts["B"]
       ELSE IF haveSpp(cfg) THEN global(cfg, "spp") ELSE -1

(* A uint32_t: a negative number of the option is a large one.             *)
Key == LET key == option("A", "active_key_id")
       IN  IF key < 0 THEN key + (UINT32_MAX + 1) ELSE key

(* The file of associations being read: that of -F, and then that of the   *)
(* configuration, which may not be missing.                                *)
SaName(reading) ==
    IF reading = "sa_F" THEN opts["F"] ELSE global(cfg, "sa_file")
SaFile == SaFiles[SaName(pc)]

open_sa(reading) ==
    IF SaName(reading) \in DOMAIN SaFiles
    THEN pc' = reading /\ lines' = <<>> /\ sa' = NewSa
    ELSE fail /\ UNCHANGED <<lines, sa>>

(* Whether messages are to be authenticated, which needs associations.     *)
process_auth ==
    /\ pc = "auth"
    /\ \/ /\ Spp = -1 /\ ~given("B")
          /\ pc' = "net"
          /\ UNCHANGED <<lines, sa>>
       \/ /\ given("B") /\ Spp \notin 0..255
          /\ fail
          /\ UNCHANGED <<lines, sa>>
       \/ /\ Spp \in 0..255 /\ Key < 1
          /\ fail
          /\ UNCHANGED <<lines, sa>>
       \/ /\ Spp \in 0..255 /\ Key >= 1
          /\ open_sa(IF given("F") THEN "sa_F" ELSE "sa_cfg")
    /\ allow' = 0
    /\ UNCHANGED <<cfg, loaded, options, message, prms, socket>>

process_sa_line ==
    /\ pc \in {"sa_F", "sa_cfg"} /\ Len(lines) < Len(SaFile)
    /\ sa_turn(SaFile[Len(lines) + 1], "failed")

process_sa_eof ==
    /\ pc \in {"sa_F", "sa_cfg"} /\ Len(lines) = Len(SaFile)
    /\ loaded' = sa_end(loaded, sa)
    /\ \/ /\ CloseSpp(sa).err
          /\ fail
          /\ UNCHANGED <<lines, sa>>
       \/ /\ ~CloseSpp(sa).err /\ pc = "sa_F"
          /\ open_sa("sa_cfg")
       \/ /\ ~CloseSpp(sa).err /\ pc = "sa_cfg"
          /\ pc' = "key"
          /\ UNCHANGED <<lines, sa>>
    /\ UNCHANGED <<cfg, options, message, prms, allow, socket>>

(* Message::useAuth succeeds; hmac is FALSE when no library provides the   *)
(* key (hmac_allocHMAC).                                                   *)
useAuth(spps, spp, key, hmac) == have(spps, spp, key) /\ hmac

(* Mutant of process_key: a message without a usable key is sent plainly.  *)
process_key_optional(hmac) ==
    /\ pc = "key"
    /\ pc' = "net"
    /\ UNCHANGED <<auth, msg, allow, prms, files, options, params, socket>>

(* The key of the Message, and what follows from it.                       *)
process_key(hmac) ==
    /\ pc = "key"
    /\ IF useAuth(loaded, Spp, Key, hmac)
       THEN /\ auth' = [haveAuth |-> TRUE, sppID |-> Spp, keyID |-> Key,
                        spps |-> loaded]
            /\ msg' = [msg EXCEPT !.mac = loaded[Spp][Key]]
            /\ allow' = option("U", "allow_unauth") % 256
            /\ prms' = [prms EXCEPT !.ignore = @ \/ allow' > 0,
                                    !.minorVersion = 1]
            /\ pc' = "net"
       ELSE fail /\ UNCHANGED <<auth, msg, allow, prms>>
    /\ UNCHANGED <<files, options, params, socket>>

(* The network, its interface (found or not) and the plain parameters.  Any*)
(* network that is not known is that of IPv4.                              *)
process_net(found) ==
    LET n == IF net = 0 THEN global(cfg, "network_transport") ELSE net
        bad == n # UDS /\ ~(given("i") /\ opts["i"] > 0 /\ found)
    IN  /\ pc = "net"
        /\ net' = IF n \in Kinds THEN n ELSE 4
        /\ IF bad THEN fail /\ UNCHANGED prms
           ELSE /\ pc' = "socket"
                /\ prms' = [prms EXCEPT
                     !.self = IF n = UDS THEN "pid" ELSE "mac",
                     !.boundaryHops = IF given("b") THEN opts["b"] % 256 ELSE 1,
                     !.domainNumber = option("d", "domainNumber") % 256,
                     !.transportSpecific =
                        option("t", "transportSpecific") % 256,
                     !.useZeroGet = given("z")]
        /\ UNCHANGED <<files, opts, argc, message, allow, socket>>

(* What each kind of socket is given, and whether its setters accept it:   *)
(* a Unix socket is given the peer after init.                             *)
SockVals(n) ==
    CASE n = UDS -> [peer |-> option("s", "uds_address")]
      [] n = 4 -> [ttl |-> option("T", "udp_ttl") % 256]
      [] n = 6 -> [ttl |-> option("T", "udp_ttl") % 256,
                   scope |-> option("S", "udp6_scope") % 256]
      [] n = 2 -> [priority |-> option("P", "socket_priority") % 256,
                   mac |-> option("M", "ptp_dst_mac")]

SockAccepts(v) == \A key \in DOMAIN v : Accepts(key, v[key])

(* Message::updateParams: the parameters it leaves.                        *)
updateParams(old, new) == IF new.transportSpecific > 15 THEN old ELSE new

(* SockUnix::setDefSelfAddress.                                            *)
SelfAddress == CHOOSE name \in Files : TRUE

(* The socket, n of whose system calls succeed, and updateParams, whose    *)
(* result process ignores.                                                 *)
process_socket(n) ==
    LET v == SockVals(net)
        ok == SockAccepts(v)
        s == [NewSock(net) EXCEPT
                !.haveIf = net # UDS, !.vals = IF ok THEN v ELSE @,
                !.me = IF net = UDS THEN SelfAddress ELSE @]
    IN  /\ pc = "socket"
        /\ IF net = UDS \/ ok THEN initBase(s, n)
           ELSE n = 0 /\ sk' = s /\ UNCHANGED sys
        /\ IF ok /\ sk'.isInit
           THEN /\ params' = updateParams(params, prms)
                /\ msg' = [msg EXCEPT !.useZeroGet = params'.useZeroGet]
                /\ pc' = "done"
           ELSE fail /\ UNCHANGED <<params, msg>>
        /\ UNCHANGED <<files, options, auth, prms, allow>>

(* Init::close does nothing without a socket.                              *)
close ==
    /\ pc \in {"done", "failed"}
    /\ IF sk = NoSock THEN UNCHANGED socket ELSE closeSock
    /\ pc' = "exit"
    /\ UNCHANGED <<files, options, message, prms, allow>>

(* The application uses a socket by itself.                                *)
use_socket ==
    /\ pc = "sockets" /\ SockNext
    /\ UNCHANGED <<pc, files, options, message, prms, allow>>

-----------------------------------------------------------------------------
Next ==
    \/ \E line \in CfgLines : cfg_read(line)
    \/ \E line \in SaLines : sa_read(line)
    \/ sa_eof
    \/ \E a \in Args : parse_option(a[1], a[2])
    \/ process_cfg \/ process_cfg_line \/ process_cfg_eof
    \/ process_auth \/ process_sa_line \/ process_sa_eof
    \/ \E hmac \in BOOLEAN : process_key(hmac)
    \/ \E found \in BOOLEAN : process_net(found)
    \/ \E n \in 0..Len(Calls(6)) : process_socket(n)
    \/ close
    \/ use_socket

Spec == Init /\ [][Next]_vars

-----------------------------------------------------------------------------
(* Every setting that was read, and every parameter of the Message, is in  *)
(* the range that set_val, updateParams and the type of the member give it.*)
TypeOK ==
    /\ DOMAIN cfg.vals = Sections
    /\ \A s \in Sections : \A k \in CfgKeys :
         cfg.vals[s][k] = Unset \/ cfg.vals[s][k] \in Ranges[k]
    /\ net \in {0, UDS, 2, 4, 6}
    /\ allow \in 0..255
    /\ params.transportSpecific \in 0..15
    /\ params.domainNumber \in 0..255
    /\ sk.kind \in Kinds \union {0}

ReadAsWritten(file) ==
    \A s \in Sections, k \in CfgKeys : cfg.vals[s][k] = CfgSays(file, s, k)

(* The names of the files of associations that process was told of.        *)
SaNames == {SaName(reading) : reading \in
              IF given("F") THEN {"sa_F", "sa_cfg"} ELSE {"sa_cfg"}}

(* read_cfg and read_sa: each setting has the value of the last line with  *)
(* it in its section, each association has the keys that follow the last   *)
(* definition of its spp and no others, and a file with a wrong line       *)
(* leaves the associations as they were.  What process goes by is what the *)
(* file of -f says and, when it authenticates, what one of the files of    *)
(* associations it was told of says: the whole of it, and nothing that it  *)
(* read from the other.  Which of the two is not said here: process reads  *)
(* that of the configuration after that of -F (init.cpp:48-49), although   *)
(* the manual gives -F precedence (CommandLineOverrides).                  *)
FilesReadAsWritten ==
    /\ pc \in {"read_cfg", "cfg"} => ReadAsWritten(lines)
    /\ pc \in {"auth", "sa_F", "sa_cfg", "key", "net", "socket", "done"} =>
         ReadAsWritten(IF given("f") THEN CfgFile ELSE <<>>)
    /\ pc = "loaded" => loaded = SaSays(lines)
    /\ pc = "wrong" => loaded = OldSpps
    /\ pc = "done" /\ auth.haveAuth =>
         \E name \in SaNames : auth.spps = SaSays(SaFiles[name])

(* process: it only succeeds with a socket that is open, and messages are  *)
(* then authenticated exactly when an spp was given, with a key that the   *)
(* association of that spp has.  When updateParams takes the parameters,   *)
(* they are sent in the version of PTP that has authentication, and errors *)
(* in received ones are tolerated exactly when they are authenticated and  *)
(* this was asked for.  When it refuses them, for a transportSpecific of   *)
(* more than four bits, process goes on all the same: the Message keeps    *)
(* the parameters of a new one.                                            *)
AuthenticatesAsTold ==
    pc = "done" =>
        /\ sk.isInit
        /\ auth.haveAuth <=> Spp # -1
        /\ auth.haveAuth =>
             /\ have(auth.spps, Spp, Key)
             /\ msg.mac = auth.spps[Spp][Key]
        /\ IF option("t", "transportSpecific") % 256 > 15
           THEN params = NewParams
           ELSE /\ auth.haveAuth => params.minorVersion >= 1
                /\ params.ignore <=> auth.haveAuth /\ allow > 0

(* init.cpp:57 and man/pmc.8:222-223: authentication needs version 2.1 of  *)
(* PTP, and so no message is authenticated in an older one.                *)
AuthenticatesInNewVersion ==
    pc = "done" /\ auth.haveAuth => params.minorVersion >= 1

(* The values of a TLV that differ in length or in what build does.        *)
Values(id) ==
    CASE id \in Ids48 -> {<<>>, <<1>>}
      [] id \in VariableIds /\ EmptyValue(id) = <<>> ->
           UNION {[1..k -> {0, 1, 2, UINT16_MAX}] : k \in 0..2}
      [] id \in VariableIds /\ EmptyValue(id) # <<>> ->
           [DOMAIN EmptyValue(id) -> {0, 1, UINT8_MAX, UINT8_MAX + 1}]
      [] OTHER -> {<<>>}

(* build of a message in a buffer of the planned length, which it fills,   *)
(* and in one that is an octet shorter.                                    *)
FillsPlanned(m, content, digest) ==
    LET len == getMsgPlanedLen(m, content)
    IN  /\ build(m, content, len, digest) =
             IF m.mac > 0 /\ ~digest THEN [err |-> "AUTH", len |-> 0]
             ELSE [err |-> "OK", len |-> len]
        /\ build(m, content, len - 1, digest).err = "TOO_SMALL"

(* A message that setAction accepts is as planned, or is refused when its  *)
(* value cannot be encoded.                                                *)
BuiltAsPlanned(linuxptp, zeroGet, mac, id, action, v, digest) ==
    LET content == IF NeedsData(action, id) THEN [id |-> id, v |-> v]
                   ELSE NoData
        new == NewMessage(linuxptp, zeroGet, mac)
        m == setAction(new, action, id, "data")
    IN  CanSetAction(new, action, id, content) =>
            IF NeedsData(action, id) /\ ~(TextFits(id, v) /\ Fits48(id, v))
            THEN build(m, content, getMsgPlanedLen(m, content), digest).err
                    \in {"TOO_SMALL", "VAL"}
            ELSE FillsPlanned(m, content, digest)

PlanIsRight(zeroGet, mac) ==
    \A id \in MngIds, action \in Actions, digest \in BOOLEAN :
        \A v \in Values(id) :
            BuiltAsPlanned(TRUE, zeroGet, mac, id, action, v, digest)

Plans == [zeroGet \in BOOLEAN |->
            [mac \in {0, 16, 32} |-> PlanIsRight(zeroGet, mac)]]

(* getMsgPlanedLen and build: with the settings that process made, every   *)
(* message of every id fits a buffer of the planned length exactly, with   *)
(* addresses of up to UINT16_MAX octets; one whose text or number does not *)
(* fit its field is refused, and one whose ICV fails is not sent.          *)
PlannedIsBuilt == pc = "done" => Plans[msg.useZeroGet][msg.mac]

(* man/pmc.8: a value given on the command line overrides that of the      *)
(* configuration file.                                                     *)
CommandLineOverrides ==
    pc = "done" =>
        /\ given("d") => params.domainNumber = opts["d"]
        /\ given("t") => params.transportSpecific = opts["t"]
        /\ given("A") /\ auth.haveAuth => auth.keyID = opts["A"]
        /\ given("F") /\ auth.haveAuth =>
             auth.spps = SaSays(SaFiles[opts["F"]])
=============================================================================
