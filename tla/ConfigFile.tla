----------------------------- MODULE ConfigFile -----------------------------
(***************************************************************************)
(* The readers of the configuration file (ConfigFile) and of the file of   *)
(* security associations (SaFile, Spp).  Both take a file line by line; a  *)
(* file is a sequence of lines, and a line is a record with the kind of    *)
(* the line and the values on it.                                          *)
(*                                                                         *)
(* Every value is an integer: a number stands for itself, and a name (of a *)
(* file, an address, a MAC) for one of a few names, where 0 is the empty   *)
(* name.  The network transports are 2, 4, 6 and UDS.                      *)
(***************************************************************************)
EXTENDS Integers, Sequences, Functions

CONSTANT UINT32_MAX     \* the largest uint32_t, 2^32 - 1

ASSUME UINT32Assumption == UINT32_MAX \in Nat

Unset == -1
UDS == 1

(* A std::map without entries, and its assignment m[k] = v.                *)
Empty == [x \in {} |-> 0]
Put(map, k, v) ==
    [x \in DOMAIN map \union {k} |-> IF x = k THEN v ELSE map[x]]

(* range_t: the values set_val accepts.                                    *)
Ranges ==
    [transportSpecific |-> 0..15, domainNumber |-> 0..255,
     udp6_scope |-> 0..15, udp_ttl |-> 1..255, socket_priority |-> 0..15,
     network_transport |-> {2, 4, 6}, active_key_id |-> 0..UINT32_MAX,
     spp |-> 0..255, allow_unauth |-> 0..2, uds_address |-> Nat \ {0},
     sa_file |-> Nat \ {0}, ptp_dst_mac |-> Nat \ {0},
     p2p_dst_mac |-> Nat \ {0}]

(* setGlobal: the values of linuxptp.                                      *)
Default ==
    [transportSpecific |-> 0, domainNumber |-> 0, udp6_scope |-> 14,
     udp_ttl |-> 1, socket_priority |-> 0, network_transport |-> 4,
     active_key_id |-> 0, spp |-> 0, allow_unauth |-> 0, uds_address |-> 1,
     sa_file |-> 0, ptp_dst_mac |-> 1, p2p_dst_mac |-> 1]

CfgKeys == DOMAIN Default

(* A reader of a configuration file: the values of each section (m_set is  *)
(* FALSE for an unset one), the section it is in, and whether it met a     *)
(* wrong line.  The reader starts with clear_sections.                     *)
NewCfg(sections) ==
    [vals |-> [s \in sections |-> [k \in CfgKeys |-> Unset]],
     cur |-> "global", err |-> FALSE]

(* Mutant of cfg_line: the range of a value is not checked.                *)
cfg_line_anyValue(st, line) ==
    CASE line.kind = "section" -> [st EXCEPT !.cur = line.name]
      [] line.kind = "value" -> [st EXCEPT !.vals[st.cur][line.key] = line.val]
      [] OTHER -> st

(* One turn of the loop of read_cfg, with set_val.                         *)
cfg_line(st, line) ==
    CASE st.err \/ line.kind = "ignored" -> st
      [] ~st.err /\ line.kind = "section" -> [st EXCEPT !.cur = line.name]
      [] ~st.err /\ line.kind = "value" /\ line.val \in Ranges[line.key] ->
           [st EXCEPT !.vals[st.cur][line.key] = line.val]
      [] OTHER -> [st EXCEPT !.err = TRUE]

(* get_num, get_str and get_bin, with is_global.                           *)
get_val(cfg, key, section) ==
    IF section \in DOMAIN cfg.vals /\ cfg.vals[section][key] # Unset
    THEN cfg.vals[section][key]
    ELSE IF cfg.vals["global"][key] # Unset THEN cfg.vals["global"][key]
    ELSE Default[key]

global(cfg, key) == get_val(cfg, key, "")

haveSpp(cfg) == cfg.vals["global"]["spp"] # Unset

-----------------------------------------------------------------------------
(* key_cfg, and the size that key_limit asks for (0 for any size).         *)
key_cfg ==
    [SHA256_128 |-> [digest |-> 16, size |-> 0],
     SHA256 |-> [digest |-> 32, size |-> 0],
     AES128 |-> [digest |-> 16, size |-> 16],
     AES256 |-> [digest |-> 16, size |-> 32]]

(* The number of a key line (Spp::set_val), and Spp::addKey without        *)
(* replace.                                                                *)
CanAddKey(keys, line) ==
    /\ line.n \in 1..UINT32_MAX /\ line.n \notin DOMAIN keys
    /\ line.size > 0
    /\ key_cfg[line.type].size \in {0, line.size}

(* A reader of a file of associations: step is 0 outside of an association,*)
(* 1 before its spp and 2 after it; cspp is the association being read, and*)
(* spps has those read before: for each spp, the length of the ICV of each *)
(* of its keys.                                                            *)
NewSa == [step |-> 0, own |-> 255, keys |-> Empty, spps |-> Empty,
          err |-> FALSE]

(* Mutant of CloseSpp: an association is only stored the first time.       *)
CloseSpp_first(st) ==
    IF st.step # 2 THEN st
    ELSE IF st.keys = Empty THEN [st EXCEPT !.err = TRUE]
    ELSE IF st.own \in DOMAIN st.spps THEN st
    ELSE [st EXCEPT !.spps = Put(@, st.own, st.keys)]

(* The association read so far is stored when it ends.                     *)
CloseSpp(st) ==
    IF st.step # 2 THEN st
    ELSE IF st.keys = Empty THEN [st EXCEPT !.err = TRUE]
    ELSE [st EXCEPT !.spps = Put(@, st.own, st.keys)]

(* One turn of the loop of read_sa, with Spp::set_val.  After the spp, a   *)
(* line that does not start with a digit is accepted and ignored.          *)
sa_line(st, line) ==
    CASE st.err \/ line.kind = "ignored" -> st
      [] ~st.err /\ line.kind = "section" ->
           [CloseSpp(st) EXCEPT
              !.step = IF line.name = "security_association" THEN 1 ELSE 0]
      [] ~st.err /\ st.step = 1 /\ line.kind = "spp" /\ line.n \in 0..255 ->
           [st EXCEPT !.step = 2, !.own = line.n, !.keys = Empty]
      [] ~st.err /\ st.step = 2 /\ line.kind = "key" /\
         CanAddKey(st.keys, line) ->
           [st EXCEPT !.keys = Put(@, line.n, key_cfg[line.type].digest)]
      [] ~st.err /\ st.step = 2 /\ line.kind \in {"spp", "word"} -> st
      [] OTHER -> [st EXCEPT !.err = TRUE]

(* The end of read_sa: the associations replace those of sa when no line   *)
(* was wrong.                                                              *)
sa_end(sa, st) == IF CloseSpp(st).err THEN sa ELSE CloseSpp(st).spps

(* SaFile::have, of a key.                                                 *)
have(sa, spp, key) == spp \in DOMAIN sa /\ key \in DOMAIN sa[spp]

-----------------------------------------------------------------------------
(* What a file says, without reading it in order: the reference for the    *)
(* readers.                                                                *)

Latest(S) == CHOOSE i \in S : \A j \in S : j <= i
Earliest(S) == CHOOSE i \in S : \A j \in S : i <= j

(* The index of the line that starts the section of line i, or 0.          *)
SectionStart(lines, i) ==
    LET starts == {j \in 1..i : lines[j].kind = "section"}
    IN  IF starts = {} THEN 0 ELSE Latest(starts)

SectionName(lines, i) ==
    IF SectionStart(lines, i) = 0 THEN "global"
    ELSE lines[SectionStart(lines, i)].name

(* The value of a key in a section: that of the last line with it.         *)
CfgSays(lines, section, key) ==
    LET settings == {i \in DOMAIN lines :
            /\ lines[i].kind = "value" /\ lines[i].key = key
            /\ SectionName(lines, i) = section}
    IN  IF settings = {} THEN Unset ELSE lines[Latest(settings)].val

(* The line of the spp of the association that line i is in, or 0.         *)
SppLine(lines, i) ==
    LET start == SectionStart(lines, i)
        spps == {j \in start..i : j > 0 /\ lines[j].kind = "spp"}
    IN  IF start = 0 \/ spps = {} THEN 0 ELSE Earliest(spps)

SppLines(lines) == {SppLine(lines, i) : i \in DOMAIN lines} \ {0}

(* The keys of the association whose spp is on line i.                     *)
KeyLines(lines, i) ==
    {j \in DOMAIN lines : lines[j].kind = "key" /\ SppLine(lines, j) = i}

KeysOf(lines, i) ==
    [id \in {lines[j].n : j \in KeyLines(lines, i)} |->
       key_cfg[lines[Earliest({j \in KeyLines(lines, i) :
                                 lines[j].n = id})].type].digest]

(* Of the associations whose spps are on the lines S, the last one of each *)
(* spp.                                                                    *)
Associations(lines, S) ==
    [n \in {lines[i].n : i \in S} |->
       KeysOf(lines, Latest({i \in S : lines[i].n = n}))]

SaSays(lines) == Associations(lines, SppLines(lines))
=============================================================================
