------------------------------ MODULE MngTlvs ------------------------------
(***************************************************************************)
(* The management TLVs of the library: the table of management ids         *)
(* (ids_base.m4, compiled into mng_all_vals), the layout that the *_f      *)
(* functions of MsgProc give a dataField, and the length that the *_s      *)
(* functions compute for the ids of variable length.  The three are        *)
(* written independently of each other in the code, and a message is only  *)
(* built correctly when they agree.                                        *)
(*                                                                         *)
(* The value of a TLV is abstracted to what its length depends on: the     *)
(* sequence of the lengths of its variable parts (a text, an address), one *)
(* for each entry of a table.  The value of an id with a number of 48 bits *)
(* is <<>>, or <<1>> when the number in the object is out of its range.    *)
(***************************************************************************)
EXTENDS Integers, Sequences

UINT8_MAX == 255
UINT16_MAX == 65535

Actions == {"GET", "SET", "COMMAND"}

(* The ids with no dataField.                                              *)
EmptyIds == {"NULL_PTP_MANAGEMENT", "SAVE_IN_NON_VOLATILE_STORAGE",
    "RESET_NON_VOLATILE_STORAGE", "FAULT_LOG_RESET", "ENABLE_PORT",
    "DISABLE_PORT"}

(* The ids whose dataField has a calculated length.                        *)
VariableIds == {"CLOCK_DESCRIPTION", "USER_DESCRIPTION", "FAULT_LOG",
    "PATH_TRACE_LIST", "GRANDMASTER_CLUSTER_TABLE", "UNICAST_MASTER_TABLE",
    "ACCEPTABLE_MASTER_TABLE", "ALTERNATE_TIME_OFFSET_NAME",
    "PORT_PROPERTIES_NP", "UNICAST_MASTER_TABLE_NP"}

(* The ids of one octet, or two, that are read and written.                *)
SmallIds == {"PRIORITY1", "PRIORITY2", "DOMAIN", "SLAVE_ONLY",
    "LOG_ANNOUNCE_INTERVAL", "ANNOUNCE_RECEIPT_TIMEOUT", "LOG_SYNC_INTERVAL",
    "VERSION_NUMBER", "CLOCK_ACCURACY", "TRACEABILITY_PROPERTIES",
    "TIMESCALE_PROPERTIES", "UNICAST_NEGOTIATION_ENABLE", "PATH_TRACE_ENABLE",
    "ACCEPTABLE_MASTER_TABLE_ENABLED", "ALTERNATE_TIME_OFFSET_ENABLE",
    "LOG_MIN_PDELAY_REQ_INTERVAL", "PRIMARY_DOMAIN", "DELAY_MECHANISM",
    "EXTERNAL_PORT_CONFIGURATION_ENABLED", "MASTER_ONLY",
    "HOLDOVER_UPGRADE_ENABLE", "EXT_PORT_CONFIG_PORT_DATA_SET"}

(* The column "size" of the table for the remaining ids.                   *)
FixedSize ==
    [INITIALIZE |-> 2, DEFAULT_DATA_SET |-> 20, CURRENT_DATA_SET |-> 18,
     PARENT_DATA_SET |-> 32, TIME_PROPERTIES_DATA_SET |-> 4,
     PORT_DATA_SET |-> 26, TIME |-> 10, UTC_PROPERTIES |-> 4,
     UNICAST_MASTER_MAX_TABLE_SIZE |-> 2,
     ACCEPTABLE_MASTER_MAX_TABLE_SIZE |-> 2, ALTERNATE_MASTER |-> 4,
     ALTERNATE_TIME_OFFSET_MAX_KEY |-> 2,
     ALTERNATE_TIME_OFFSET_PROPERTIES |-> 16,
     TRANSPARENT_CLOCK_PORT_DATA_SET |-> 20,
     TRANSPARENT_CLOCK_DEFAULT_DATA_SET |-> 12,
     TIME_STATUS_NP |-> 50, GRANDMASTER_SETTINGS_NP |-> 8,
     PORT_DATA_SET_NP |-> 8, SUBSCRIBE_EVENTS_NP |-> 66,
     PORT_STATS_NP |-> 266, SYNCHRONIZATION_UNCERTAIN_NP |-> 2,
     PORT_SERVICE_STATS_NP |-> 90, PORT_HWCLOCK_NP |-> 16,
     POWER_PROFILE_SETTINGS_NP |-> 16, CMLDS_INFO_NP |-> 16,
     PORT_CORRECTIONS_NP |-> 24, EXTERNAL_GRANDMASTER_PROPERTIES_NP |-> 10]

MngIds == EmptyIds \union VariableIds \union SmallIds \union DOMAIN FixedSize

(* mng_all_vals[id].size: 0 without dataField, -2 when it is calculated.   *)
mng_size(id) ==
    CASE id \in EmptyIds -> 0
      [] id \in VariableIds -> -2
      [] id \in SmallIds -> 2
      [] OTHER -> FixedSize[id]

(* The ids of linuxptp: A_USE_LINUXPTP.                                    *)
LinuxptpIds == {"TIME_STATUS_NP", "GRANDMASTER_SETTINGS_NP",
    "PORT_DATA_SET_NP", "SUBSCRIBE_EVENTS_NP", "PORT_PROPERTIES_NP",
    "PORT_STATS_NP", "SYNCHRONIZATION_UNCERTAIN_NP", "PORT_SERVICE_STATS_NP",
    "UNICAST_MASTER_TABLE_NP", "PORT_HWCLOCK_NP", "POWER_PROFILE_SETTINGS_NP",
    "CMLDS_INFO_NP", "PORT_CORRECTIONS_NP",
    "EXTERNAL_GRANDMASTER_PROPERTIES_NP"}

(* mng_all_vals[id].allowed, without the bit of linuxptp.                  *)
mng_allowed(id) ==
    IF id = "NULL_PTP_MANAGEMENT" THEN Actions
    ELSE IF id \in EmptyIds \union {"INITIALIZE"} THEN {"COMMAND"}
    ELSE IF id \in SmallIds \union
              {"USER_DESCRIPTION", "TIME", "UTC_PROPERTIES",
               "GRANDMASTER_CLUSTER_TABLE", "UNICAST_MASTER_TABLE",
               "ACCEPTABLE_MASTER_TABLE", "ALTERNATE_MASTER",
               "ALTERNATE_TIME_OFFSET_NAME",
               "ALTERNATE_TIME_OFFSET_PROPERTIES", "GRANDMASTER_SETTINGS_NP",
               "PORT_DATA_SET_NP", "SUBSCRIBE_EVENTS_NP",
               "SYNCHRONIZATION_UNCERTAIN_NP", "POWER_PROFILE_SETTINGS_NP",
               "PORT_CORRECTIONS_NP", "EXTERNAL_GRANDMASTER_PROPERTIES_NP"}
         THEN {"GET", "SET"}
    ELSE {"GET"}

-----------------------------------------------------------------------------
(* The octets that the successive calls of proc take from the buffer or    *)
(* add to it.  A sum is a recursive function, which the provers can reason *)
(* about, as they cannot about a fold.                                     *)
SumSeq(s) ==
    LET sum[i \in 0..Len(s)] == IF i = 0 THEN 0 ELSE sum[i - 1] + s[i]
    IN  sum[Len(s)]

(* The composed types: PortIdentity_t, ClockQuality_t, Timestamp_t,        *)
(* PTPText_t with a text of n octets, PortAddress_t with an address of n   *)
(* octets, FaultRecord_t with three texts of n octets,                     *)
(* AcceptableMaster_t and LinuxptpUnicastMaster_t.  The length of an       *)
(* address is taken from a uint16_t (Address), and so are its octets.      *)
PortIdentity == <<8, 2>>
ClockQuality == <<1, 1, 2>>
Timestamp == <<2, 4, 4>>
PTPText(n) == <<1, n>>
Address(n) == <<2, n % (UINT16_MAX + 1)>>
PortAddress(n) == <<2>> \o Address(n)
FaultRecord(n) == <<2>> \o Timestamp \o <<1>> \o
    PTPText(n) \o PTPText(n) \o PTPText(n)
AcceptableMaster(n) == PortIdentity \o <<1>>
UnicastMaster(n) == PortIdentity \o ClockQuality \o <<1, 1, 1, 1>> \o
    PortAddress(n)

(* The type a table is instantiated with.                                  *)
Entry(id, n) ==
    CASE id = "FAULT_LOG" -> FaultRecord(n)
      [] id \in {"GRANDMASTER_CLUSTER_TABLE", "UNICAST_MASTER_TABLE"} ->
           PortAddress(n)
      [] id = "ACCEPTABLE_MASTER_TABLE" -> AcceptableMaster(n)
      [] id = "UNICAST_MASTER_TABLE_NP" -> UnicastMaster(n)

(* vector_f: the octets of each entry of a table.                          *)
Entries(id, v) == [i \in DOMAIN v |-> SumSeq(Entry(id, v[i]))]

(* The *_f functions of the ids of IEEE 1588 with several fields.          *)
StdFields(id) ==
    CASE id = "INITIALIZE" -> <<2>>
      [] id = "DEFAULT_DATA_SET" ->
           <<1, 1, 2, 1>> \o ClockQuality \o <<1, 8, 1>>
      [] id = "CURRENT_DATA_SET" -> <<2, 8, 8>>
      [] id = "PARENT_DATA_SET" ->
           PortIdentity \o <<1, 1, 2, 4, 1>> \o ClockQuality \o <<1, 8>>
      [] id = "TIME_PROPERTIES_DATA_SET" -> <<2, 1, 1>>
      [] id = "PORT_DATA_SET" -> PortIdentity \o <<1, 1, 8, 1, 1, 1, 1, 1, 1>>
      [] id = "TIME" -> Timestamp
      [] id = "UTC_PROPERTIES" -> <<2, 1>>
      [] id \in {"TIMESCALE_PROPERTIES", "ALTERNATE_TIME_OFFSET_ENABLE",
                 "EXT_PORT_CONFIG_PORT_DATA_SET"} -> <<1, 1>>
      [] id \in {"UNICAST_MASTER_MAX_TABLE_SIZE",
                 "ACCEPTABLE_MASTER_MAX_TABLE_SIZE"} -> <<2>>
      [] id = "ALTERNATE_MASTER" -> <<1, 1, 1>>
      [] id = "ALTERNATE_TIME_OFFSET_PROPERTIES" -> <<1, 4, 4, 2, 4>>
      [] id = "TRANSPARENT_CLOCK_PORT_DATA_SET" -> PortIdentity \o <<1, 1, 8>>
      [] id = "TRANSPARENT_CLOCK_DEFAULT_DATA_SET" -> <<8, 2, 1, 1>>
      [] OTHER -> <<1>>

(* The *_f functions of the ids of linuxptp with a fixed length.           *)
LinuxptpFields(id) ==
    CASE id = "TIME_STATUS_NP" -> <<8, 8, 4, 4, 2, 2, 8, 2, 4, 8>>
      [] id = "GRANDMASTER_SETTINGS_NP" -> ClockQuality \o <<2, 1, 1>>
      [] id = "PORT_DATA_SET_NP" -> <<4, 4>>
      [] id = "SUBSCRIBE_EVENTS_NP" -> <<2, 64>>
      [] id = "PORT_STATS_NP" -> PortIdentity \o [i \in 1..32 |-> 8]
      [] id = "SYNCHRONIZATION_UNCERTAIN_NP" -> <<1>>
      [] id = "PORT_SERVICE_STATS_NP" -> PortIdentity \o [i \in 1..10 |-> 8]
      [] id = "PORT_HWCLOCK_NP" -> PortIdentity \o <<4, 1>>
      [] id = "POWER_PROFILE_SETTINGS_NP" -> <<2, 2, 4, 4, 4>>
      [] id = "CMLDS_INFO_NP" -> <<8, 4, 4>>
      [] id = "PORT_CORRECTIONS_NP" -> <<8, 8, 8>>
      [] id = "EXTERNAL_GRANDMASTER_PROPERTIES_NP" -> <<8, 2>>

(* The *_f functions of the ids with a variable length.  The value of a    *)
(* CLOCK_DESCRIPTION has the lengths of its layer name, its two addresses  *)
(* and its three texts.                                                    *)
VariableFields(id, v) ==
    CASE id = "CLOCK_DESCRIPTION" ->
           <<2>> \o PTPText(v[1]) \o Address(v[2]) \o PortAddress(v[3]) \o
           <<3, 1>> \o PTPText(v[4]) \o PTPText(v[5]) \o PTPText(v[6]) \o <<6>>
      [] id = "USER_DESCRIPTION" -> PTPText(v[1])
      [] id = "FAULT_LOG" -> <<2>> \o Entries(id, v)
      [] id = "PATH_TRACE_LIST" -> [i \in DOMAIN v |-> 8]
      [] id = "GRANDMASTER_CLUSTER_TABLE" -> <<1, 1>> \o Entries(id, v)
      [] id = "UNICAST_MASTER_TABLE" -> <<1, 2>> \o Entries(id, v)
      [] id = "ACCEPTABLE_MASTER_TABLE" -> <<2>> \o Entries(id, v)
      [] id = "ALTERNATE_TIME_OFFSET_NAME" -> <<1>> \o PTPText(v[1])
      [] id = "PORT_PROPERTIES_NP" -> PortIdentity \o <<1, 1>> \o PTPText(v[1])
      [] id = "UNICAST_MASTER_TABLE_NP" -> <<2>> \o Entries(id, v)

Fields(id, v) ==
    IF id \in VariableIds THEN VariableFields(id, v)
    ELSE IF id \in LinuxptpIds THEN LinuxptpFields(id)
    ELSE StdFields(id)

(* The octets call_tlv_data adds for a value.                              *)
DataOctets(id, v) == IF id \in EmptyIds THEN 0 ELSE SumSeq(Fields(id, v))

(* A text is refused when its length does not fit its uint8_t length field.*)
TextFits(id, v) ==
    id \in {"USER_DESCRIPTION", "ALTERNATE_TIME_OFFSET_NAME"} =>
        v[1] <= UINT8_MAX

(* proc48: a number of 48 bits is refused when it is out of range.  The    *)
(* octets up to its end are those of the fields before it and its six.     *)
Ids48 == {"TIME", "ALTERNATE_TIME_OFFSET_PROPERTIES"}
Fits48(id, v) == id \in Ids48 => v = <<>>
End48(id) == IF id = "TIME" THEN 6 ELSE 9 + 6

-----------------------------------------------------------------------------
(* The value of an object that has just been constructed.                  *)
EmptyValue(id) ==
    CASE id = "CLOCK_DESCRIPTION" -> <<0, 0, 0, 0, 0, 0>>
      [] id \in {"USER_DESCRIPTION", "ALTERNATE_TIME_OFFSET_NAME",
                 "PORT_PROPERTIES_NP"} -> <<0>>
      [] OTHER -> <<>>

(* Mutant of vector_l: only the first entry is counted.                    *)
vector_l_first(ret, v, size) == IF v = <<>> THEN ret ELSE ret + size + v[1]

(* vector_l: the sum of the sizes of the entries.                          *)
vector_l(ret, v, size) == ret + SumSeq([i \in DOMAIN v |-> size + v[i]])

(* The *_s functions, Message::dataFieldSize.                              *)
dataFieldSize(id, v) ==
    CASE id = "CLOCK_DESCRIPTION" ->
           13 + v[2] + (4 + v[3]) + (1 + v[1]) + (1 + v[4]) + (1 + v[5]) +
           (1 + v[6])
      [] id = "USER_DESCRIPTION" -> 1 + v[1]
      [] id = "FAULT_LOG" ->
           2 + SumSeq([i \in DOMAIN v |-> 2 + 10 + 1 + 3 * (1 + v[i])])
      [] id = "PATH_TRACE_LIST" -> 8 * Len(v)
      [] id = "GRANDMASTER_CLUSTER_TABLE" -> vector_l(2, v, 4)
      [] id = "UNICAST_MASTER_TABLE" -> vector_l(3, v, 4)
      [] id = "ACCEPTABLE_MASTER_TABLE" -> 2 + 11 * Len(v)
      [] id = "ALTERNATE_TIME_OFFSET_NAME" -> 1 + (1 + v[1])
      [] id = "PORT_PROPERTIES_NP" -> 2 + 10 + (1 + v[1])
      [] id = "UNICAST_MASTER_TABLE_NP" -> vector_l(2, v, 22)

Even(n) == IF n % 2 = 1 THEN n + 1 ELSE n
=============================================================================
