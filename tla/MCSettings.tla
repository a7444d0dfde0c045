----------------------------- MODULE MCSettings -----------------------------
(***************************************************************************)
(* Settings for TLC: lines of each kind, files with and without errors and *)
(* arguments on both sides of the limits.                                  *)
(***************************************************************************)
EXTENDS Settings, TLC

Section(name) == [kind |-> "section", name |-> name]
Value(key, val) == [kind |-> "value", key |-> key, val |-> val]
AssocSpp(n) == [kind |-> "spp", n |-> n]
AssocKey(n, type, size) ==
    [kind |-> "key", n |-> n, type |-> type, size |-> size]
Other(kind) == [kind |-> kind]

MCFds == {3, 4}
MCFiles == {"/var/run/pmc.1", "/tmp/me"}
MCAbstracts == {"me"}

MCSections == {"global", "port"}

MCCfgLines == {Section("global"), Section("port"), Other("unclosed"),
    Other("ignored"), Value("domainNumber", 1), Value("domainNumber", 256),
    Value("udp_ttl", 0), Value("udp_ttl", 2),
    Value("active_key_id", UINT32_MAX), Value("active_key_id", UINT32_MAX + 1)}

MCSaLines == {Section("security_association"), Section("other"),
    Other("unclosed"), Other("ignored"), Other("word"), AssocSpp(1),
    AssocSpp(256), AssocKey(1, "SHA256", 5), AssocKey(2, "AES128", 16),
    AssocKey(2, "AES256", 16), AssocKey(UINT32_MAX + 1, "SHA256", 5)}

Assoc(n, id, type) ==
    <<Section("security_association"), AssocSpp(n), AssocKey(id, type, 16)>>

MCSaFiles == 1 :> Assoc(1, 1, "SHA256") @@
             2 :> (Assoc(1, 1, "AES128") \o
                   <<AssocKey(UINT32_MAX, "SHA256", 5)>>) @@
             3 :> (Assoc(2, 2, "SHA256_128") \o Assoc(1, 2, "SHA256_128")) @@
             4 :> Assoc(1, 1, "AES256") @@
             5 :> <<Section("security_association"), AssocSpp(1)>>

MCCfgFiles ==
    1 :> <<Value("sa_file", 2)>> @@
    2 :> <<Value("sa_file", 3), Value("spp", 1), Value("active_key_id", 2),
           Value("allow_unauth", 1)>> @@
    3 :> <<Value("network_transport", 6), Section("port"), Value("spp", 1)>> @@
    4 :> <<Value("domainNumber", 256)>> @@
    5 :> <<Value("spp", 1), Value("sa_file", 1)>>

MCArgs == {<<"f", 0>>, <<"f", 1>>, <<"f", 2>>, <<"f", 3>>, <<"f", 4>>,
    <<"f", 5>>, <<"net", UDS>>, <<"net", 2>>, <<"n", 6>>, <<"n", 7>>,
    <<"i", 1>>, <<"A", -1>>, <<"A", 0>>, <<"A", 1>>, <<"B", 1>>, <<"B", 256>>, <<"F", 1>>,
    <<"F", 4>>, <<"F", 5>>, <<"U", 2>>, <<"d", 3>>, <<"t", 2>>, <<"t", 16>>,
    <<"z", 1>>, <<"P", 16>>, <<"S", 5>>, <<"T", 3>>, <<"s", 0>>, <<"M", 2>>,
    <<"h", 1>>}
=============================================================================
