--------------------------- MODULE MCProxyClients ---------------------------
(* Small instances of ProxyClients for model checking. *)
EXTENDS ProxyClients

CONSTANTS c1, c2

OneClient == {c1}
TwoClients == {c1, c2}
OneBase == {1}
PtpOnly == {<<1, "PTP">>}
=============================================================================
