---------------------------- MODULE MCHostPolicy ----------------------------
(***************************************************************************)
(* An instance of HostPolicy for TLC: an administrator's network, everyone *)
(* else's, and IPv6; settings that are valid and settings that are not.    *)
(***************************************************************************)
EXTENDS HostPolicy

CONSTANTS a4, b4, a6

Home == [version |-> 4, hosts |-> {a4}, whole |-> FALSE]
Home6 == [version |-> 6, hosts |-> {a6}, whole |-> FALSE]
All4 == [version |-> 4, hosts |-> {a4, b4}, whole |-> TRUE]

Basic == [external |-> {"ens3"}, admin |-> {Home}, mqtt |-> {Home6, All4}, ssh |-> 22,
          dhcp4 |-> TRUE, dhcp6 |-> FALSE]
MCSettings ==
    {Basic,
     [Basic EXCEPT !.admin = {Home, Home6}, !.mqtt = {Home}, !.dhcp4 = FALSE, !.dhcp6 = TRUE],
     [Basic EXCEPT !.ssh = 443],
     [Basic EXCEPT !.admin = {All4}]}

MCNetworks == {Home, Home6, All4}
MCFamily == [a \in Addresses |-> IF a = a6 THEN 6 ELSE 4]
MCTarget == [p \in Ports |-> IF p = 68 THEN 443 ELSE p]
Tcp == [iif : {"ens3", "docker0", "lo"}, src : Addresses, local : {FALSE}, proto : {"tcp"},
        sport : {22}, port : {22, 68, 443, 8883}, dest : {"host", "container"}]
Udp == [iif : {"ens3"}, src : Addresses, local : BOOLEAN, proto : {"udp"},
        sport : {67, 547}, port : {68, 443, 546}, dest : {"host"}]
Icmp == [iif : {"ens3"}, src : Addresses, local : {FALSE}, proto : {"icmp"},
         sport : {22}, port : {22}, dest : {"host"}]
MCAttempts == Tcp \cup Udp \cup Icmp
MCTranslated ==
    {<<4, "tcp", 443>>, <<4, "tcp", 8883>>, <<6, "tcp", 8883>>, <<4, "tcp", 68>>,
     <<4, "udp", 68>>, <<4, "udp", 443>>}
=============================================================================
