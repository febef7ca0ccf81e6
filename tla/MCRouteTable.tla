---------------------------- MODULE MCRouteTable ----------------------------
(* Small instances of RouteTable: one own server, one more that only the   *)
(* peers know.                                                             *)
EXTENDS RouteTable

CONSTANTS s1, s2

MCOwnIp == [i \in 0 .. 0 |-> s1]
=============================================================================
