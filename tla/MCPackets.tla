------------------------------ MODULE MCPackets ------------------------------
(* Addresses for which the headers of an advert, a probe, a relayed probe   *)
(* or a ping carry twice, and others; one server address begins with zeros. *)
(* The ports: the first, the last one that fits a word, and one that is the *)
(* 1000 of a probe on the wire.                                             *)
EXTENDS Packets

MCAddrs == {<<192, 168, 0, 1>>, <<192, 168, 187, 25>>}
MCServers == {<<213, 233, 229, 58>>, <<213, 233, 229, 74>>, <<0, 0, 7, 9>>}
MCMeasured == {[rtt |-> 3, sent |-> 4, received |-> 3],
               [rtt |-> 300, sent |-> 300, received |-> 255],
               [rtt |-> INF, sent |-> 1, received |-> 0]}
MCPorts == {8000, W - 1, W + 1000}
MCSeqIds == {0, 255, W - 1}
=============================================================================
