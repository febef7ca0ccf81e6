----------------------------- MODULE MCProbeRelay -----------------------------
(* Two nodes that relay for each other; the user of each sends one probe.     *)
EXTENDS ProbeRelay

CONSTANTS a, b

MCOneEach == [n \in {a, b} |-> 1]
=============================================================================
