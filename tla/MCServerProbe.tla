----------------------------- MODULE MCServerProbe -----------------------------
(* Small instances of ServerProbe: the cfgs give the word size and the      *)
(* number of pings.                                                         *)
EXTENDS ServerProbe
MCDelays == {1, 2}
MCLongDelays == {2, 3}
=============================================================================
