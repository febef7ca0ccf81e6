-------------------------- MODULE MCClientFramework --------------------------
(* Small instances of ClientFramework: this program's one helper thread, or *)
(* one more.                                                                *)
EXTENDS ClientFramework

CONSTANTS main, run, other, free
=============================================================================
