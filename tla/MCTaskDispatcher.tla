--------------------------- MODULE MCTaskDispatcher ---------------------------
(* Constants of TaskDispatcher for TLC. *)
EXTENDS TaskDispatcher

CONSTANTS t1, t2, t3, t4, k1, k2, k3

=============================================================================
