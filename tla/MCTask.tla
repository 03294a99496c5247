--------------------------------- MODULE MCTask ---------------------------------
(* Constants of Task for TLC. *)
EXTENDS Task

MCLengths == 0 .. 2

=============================================================================
