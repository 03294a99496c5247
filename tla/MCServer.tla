-------------------------------- MODULE MCServer --------------------------------
(* Constants of Server for TLC.  A listener and its trigger take two places in *)
(* the map: the limits leave one place for a channel, or, in the last setup,   *)
(* two places but only one descriptor.                                         *)
EXTENDS Server

CONSTANTS c1, c2, s1, s2

MCSetups ==
    { [servers |-> {s1}, limit |-> 3, fds |-> {5, 6}],
      [servers |-> {s1, s2}, limit |-> 5, fds |-> {5, 6}],
      [servers |-> {s1}, limit |-> 4, fds |-> {5}] }

=============================================================================
