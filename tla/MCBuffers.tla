------------------------------- MODULE MCBuffers -------------------------------
(* Constants of Buffers for TLC: bytes that tell the writes apart. *)
EXTENDS Buffers

MCBytes == {"a", "b", "c", "d", "e", "x", "y", "z"}
MCWrites == {<<>>, <<"a">>, <<"b", "c">>, <<"d", "e", "a">>}
MCFiles == {<<>>, <<"x", "y", "z">>}
MCCounts == -1 .. 3

=============================================================================
