------------------------------- MODULE MCChannel -------------------------------
(* Scripts for the client of Channel, for TLC. *)
EXTENDS Channel, TLC

CONSTANTS w1, w2

Chunk(n) == [size |-> n, file |-> FALSE]
File(n) == [size |-> n, file |-> TRUE]

Get(writes) ==
    [expect |-> FALSE, body |-> FALSE, empty |-> FALSE, error |-> FALSE,
     close |-> FALSE, writes |-> writes]
Post(writes) == [Get(writes) EXCEPT !.body = TRUE]
PostExpect(writes) == [Post(writes) EXCEPT !.expect = TRUE]
GetClose(writes) == [Get(writes) EXCEPT !.close = TRUE]
BadRequest == [Get(<<Chunk(1)>>) EXCEPT !.error = TRUE, !.close = TRUE]
Blank == [Get(<<>>) EXCEPT !.empty = TRUE]

\* Pipelined requests: a pause at the watermark, a continue that main sends, a
\* file, a blank line, an error, and closes with requests behind them.
Pipelined ==
    { << Get(<<Chunk(2), Chunk(2)>>), Get(<<Chunk(1)>>) >>,
      << PostExpect(<<File(2)>>), Blank, GetClose(<<Chunk(1)>>), Get(<<Chunk(1)>>) >>,
      << Get(<<Chunk(1)>>), BadRequest, Get(<<Chunk(1)>>) >> }

\* A request that expects a continue right behind another request.
ExpectBehind == { << Get(<<Chunk(1)>>), PostExpect(<<Chunk(1)>>) >> }

\* Two requests, the first of which leaves more than Hwm behind.
TwoLarge == { << Get(<<Chunk(1), File(2)>>), Get(<<Chunk(1)>>) >> }

\* For liveness: pauses at the watermark, a continue, a file, a close.
Answered ==
    { << Get(<<Chunk(2), Chunk(2), Chunk(2)>>) >>,
      << PostExpect(<<File(3), Chunk(1)>>) >>,
      << Get(<<Chunk(1)>>), GetClose(<<Chunk(1)>>) >> }

WorkerSymmetry == Permutations(Workers)

=============================================================================
