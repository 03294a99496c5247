---------------------------- MODULE MCRequestParser ----------------------------
(* Streams for RequestParser: well-formed ones, and what one wrong token makes *)
(* of them.                                                                    *)
EXTENDS RequestParser

HeaderOf(fields) ==
    <<"get">> \o CRLF \o FlattenSeq([i \in DOMAIN fields |-> <<fields[i]>> \o CRLF]) \o CRLF

ChunkOf(size, bytes) == size \o CRLF \o bytes \o CRLF
LastChunk == <<"0">> \o CRLF \o CRLF

Plain == HeaderOf(<<>>)
Fixed == HeaderOf(<<"cl">>) \o <<"x", "0">>
Chunky == HeaderOf(<<"te">>) \o ChunkOf(<<"2">>, <<"x", "LF">>) \o LastChunk

\* A chunk extension, a chunk that looks like a line end, and a trailer.
Extended ==
    HeaderOf(<<"te">>) \o ChunkOf(<<"2", ";", "x">>, CRLF)
        \o <<"0">> \o CRLF \o <<"x">> \o CRLF \o CRLF

ContinuedFixed == HeaderOf(<<"exp", "cl">>) \o <<"x", "get">>
ContinuedChunky == HeaderOf(<<"te", "exp">>) \o <<"0", "0">> \o CRLF \o CRLF

\* Both ways to give a body at once.  Behind a line end its header is one token
\* below the limit, as is the body of Extended; the others reach or exceed one.
Both == HeaderOf(<<"te", "cl">>) \o LastChunk
LargeHeader == HeaderOf(<<"te", "cl", "exp">>)
LargeBody == HeaderOf(<<"big">>) \o <<"x", "x">>
LargeChunks == HeaderOf(<<"te">>) \o ChunkOf(<<"2">>, <<"x", "x">>)
                   \o ChunkOf(<<"2">>, <<"x", "x">>) \o LastChunk

Wellformed ==
    {Plain \o Chunky \o Plain,
     Fixed \o CRLF \o CRLF \o Plain,
     Extended \o Plain,
     Plain \o ContinuedFixed \o Plain,
     ContinuedChunky \o ContinuedFixed,
     CRLF \o Both \o Plain,
     Plain \o LargeHeader,
     Plain \o LargeBody \o Plain,
     LargeChunks \o Plain}

\* One token lost or replaced.
Damaged(st) ==
    {RemoveAt(st, i) : i \in DOMAIN st}
        \union {ReplaceAt(st, i, c) : i \in DOMAIN st, c \in {"CR", "LF", "x", "2", ";"}}

MCStreams ==
    Wellformed \union UNION {Damaged(st) : st \in {Fixed, Chunky \o Plain, Extended}}

\* A client that expects a continue though its request has no body.
MCBodyless == {HeaderOf(<<"exp">>) \o Plain}

=============================================================================
