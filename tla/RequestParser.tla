----------------------------- MODULE RequestParser -----------------------------
(****************************************************************************)
(* Requests cut out of a TCP stream that arrives in segments of any size:   *)
(* HTTPChannel.received (channel.py) feeds each segment to the              *)
(* HTTPRequestParser (parser.py) and that to a FixedStreamReceiver or a     *)
(* ChunkedReceiver (receiver.py).  All of them keep what is unfinished      *)
(* between two segments.  Framing says what must come out.                  *)
(*                                                                          *)
(* All of received() runs with requests_lock held; it is split into the     *)
(* rounds of its loops, which are counted, so that a loop that goes round   *)
(* without an end does not pass for one step.                               *)
(****************************************************************************)
EXTENDS Framing

CONSTANT Streams          \* what clients may send, each a sequence of tokens

ASSUME StreamsOfTokens == Streams \subseteq Seq(Token)

\* A letter, a ";" or another field that touches a field on its line would make a
\* different field of it; the streams have that only where the line is rejected.
ASSUME FieldsStandAlone ==
    \A st \in Streams : \A f \in Fields, c \in Fields \union Digits \union {"x", ";"} :
        Find(st, CRLF \o <<c, f>>) = 0 /\ Find(st, <<f, c>> \o CRLF) = 0

VARIABLES
    stream,               \* what this client sends
    fed,                  \* how much of it has been received
    pc,                   \* where received() stands; "idle" outside of it
    data,                 \* its local of that name
    request,              \* channel.request
    rcv,                  \* request.body_rcv
    s,                    \* local of ChunkedReceiver.received
    rounds,               \* how often its loop has gone round in this call
    n,                    \* the number of bytes that the last call consumed
    requests,             \* every request that was queued, in order
    served,               \* how many of them have left channel.requests
    sent_continue

vars == <<stream, fed, pc, data, request, rcv, s, rounds, n,
          requests, served, sent_continue>>
channel_vars == <<stream, fed, data, requests, served, sent_continue>>
loop_vars == <<s, rounds>>

NewRequest ==
    [plus |-> <<>>, hbytes |-> 0, bbytes |-> 0, kind |-> "none", headers |-> <<>>,
     finished |-> FALSE, expect |-> FALSE,
     empty |-> FALSE, error |-> FALSE, completed |-> FALSE]

\* remain is remain or chunk_remainder, the rest the fields of ChunkedReceiver:
\* validate_chunk_end, chunk_end, control_line, all_chunks_received, trailer.
NewReceiver(remain) ==
    [remain |-> remain, validate |-> FALSE, end |-> <<>>, line |-> <<>>,
     all |-> FALSE, trailer |-> <<>>, buf |-> <<>>,
     error |-> FALSE, completed |-> FALSE]

Init ==
    /\ stream \in Streams
    /\ fed = 0 /\ pc = "idle"
    /\ data = <<>> /\ s = <<>> /\ rounds = 0 /\ n = 0
    /\ request = NewRequest /\ rcv = NewReceiver(0)
    /\ requests = <<>> /\ served = 0
    /\ sent_continue = FALSE

Idle == served = Len(requests)          \* channel.requests is empty

\* The next request to service was rejected: the channel closes after it.
Closing == ~Idle /\ ~requests[served + 1].ok

\* The main thread reads a segment.
handle_read ==
    /\ pc = "idle"
    /\ \E k \in 1..Len(stream) - fed :
          /\ data' = SubSeq(stream, fed + 1, fed + k)
          /\ fed' = fed + k
    /\ pc' = "call"
    /\ UNCHANGED <<stream, request, rcv, loop_vars, n, requests, served, sent_continue>>

----------------------------------------------------------------------------
(* HTTPRequestParser.received, in the header *)

Header == request.plus \o data
HeaderEnd == DoubleNewline(Header)
HeaderBytes == IF HeaderEnd = 0 THEN request.hbytes + Len(data) ELSE HeaderEnd
HeaderText == LStrip(Upto(Header, HeaderEnd))

InHeader == pc = "call" /\ request.kind = "none"

\* What a call that stays in the header changes.
ParsedTo(r, used) ==
    /\ request' = r
    /\ n' = used
    /\ pc' = "returned"
    /\ UNCHANGED <<channel_vars, loop_vars>>

\* Mutant: an offset into what was kept and this segment together.
UsedWithPlus == IF HeaderEnd = 0 THEN Len(data) ELSE HeaderEnd

\* The bytes of this segment up to the end of the header.
UsedByHeader == IF HeaderEnd = 0 THEN Len(data) ELSE HeaderEnd - Len(request.plus)

header_too_large ==
    /\ InHeader
    /\ HeaderBytes >= MaxHeader
    /\ ParsedTo([request EXCEPT !.hbytes = HeaderBytes, !.error = TRUE, !.completed = TRUE],
                UsedByHeader)
    /\ UNCHANGED rcv

header_unfinished ==
    /\ InHeader
    /\ HeaderBytes < MaxHeader /\ HeaderEnd = 0
    /\ ParsedTo([request EXCEPT !.hbytes = HeaderBytes, !.plus = Header], Len(data))
    /\ UNCHANGED rcv

HeaderComplete == InHeader /\ HeaderBytes < MaxHeader /\ HeaderEnd # 0

header_blank ==
    /\ HeaderComplete /\ HeaderText = <<>>
    /\ ParsedTo([request EXCEPT !.hbytes = HeaderBytes, !.finished = TRUE,
                                !.empty = TRUE, !.completed = TRUE], UsedByHeader)
    /\ UNCHANGED rcv

parse_header ==
    /\ HeaderComplete /\ HeaderText # <<>>
    /\ LET h == ParsedHeader(HeaderText, request.headers) IN
       /\ ParsedTo([request EXCEPT
                       !.hbytes = HeaderBytes, !.finished = TRUE,
                       !.headers = h.kept, !.expect = h.expect,
                       !.kind = IF h.ok THEN h.kind ELSE "none",
                       !.error = @ \/ ~h.ok \/ h.kind = "big",
                       !.completed = ~h.ok \/ h.kind \in {"none", "big"}],
                   UsedByHeader)
       /\ rcv' = NewReceiver(CASE h.kind = "fixed" -> BodyLength
                               [] h.kind = "big" -> BigLength
                               [] OTHER -> 0)

----------------------------------------------------------------------------
(* The body receivers *)

\* Mutant: a chunk that is not there as a whole is not taken at all.
NothingYet(bytes) == IF rcv.remain =< Len(bytes) THEN rcv.remain ELSE 0

\* Mutant: everything that has arrived is taken for the body.
WholeSegment(bytes) == Len(bytes)

\* FixedStreamReceiver.received; a request that was rejected for its length comes
\* here only when a continue was sent for it.
Remainder(bytes) == IF rcv.remain =< Len(bytes) THEN rcv.remain ELSE Len(bytes)

fixed_body ==
    /\ pc = "call" /\ request.kind \in {"fixed", "big"}
    /\ rcv' = [rcv EXCEPT !.remain = @ - Remainder(data),
                          !.buf = @ \o Upto(data, Remainder(data)),
                          !.completed = rcv.remain =< Len(data)]
    /\ n' = Remainder(data)
    /\ pc' = "body"
    /\ UNCHANGED <<channel_vars, request, loop_vars>>

\* ChunkedReceiver.received; pc is "chunks" at the head of its loop.
chunked_body ==
    /\ pc = "call" /\ request.kind = "chunked"
    /\ s' = data /\ rounds' = 0
    /\ pc' = "chunks"
    /\ UNCHANGED <<channel_vars, request, rcv, n>>

InLoop == pc = "chunks" /\ s # <<>>

Continue(r, rest) ==
    /\ rcv' = r
    /\ s' = rest /\ rounds' = rounds + 1
    /\ UNCHANGED <<channel_vars, request, n, pc>>

Return(r, used) ==
    /\ rcv' = r
    /\ n' = used
    /\ pc' = "body"
    /\ UNCHANGED <<channel_vars, request, loop_vars>>

chunk_data ==
    /\ InLoop /\ rcv.remain > 0
    /\ Continue([rcv EXCEPT !.remain = @ - Remainder(s),
                            !.buf = @ \o Upto(s, Remainder(s)),
                            !.validate = rcv.remain =< Len(s)],
                From(s, Remainder(s) + 1))

\* Mutant: half of a line end is forgotten between two segments.
ChunkEndForgotten == s

\* What is looked at after a chunk: s with what was kept from the last segment.
ChunkEnd == rcv.end \o s

chunk_end ==
    /\ InLoop /\ rcv.remain = 0 /\ rcv.validate
    /\ \/ /\ Len(ChunkEnd) < 2
          /\ Continue([rcv EXCEPT !.end = ChunkEnd], <<>>)
       \/ /\ Find(ChunkEnd, CRLF) = 1
          /\ Continue([rcv EXCEPT !.end = <<>>, !.validate = FALSE], From(ChunkEnd, 3))
       \/ /\ Len(ChunkEnd) >= 2 /\ Find(ChunkEnd, CRLF) # 1
          /\ Continue([rcv EXCEPT !.end = <<>>, !.validate = FALSE,
                                  !.error = TRUE, !.all = TRUE], ChunkEnd)

ControlLine == rcv.line \o s
LineEnd == Find(ControlLine, CRLF)
Line == Upto(ControlLine, LineEnd - 1)
InControlLine == InLoop /\ rcv.remain = 0 /\ ~rcv.validate /\ ~rcv.all

control_line_unfinished ==
    /\ InControlLine /\ LineEnd = 0
    /\ Continue([rcv EXCEPT !.line = ControlLine], <<>>)

\* An empty line is skipped; a size of 0 ends the chunks.
control_line ==
    /\ InControlLine /\ LineEnd # 0
    /\ Line = <<>> \/ IsControlLine(Line)
    /\ Continue([rcv EXCEPT !.line = <<>>,
                            !.remain = Size(SizePart(Line)),
                            !.all = Line # <<>> /\ Size(SizePart(Line)) = 0],
                From(ControlLine, LineEnd + 2))

control_line_invalid ==
    /\ InControlLine /\ LineEnd # 0
    /\ Line # <<>> /\ ~IsControlLine(Line)
    /\ Return([rcv EXCEPT !.line = <<>>, !.error = TRUE, !.all = TRUE], Len(data))

WholeTrailer == rcv.trailer \o s
TrailerEnd ==
    IF IsPrefix(CRLF, WholeTrailer) THEN 2 ELSE DoubleNewline(WholeTrailer)
InTrailer == InLoop /\ rcv.remain = 0 /\ ~rcv.validate /\ rcv.all

trailer_unfinished ==
    /\ InTrailer /\ TrailerEnd = 0
    /\ Continue([rcv EXCEPT !.trailer = WholeTrailer], <<>>)

trailer ==
    /\ InTrailer /\ TrailerEnd # 0
    /\ Return([rcv EXCEPT !.completed = TRUE],
              Len(data) - (Len(WholeTrailer) - TrailerEnd))

chunks_consumed ==
    /\ pc = "chunks" /\ s = <<>>
    /\ Return(rcv, Len(data))

\* HTTPRequestParser.received, after its body receiver has returned.
BodyTooLarge == request.bbytes + n >= MaxBody

body_received ==
    /\ pc = "body"
    /\ request' = [request EXCEPT
                      !.bbytes = @ + n,
                      !.error = @ \/ BodyTooLarge \/ rcv.error,
                      !.completed = @ \/ BodyTooLarge \/ rcv.error \/ rcv.completed]
    /\ pc' = "returned"
    /\ UNCHANGED <<channel_vars, rcv, loop_vars, n>>

----------------------------------------------------------------------------
(* HTTPChannel.received, after the parser has returned *)

WantsContinue ==
    request.expect /\ request.finished /\ ~sent_continue

\* What send_continue() does to the request it is sent for.
Continued == [request EXCEPT !.expect = FALSE, !.completed = FALSE]

send_continue ==
    /\ pc = "returned" /\ WantsContinue /\ Idle
    /\ request' = Continued
    /\ sent_continue' = TRUE
    /\ UNCHANGED <<stream, fed, pc, data, rcv, loop_vars, n, requests, served>>

\* To the next round of its loop, or out of it.
NextRound ==
    /\ data' = From(data, n + 1)
    /\ pc' = IF n >= Len(data) THEN "idle" ELSE "call"
    /\ s' = <<>> /\ rounds' = 0 /\ n' = 0
    /\ UNCHANGED <<stream, fed, served>>

Outcome == IF request.error THEN Rejected ELSE Accepted(rcv.buf)

queue_request ==
    /\ pc = "returned" /\ ~(WantsContinue /\ Idle)
    /\ request.completed
    /\ requests' = IF request.empty THEN requests ELSE Append(requests, Outcome)
    /\ sent_continue' = FALSE
    /\ request' = NewRequest /\ rcv' = NewReceiver(0)
    /\ NextRound

keep_request ==
    /\ pc = "returned" /\ ~(WantsContinue /\ Idle)
    /\ ~request.completed
    /\ UNCHANGED <<request, rcv, requests, sent_continue>>
    /\ NextRound

\* The end of service(): the request leaves the queue, and the one that is being
\* received may be told to continue now.
service_ends ==
    /\ pc = "idle" /\ ~Idle /\ ~Closing
    /\ served' = served + 1
    /\ LET due == served' = Len(requests) /\ WantsContinue IN
       /\ request' = IF due THEN Continued ELSE request
       /\ sent_continue' = (sent_continue \/ due)
    /\ UNCHANGED <<stream, fed, pc, data, rcv, loop_vars, n, requests>>

\* The client has sent everything, and everything has been answered.
all_answered ==
    /\ pc = "idle" /\ fed = Len(stream)
    /\ Idle \/ Closing
    /\ UNCHANGED vars

Received ==
    \/ header_too_large \/ header_unfinished \/ header_blank \/ parse_header
    \/ fixed_body \/ chunked_body
    \/ chunk_data \/ chunk_end
    \/ control_line_unfinished \/ control_line \/ control_line_invalid
    \/ trailer_unfinished \/ trailer \/ chunks_consumed
    \/ body_received
    \/ send_continue \/ queue_request \/ keep_request

Next == handle_read \/ Received \/ service_ends \/ all_answered

Spec == Init /\ [][Next]_vars

----------------------------------------------------------------------------
(* Properties *)

\* Every variable has its type, and what a body receiver waits for is never
\* negative.
TypeOK ==
    /\ stream \in Seq(Token) /\ fed \in 0..Len(stream)
    /\ pc \in {"idle", "call", "chunks", "body", "returned"}
    /\ data \in Seq(Token) /\ s \in Seq(Token) /\ {n, rounds} \subseteq Nat
    /\ DOMAIN request = DOMAIN NewRequest /\ DOMAIN rcv = DOMAIN NewReceiver(0)
    /\ request.kind \in {"none", "fixed", "chunked", "big"}
    /\ \A t \in {request.plus, rcv.end, rcv.line, rcv.trailer, rcv.buf} : t \in Seq(Token)
    /\ {request.hbytes, request.bbytes, rcv.remain} \subseteq Nat
    /\ served \in 0..Len(requests)
    /\ sent_continue \in BOOLEAN

\* The requests that were queued, up to the first one that was rejected: nothing
\* after it is serviced.
Effective ==
    LET i == SelectInSeq(requests, LAMBDA r : ~r.ok)
    IN IF i = 0 THEN requests ELSE Upto(requests, i)

\* However the stream is cut into segments, and whenever the requests before are
\* answered, what has been received so far gives exactly the requests, with the
\* bodies, that it holds when it is looked at as a whole.  The bytes that each
\* layer keeps for the next segment, and the number that it reports as consumed,
\* are right together or not at all.
FramingExact ==
    pc = "idle" => Effective = Frames[Upto(stream, fed)]

\* The parser consumes at least one byte of what it is given and no more than
\* there are: with none, `while data` in HTTPChannel.received would go round for
\* ever with requests_lock held.
ConsumptionInRange ==
    pc = "returned" => n \in 1..Len(data)

\* The loop of ChunkedReceiver.received goes round at most once for each byte of
\* the segment, and once more where it goes on after an error: in none of the
\* states that it can be in at the start of a segment does it spin.
RoundsBounded == rounds =< Len(data) + 1

\* parser.py:86-89 says that the parser "Sets the completed flag once both the
\* header and the body have been received": a request without a body is not left
\* waiting in channel.request once its header is finished.
FinishedIsCompleted ==
    pc = "idle" => ~(request.finished /\ request.kind = "none")

=============================================================================
