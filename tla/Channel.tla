-------------------------------- MODULE Channel --------------------------------
(****************************************************************************)
(* HTTPChannel of waitress/channel.py: one connection, shared by the main   *)
(* thread (wasyncore's poll loop) and the worker threads that service its   *)
(* requests, with its two locks, its output buffers and its trigger.        *)
(* A step is a run of code between two points where another thread can see  *)
(* or change what it uses.  Data is counted in units: a request is a "head" *)
(* unit and perhaps a "body" unit, a response is a sequence of tokens.      *)
(****************************************************************************)
EXTENDS Integers, Sequences, FiniteSets, SequencesExt

CONSTANTS
    Main, Workers,        \* the threads
    Scripts,              \* what the client may send: sequences of requests
    SendBytes,            \* adj.send_bytes
    Hwm,                  \* adj.outbuf_high_watermark
    StrLimit,             \* STRBUF_LIMIT of buffers.py
    SockCap,              \* what the kernel buffers for the client to read
    Lookahead,            \* adj.channel_request_lookahead
    Events                \* which of the environment's events may happen

ASSUME EventsKnown ==
    Events \subseteq {"shut", "reset", "fail", "raise", "stale", "stop"}

\* Main is not a worker, and a lock that nobody holds is "none".
ASSUME ThreadsDistinct == Main \notin Workers /\ "none" \notin Workers \union {Main}

ASSUME LimitsTyped ==
    {SendBytes, Hwm, StrLimit, SockCap, Lookahead} \subseteq Nat

\* A larger send_bytes would leave a worker paused at the watermark with main
\* seeing nothing worth sending.
ASSUME WatermarkUsable == 0 < SendBytes /\ SendBytes =< Hwm /\ 0 < SockCap

\* A request of a script: whether it asks for 100-continue, has a body, is only
\* a blank line, is answered by an ErrorTask, asks to close, and what the
\* application writes.  Every response has a head; expecting without a body is
\* not modelled.
Writes == [size : Nat \ {0}, file : BOOLEAN]

Requests == [expect : BOOLEAN, body : BOOLEAN, empty : BOOLEAN, error : BOOLEAN,
             close : BOOLEAN, writes : Seq(Writes)]

ASSUME ScriptsShape ==
    \A s \in Scripts :
        /\ s \in Seq(Requests)
        /\ \A i \in DOMAIN s :
              /\ s[i].expect => s[i].body /\ ~s[i].error
              /\ s[i].error => s[i].close /\ ~s[i].body /\ Len(s[i].writes) = 1
              /\ s[i].empty => ~s[i].body
              /\ s[i].empty <=> s[i].writes = <<>>

Threads == {Main} \union Workers
None == "none"

VARIABLES
    requests, request, will_close, close_when_flushed, connected,
    sent_continue,
    total,                \* total_outbufs_len
    cur,                  \* current_outbuf_count
    outbufs,              \* the buffers: their unsent data and their stage
    popped,               \* how many buffers have been popped from outbufs
    stale,                \* last_activity lies before the maintenance's cutoff
    requests_lock, outbuf_lock,     \* the owners
    tasks,                \* how often the channel is in the dispatcher's queue
    trigger,              \* a byte is in the trigger's pipe
    sock,                 \* "open", or "closed" and out of the socket map
    pc,                   \* where each thread is
    flush,                \* each thread's locals of _flush_some
    job,                  \* each worker's locals of service()
    ready,                \* main: the events that poll() asks for, then has got
    script, sent, rcvd, parsed,     \* the input, and how much of it was sent by
                          \* the client, received, and seen by the parser
    peer,                 \* the client's side of the connection
    room,                 \* free space in the kernel's send buffer
    wire,                 \* the tokens sent to the client
    reaped                \* maintenance has decided to close the channel

shared == <<requests, request, will_close, close_when_flushed, connected,
            sent_continue>>
buffers == <<total, cur, outbufs, popped>>
locks == <<requests_lock, outbuf_lock>>
client == <<script, sent, peer>>
input == <<rcvd, parsed>>
vars == <<shared, buffers, stale, locks, tasks, trigger, sock, pc, flush, job,
          ready, client, input, room, wire, reaped>>

----------------------------------------------------------------------------
(* The input and the output *)

Units ==
    FlattenSeq([i \in DOMAIN script |->
        IF script[i].body THEN << <<i, "head">>, <<i, "body">> >>
                          ELSE << <<i, "head">> >>])

NoRequest == [id |-> 0, expect |-> FALSE, completed |-> FALSE]

Sizes(writes) == [i \in DOMAIN writes |-> writes[i].size]

\* How much of a response has been written after each of its writes.
Written(writes) ==
    LET upto[i \in 0..Len(writes)] ==
            IF i = 0 THEN 0 ELSE upto[i - 1] + writes[i].size
    IN upto

ResponseLen(id) == Written(script[id].writes)[Len(script[id].writes)]

Tokens(id, from, size) == [i \in 1..size |-> <<id, from + i - 1>>]

NewBuffer == [data |-> <<>>, stage |-> "str"]

Last1(s) == s[Len(s)]

Waiters == {t \in Threads : pc[t] = "waiting"}

\* Mutant: nobody is notified.
NotifyNobody(p) == p

\* pc after outbuf_lock.notify(); never more than one worker waits (OneServant).
Notify(p) == [t \in Threads |-> IF t \in Waiters THEN "relock" ELSE p[t]]

Go(t, label) == pc' = [pc EXCEPT ![t] = label]

CanTakeOutbufs(t) == outbuf_lock \in {None, t}

Flushing(t) ==
    pc[t] \in {"top", "send", "skip", "deduct", "flushed", "raised", "fclose", "fclose2"}

UsingOutbufs(t) == Flushing(t) \/ pc[t] = "put"

Init ==
    /\ requests = <<>> /\ request = NoRequest
    /\ will_close = FALSE /\ close_when_flushed = FALSE /\ connected = TRUE
    /\ sent_continue = FALSE
    /\ total = 0 /\ cur = 0 /\ outbufs = <<NewBuffer>> /\ popped = 0
    /\ stale = FALSE
    /\ requests_lock = None /\ outbuf_lock = None
    /\ tasks = 0 /\ trigger = FALSE /\ sock = "open"
    /\ pc = [t \in Threads |-> IF t = Main THEN "poll" ELSE "idle"]
    /\ flush = [t \in Threads |->
                   [ctx |-> "", ref |-> 0, len |-> 0, num |-> 0, sent |-> FALSE]]
    /\ job = [w \in Workers |->
                 [id |-> 0, todo |-> <<>>, k |-> 1, close |-> FALSE, exc |-> FALSE]]
    /\ ready = [r |-> FALSE, w |-> FALSE]
    /\ script \in Scripts /\ sent = 0 /\ rcvd = 0 /\ parsed = 0
    /\ peer = "open" /\ room = SockCap /\ wire = <<>>
    /\ reaped = FALSE

----------------------------------------------------------------------------
(* _flush_some(do_close): send what is buffered.  Its caller is ctx:        *)
(*   "unlocked"  handle_write without a request, not holding outbuf_lock    *)
(*   "lockable"  _flush_some_if_lockable, called by handle_write            *)
(*   "continue"  send_continue                                              *)
(*   "write"     write_soon, when send_bytes have been reached              *)
(*   "hwm", "hwm_fin"  _flush_outbufs_below_high_watermark, called by       *)
(*               write_soon and at the end of service()                     *)

StartFlush(t, ctx) == flush' = [flush EXCEPT ![t].ctx = ctx]

\* Mutant: any flush may close the channel.
AlwaysClose(t) == TRUE

DoClose(t) == flush[t].ctx \in {"unlocked", "lockable", "continue"}

\* The outbuf that t is working on; another flush may have popped it.
Current(t) == outbufs[flush[t].ref - popped]
Gone(t) == flush[t].ref =< popped \/ Current(t).stage = "shut"

\* The drained buffers before the last one are popped.
flush_top(t) ==
    /\ pc[t] = "top"
    /\ LET left == SelectInSeq(outbufs, LAMBDA b : b.data # <<>>)
           n == IF left = 0 THEN Len(outbufs) - 1 ELSE left - 1
       IN /\ outbufs' = SubSeq(outbufs, n + 1, Len(outbufs))
          /\ popped' = popped + n
          /\ flush' = [flush EXCEPT ![t].ref = popped + n + 1,
                                    ![t].len = Len(outbufs[n + 1].data)]
          /\ Go(t, IF left = 0 THEN "flushed" ELSE "send")
    /\ UNCHANGED <<shared, total, cur, stale, locks, tasks, trigger, sock, job,
                   ready, client, input, room, wire, reaped>>

\* Bytes are accepted by the kernel: all that fits, or less.
send_some(t) ==
    /\ pc[t] = "send" /\ ~Gone(t)
    /\ sock = "open" /\ peer \in {"open", "shut"}
    /\ \E n \in 1..Min({room, Len(Current(t).data)}) :
          /\ wire' = wire \o SubSeq(Current(t).data, 1, n)
          /\ room' = room - n
          /\ flush' = [flush EXCEPT ![t].num = n]
    /\ Go(t, "skip")
    /\ UNCHANGED <<shared, buffers, stale, locks, tasks, trigger, sock, job,
                   ready, client, input, reaped>>

\* send() returns 0 (EWOULDBLOCK, a disconnected peer, or nothing in a buffer
\* that another flush has emptied), closes the channel, or raises.
send_nothing(t) ==
    /\ pc[t] = "send"
    /\ IF Gone(t)
       THEN Go(t, "flushed") \/ Go(t, "raised")
       ELSE \/ sock = "closed" /\ Go(t, "raised")
            \/ sock = "open" /\ peer = "fail" /\ Go(t, "raised")
            \/ sock = "open" /\ peer = "reset"
               /\ Go(t, IF DoClose(t) THEN "fclose" ELSE "flushed")
            \/ sock = "open" /\ peer \in {"open", "shut"}
               /\ (room = 0 \/ Current(t).data = <<>>) /\ Go(t, "flushed")
    /\ UNCHANGED <<shared, buffers, stale, locks, tasks, trigger, sock, flush,
                   job, ready, client, input, room, wire, reaped>>

\* Mutant: the file made of a str buffer starts with what was sent already.
SkippedLate(b, n) ==
    LET whole == n = Len(b.data)
        turned == b.stage = "str" /\ ~whole
    IN [data |-> IF turned THEN b.data ELSE SubSeq(b.data, n + 1, Len(b.data)),
        stage |-> IF turned THEN "buf" ELSE b.stage]

\* outbuf.skip(num_sent, True): a str buffer that is not sent whole is turned
\* into a file; skipping more than the buffer holds raises.
Skipped(b, n) ==
    [data |-> SubSeq(b.data, n + 1, Len(b.data)),
     stage |-> IF b.stage = "str" /\ n < Len(b.data) THEN "buf" ELSE b.stage]

\* Another thread uses the buffers too: t or the other one flushes unlocked.
Racing(t) ==
    \E u \in Threads \ {t} :
        UsingOutbufs(u) \/ (pc[u] = "continue" /\ outbuf_lock # t)

\* The rest of the round: outbuflen and sent.
SentOn(t) ==
    LET n == flush[t].num IN
    /\ flush' = [flush EXCEPT ![t].len = @ - n, ![t].num = 0, ![t].sent = TRUE]
    /\ Go(t, IF flush[t].len > n THEN "send" ELSE "top")

\* skip() and `total_outbufs_len -= num_sent` are two steps.  They are taken as one
\* where nobody else uses the buffers: until somebody does, whoever reads the total
\* between them could have read it before skip().
flush_skip(t) ==
    /\ pc[t] = "skip"
    /\ IF Gone(t) \/ Len(Current(t).data) < flush[t].num
       THEN Go(t, "raised") /\ UNCHANGED <<flush, total, outbufs>>
       ELSE /\ outbufs' = [outbufs EXCEPT ![flush[t].ref - popped] =
                               Skipped(@, flush[t].num)]
            /\ IF Racing(t)
               THEN Go(t, "deduct") /\ UNCHANGED <<flush, total>>
               ELSE SentOn(t) /\ total' = total - flush[t].num
    /\ UNCHANGED <<shared, cur, popped, stale, locks, tasks, trigger, sock, job,
                   ready, client, input, room, wire, reaped>>

\* An update of the total is a read and a write.  Another thread's update can lie
\* across this one of t, which is lost then.
Overwritten(t) ==
    \E u \in Threads \ {t} :
        \/ pc[u] = "deduct"
        \/ pc[t] = "deduct" /\ pc[u] \in {"put", "continue"} /\ outbuf_lock # t

NewTotal(t, n) == total' = n \/ (Overwritten(t) /\ total' = total)

flush_deduct(t) ==
    /\ pc[t] = "deduct"
    /\ NewTotal(t, total - flush[t].num)
    /\ SentOn(t)
    /\ UNCHANGED <<shared, cur, outbufs, popped, stale, locks, tasks, trigger, sock,
                   job, ready, client, input, room, wire, reaped>>

Idle == [ctx |-> "", ref |-> 0, len |-> 0, num |-> 0, sent |-> FALSE]

\* The wait at the watermark is over, or never needed: on with write_soon
\* (which still holds the lock), or with the end of service().
BelowHwm(t) ==
    IF flush[t].ctx = "hwm"
    THEN Go(t, "put") /\ outbuf_lock' = t
    ELSE Go(t, "pop") /\ outbuf_lock' = None

PauseAtHwm(t) == Go(t, "waiting") /\ outbuf_lock' = None /\ trigger' = TRUE

\* Mutant: no pause above the watermark.
NoTestHwm(t) ==
    BelowHwm(t) /\ flush' = [flush EXCEPT ![t] = Idle] /\ UNCHANGED trigger

\* One pass through the loop that pauses at the watermark.
TestHwm(t) ==
    IF connected /\ total > Hwm
    THEN PauseAtHwm(t) /\ UNCHANGED flush
    ELSE BelowHwm(t) /\ flush' = [flush EXCEPT ![t] = Idle] /\ UNCHANGED trigger

\* The return of _flush_some, up to where its caller's lock is released.
FlushReturned(t) ==
    LET f == flush[t] IN
    \/ /\ f.ctx = "unlocked"
       /\ Go(t, "after")
       /\ flush' = [flush EXCEPT ![t] = Idle]
       /\ UNCHANGED <<request, locks, trigger>>
    \/ /\ f.ctx = "lockable"
       /\ LET p == [pc EXCEPT ![t] = "after"] IN
              pc' = IF total < Hwm THEN Notify(p) ELSE p
       /\ outbuf_lock' = None
       /\ flush' = [flush EXCEPT ![t] = Idle]
       /\ UNCHANGED <<request, requests_lock, trigger>>
    \/ /\ f.ctx = "continue"
       /\ request' = [request EXCEPT !.completed = FALSE]
       /\ Go(t, IF t = Main THEN "queue" ELSE "last")
       /\ outbuf_lock' = None
       /\ requests_lock' = IF t = Main THEN Main ELSE None
       /\ flush' = [flush EXCEPT ![t] = Idle]
       /\ UNCHANGED trigger
    \/ /\ f.ctx = "write"
       /\ trigger' = (trigger \/ ~f.sent \/ total >= SendBytes)
       /\ Go(t, "app")
       /\ outbuf_lock' = None
       /\ flush' = [flush EXCEPT ![t] = Idle]
       /\ UNCHANGED <<request, requests_lock>>
    \/ /\ f.ctx \in {"hwm", "hwm_fin"}
       /\ TestHwm(t)
       /\ UNCHANGED <<request, requests_lock>>

flush_return(t) ==
    /\ pc[t] = "flushed"
    /\ FlushReturned(t)
    /\ stale' = (stale /\ ~flush[t].sent)
    /\ UNCHANGED <<requests, will_close, close_when_flushed, connected,
                   sent_continue, buffers, tasks, sock, job, ready, client,
                   input, room, wire, reaped>>

\* _flush_exception turns an exception into will_close; send_continue does not
\* call it, so there the exception unwinds received() or service().
FlushRaised(t) ==
    LET f == flush[t] IN
    \/ /\ f.ctx \in {"unlocked", "lockable"}
       /\ will_close' = TRUE
       /\ Go(t, "after")
       /\ outbuf_lock' = IF f.ctx = "lockable" THEN None ELSE outbuf_lock
       /\ flush' = [flush EXCEPT ![t] = Idle]
       /\ UNCHANGED <<requests_lock, trigger, job>>
    \/ /\ f.ctx = "write"
       /\ will_close' = TRUE /\ trigger' = TRUE
       /\ Go(t, "app")
       /\ outbuf_lock' = None
       /\ flush' = [flush EXCEPT ![t] = Idle]
       /\ UNCHANGED <<requests_lock, job>>
    \/ /\ f.ctx \in {"hwm", "hwm_fin"}
       /\ will_close' = TRUE
       /\ PauseAtHwm(t)
       /\ job' = [job EXCEPT ![t].exc = TRUE]
       /\ UNCHANGED <<requests_lock, flush>>
    \/ /\ f.ctx = "continue"
       /\ Go(t, IF t = Main THEN "close" ELSE "idle")
       /\ requests_lock' = None /\ outbuf_lock' = None
       /\ flush' = [flush EXCEPT ![t] = Idle]
       /\ UNCHANGED <<will_close, trigger, job>>

flush_raise(t) ==
    /\ pc[t] = "raised"
    /\ FlushRaised(t)
    /\ UNCHANGED <<requests, request, close_when_flushed, connected,
                   sent_continue, buffers, stale, tasks, sock, ready, client,
                   input, room, wire, reaped>>

flush_some(t) ==
    \/ flush_top(t) \/ send_some(t) \/ send_nothing(t) \/ flush_skip(t)
    \/ flush_deduct(t) \/ flush_return(t) \/ flush_raise(t)

----------------------------------------------------------------------------
(* handle_close: give up the output, release a paused worker, then leave    *)
(* the socket map and close the socket.                                     *)

\* OverflowableBuffer.close() leaves the data of a str buffer where it is.
Closed(b) == IF b.stage = "str" THEN b ELSE [data |-> <<>>, stage |-> "shut"]

handle_close(t) ==
    /\ pc[t] \in {"close", "fclose"}
    /\ CanTakeOutbufs(t)
    /\ outbufs' = [i \in DOMAIN outbufs |-> Closed(outbufs[i])]
    /\ NewTotal(t, 0)
    /\ connected' = FALSE
    /\ pc' = Notify([pc EXCEPT ![t] = IF @ = "close" THEN "close2" ELSE "fclose2"])
    /\ UNCHANGED <<requests, request, will_close, close_when_flushed,
                   sent_continue, cur, popped, stale, locks, tasks, trigger,
                   sock, flush, job, ready, client, input, room, wire, reaped>>

dispatcher_close(t) ==
    /\ pc[t] \in {"close2", "fclose2"}
    /\ sock' = "closed"
    /\ Go(t, IF pc[t] = "fclose2" THEN "flushed" ELSE "poll")
    /\ UNCHANGED <<shared, buffers, stale, locks, tasks, trigger, flush, job,
                   ready, client, input, room, wire, reaped>>

----------------------------------------------------------------------------
(* send_continue, by main while it parses ("continue", requests_lock held), *)
(* or by a worker at the end of service().                                  *)

\* outbuf.append(): a str buffer that grows to STRBUF_LIMIT is turned into a file.
Appended(b, chunk) ==
    LET data == b.data \o chunk
    IN [data |-> data,
        stage |-> IF b.stage = "str" /\ Len(data) >= StrLimit THEN "buf" ELSE b.stage]

WantsContinue == request.expect /\ ~sent_continue

send_continue(t) ==
    /\ pc[t] = "continue"
    /\ outbuf_lock = None /\ outbuf_lock' = t
    /\ request' = [request EXCEPT !.expect = FALSE]
    /\ StartFlush(t, "continue")
    /\ IF Last1(outbufs).stage = "shut"
       THEN /\ Go(t, "raised")           \* append() to a closed file
            /\ UNCHANGED <<outbufs, cur, total, sent_continue>>
       ELSE /\ Go(t, "top")
            /\ outbufs' = [outbufs EXCEPT ![Len(outbufs)] =
                               Appended(@, << <<request.id, 0>> >>)]
            /\ cur' = cur + 1
            /\ NewTotal(t, total + 1)
            /\ sent_continue' = TRUE
    /\ UNCHANGED <<requests, will_close, close_when_flushed, connected, popped,
                   stale, requests_lock, tasks, trigger, sock, job, ready,
                   client, input, room, wire, reaped>>

----------------------------------------------------------------------------
(* The main thread: wasyncore.poll and the handlers it calls                *)

\* server.readable(), with or without a due maintenance().
server_readable ==
    /\ pc[Main] = "poll"
    /\ \/ UNCHANGED <<will_close, reaped>>
       \/ sock = "open" /\ requests = <<>> /\ stale
          /\ will_close' = TRUE /\ reaped' = TRUE
    /\ Go(Main, "readable")
    /\ UNCHANGED <<requests, request, close_when_flushed, connected,
                   sent_continue, buffers, stale, locks, tasks, trigger, sock,
                   flush, job, ready, client, input, room, wire>>

\* readable() reads the flags, then the lengths; writable() reads both again.
readable ==
    /\ pc[Main] = "readable"
    /\ ready' = [r |-> sock = "open" /\ ~will_close /\ ~close_when_flushed,
                 w |-> FALSE]
    /\ Go(Main, IF sock = "open" THEN "writable" ELSE "select")
    /\ UNCHANGED <<shared, buffers, stale, locks, tasks, trigger, sock, flush,
                   job, client, input, room, wire, reaped>>

writable ==
    /\ pc[Main] = "writable"
    /\ ready' = [r |-> ready.r /\ Len(requests) =< Lookahead /\ total = 0,
                 w |-> total > 0 \/ will_close \/ close_when_flushed]
    /\ Go(Main, "select")
    /\ UNCHANGED <<shared, buffers, stale, locks, tasks, trigger, sock, flush,
                   job, client, input, room, wire, reaped>>

\* select() of a socket that was closed since raises EBADF out of the loop.
enter_select ==
    /\ pc[Main] = "select"
    /\ Go(Main, IF (ready.r \/ ready.w) /\ sock = "closed" THEN "crashed"
                                                        ELSE "blocked")
    /\ UNCHANGED <<shared, buffers, stale, locks, tasks, trigger, sock, flush,
                   job, ready, client, input, room, wire, reaped>>

CanRecv == sock = "open" /\ (rcvd < sent \/ peer # "open")
CanSend == sock = "open" /\ (room > 0 \/ peer \in {"reset", "fail"})

SomethingReady == trigger \/ (ready.r /\ CanRecv) \/ (ready.w /\ CanSend)

select_returns ==
    /\ pc[Main] = "blocked" /\ SomethingReady
    /\ ready' = [r |-> ready.r /\ CanRecv, w |-> ready.w /\ CanSend]
    /\ Go(Main, IF trigger THEN "drain" ELSE "read")
    /\ UNCHANGED <<shared, buffers, stale, locks, tasks, trigger, sock, flush,
                   job, client, input, room, wire, reaped>>

select_times_out ==
    /\ pc[Main] = "blocked" /\ ~SomethingReady
    /\ ready' = [r |-> FALSE, w |-> FALSE]
    /\ Go(Main, "poll")
    /\ UNCHANGED <<shared, buffers, stale, locks, tasks, trigger, sock, flush,
                   job, client, input, room, wire, reaped>>

\* The trigger's handle_read empties the pipe.
trigger_read ==
    /\ pc[Main] = "drain"
    /\ trigger' = FALSE
    /\ Go(Main, "read")
    /\ UNCHANGED <<shared, buffers, stale, locks, tasks, sock, flush, job,
                   ready, client, input, room, wire, reaped>>

\* recv() returns some of what has arrived; at the end of the input, or on an
\* error, the channel is closed.
handle_read ==
    /\ pc[Main] = "read"
    /\ \/ /\ ~ready.r \/ sock = "closed"
          /\ Go(Main, "write")
          /\ UNCHANGED <<rcvd, stale>>
       \/ /\ ready.r /\ sock = "open"
          /\ IF peer \in {"open", "shut"} /\ rcvd < sent
             THEN /\ \E n \in rcvd + 1..sent : rcvd' = n
                  /\ stale' = FALSE
                  /\ Go(Main, "received")
             ELSE /\ Go(Main, "close")
                  /\ UNCHANGED <<rcvd, stale>>
    /\ UNCHANGED <<shared, buffers, locks, tasks, trigger, sock, flush, job,
                   ready, client, parsed, room, wire, reaped>>

\* Mutant: received() does not look at close_when_flushed.
WillCloseOnly == will_close

AboutToClose == will_close \/ close_when_flushed

received ==
    /\ pc[Main] = "received"
    /\ requests_lock = None
    /\ IF AboutToClose
       THEN /\ parsed' = rcvd            \* the data is dropped
            /\ Go(Main, "write")
            /\ UNCHANGED requests_lock
       ELSE /\ requests_lock' = Main
            /\ Go(Main, "parse")
            /\ UNCHANGED parsed
    /\ UNCHANGED <<shared, buffers, stale, outbuf_lock, tasks, trigger, sock,
                   flush, job, ready, client, rcvd, room, wire, reaped>>

\* Mutant: the continue is sent once the body is there.
ContinueAfterBody(r) ==
    r.expect /\ r.completed /\ ~sent_continue /\ requests = <<>>

\* With requests queued, a continue has to wait for their responses.
ContinueDue(r) == r.expect /\ ~sent_continue /\ requests = <<>>

\* request.received(data) consumes a header or a body.
parse ==
    /\ pc[Main] = "parse"
    /\ LET u == Units[parsed + 1]
           id == u[1]
       IN request' = IF u[2] = "body" THEN [request EXCEPT !.completed = TRUE]
                     ELSE [id |-> id, expect |-> script[id].expect,
                           completed |-> ~script[id].body \/ script[id].error]
    /\ parsed' = parsed + 1
    /\ Go(Main, IF ContinueDue(request') THEN "continue" ELSE "queue")
    /\ UNCHANGED <<requests, will_close, close_when_flushed, connected,
                   sent_continue, buffers, stale, locks, tasks, trigger, sock,
                   flush, job, ready, client, rcvd, room, wire, reaped>>

\* Mutant: main adds a task for every request.
MainAlwaysAdds == TRUE

\* The task of a request behind another one is added by service().
MainAddsTask == requests = <<>>

\* A completed request is queued.
queue_request ==
    /\ pc[Main] = "queue"
    /\ IF request.completed
       THEN /\ sent_continue' = FALSE
            /\ request' = NoRequest
            /\ IF script[request.id].empty
               THEN UNCHANGED <<requests, tasks>>
               ELSE /\ requests' = Append(requests, request.id)
                    /\ tasks' = IF MainAddsTask THEN tasks + 1 ELSE tasks
       ELSE UNCHANGED <<sent_continue, request, requests, tasks>>
    /\ IF parsed = rcvd
       THEN Go(Main, "write") /\ requests_lock' = None
       ELSE Go(Main, "parse") /\ UNCHANGED requests_lock
    /\ UNCHANGED <<will_close, close_when_flushed, connected, buffers, stale,
                   outbuf_lock, trigger, sock, flush, job, ready, client, input,
                   room, wire, reaped>>

\* Mutant: a task that a worker has taken is overlooked.
NoQueuedTasks == tasks = 0

NoRunningTasks == requests = <<>>

\* Choose how to flush: unlocked when no request is being serviced, else only
\* if there is enough to send and no worker holds the lock.
handle_write ==
    /\ pc[Main] = "write"
    /\ IF ~ready.w \/ sock = "closed"
       THEN Go(Main, "poll") /\ UNCHANGED <<flush, outbuf_lock>>
       ELSE IF NoRunningTasks
       THEN Go(Main, "top") /\ StartFlush(Main, "unlocked") /\ UNCHANGED outbuf_lock
       ELSE IF total >= SendBytes /\ outbuf_lock = None
       THEN Go(Main, "top") /\ StartFlush(Main, "lockable") /\ outbuf_lock' = Main
       ELSE Go(Main, "after") /\ UNCHANGED <<flush, outbuf_lock>>
    /\ UNCHANGED <<shared, buffers, stale, requests_lock, tasks, trigger, sock,
                   job, ready, client, input, room, wire, reaped>>

\* Mutant: the channel is closed with output left.
CloseUnflushed == close_when_flushed

FlushedForClose == close_when_flushed /\ total = 0

\* The end of handle_write.
after_flush ==
    /\ pc[Main] = "after"
    /\ close_when_flushed' = (close_when_flushed /\ ~FlushedForClose)
    /\ will_close' = (will_close \/ FlushedForClose)
    /\ Go(Main, IF will_close' THEN "close" ELSE "poll")
    /\ UNCHANGED <<requests, request, connected, sent_continue, buffers, stale,
                   locks, tasks, trigger, sock, flush, job, ready, client,
                   input, room, wire, reaped>>

\* An interrupt ends the loop; shutdown() waits for the workers, and cancels
\* the channel if it is still in the dispatcher's queue.
interrupt ==
    /\ "stop" \in Events
    /\ pc[Main] = "blocked"
    /\ Go(Main, "stopping")
    /\ UNCHANGED <<shared, buffers, stale, locks, tasks, trigger, sock, flush,
                   job, ready, client, input, room, wire, reaped>>

shutdown ==
    /\ pc[Main] = "stopping"
    /\ Go(Main, "stopped")
    /\ IF tasks > 0
       THEN /\ tasks' = 0
            /\ will_close' = TRUE /\ connected' = FALSE
            /\ stale' = FALSE
            /\ requests' = <<>>
       ELSE UNCHANGED <<tasks, will_close, connected, stale, requests>>
    /\ UNCHANGED <<request, close_when_flushed, sent_continue, buffers, locks,
                   trigger, sock, flush, job, ready, client, input, room, wire,
                   reaped>>

----------------------------------------------------------------------------
(* A worker: service() of the request at the head of the queue              *)

take_task(w) ==
    /\ pc[w] = "idle"
    /\ tasks > 0 /\ pc[Main] \notin {"stopping", "stopped"}
    /\ tasks' = tasks - 1
    /\ Go(w, "service")
    /\ UNCHANGED <<shared, buffers, stale, locks, trigger, sock, flush, job,
                   ready, client, input, room, wire, reaped>>

\* requests[0] raises if there is none: OneServant says there is.
service_start(w) ==
    /\ pc[w] = "service"
    /\ requests # <<>>
    /\ LET id == Head(requests) IN
           job' = [job EXCEPT ![w] =
                      [id |-> id, k |-> 1, exc |-> FALSE,
                       todo |-> IF connected THEN script[id].writes ELSE <<>>,
                       close |-> script[id].close \/ ~connected]]
    /\ Go(w, IF connected THEN "app" ELSE "finish")
    /\ UNCHANGED <<shared, buffers, stale, locks, tasks, trigger, sock, flush,
                   ready, client, input, room, wire, reaped>>

\* What a task that ends early leaves behind: nothing to write, and a close.
GivesUp(w) == job' = [job EXCEPT ![w].todo = <<>>, ![w].close = TRUE]

\* The application yields a chunk for write_soon, whose first test is for a
\* disconnect, or has come to its end.
app_writes(w) ==
    /\ pc[w] = "app"
    /\ IF job[w].todo # <<>> /\ connected
       THEN Go(w, "write_soon") /\ UNCHANGED job
       ELSE /\ Go(w, "finish")
            /\ IF job[w].todo # <<>> THEN GivesUp(w) ELSE UNCHANGED job
    /\ UNCHANGED <<shared, buffers, stale, locks, tasks, trigger, sock, flush,
                   ready, client, input, room, wire, reaped>>

\* It raises: an ErrorTask takes over if nothing was written.
app_raises(w) ==
    /\ "raise" \in Events
    /\ pc[w] = "app" /\ ~job[w].close
    /\ IF job[w].k = 1
       THEN /\ job' = [job EXCEPT ![w].todo = << [size |-> 1, file |-> FALSE] >>,
                                  ![w].close = TRUE]
            /\ UNCHANGED pc
       ELSE GivesUp(w) /\ Go(w, "finish")
    /\ UNCHANGED <<shared, buffers, stale, locks, tasks, trigger, sock, flush,
                   ready, client, input, room, wire, reaped>>

write_soon(w) ==
    /\ pc[w] = "write_soon"
    /\ outbuf_lock = None /\ outbuf_lock' = w
    /\ IF total > Hwm
       THEN Go(w, "top") /\ StartFlush(w, "hwm")
       ELSE Go(w, "put") /\ UNCHANGED flush
    /\ UNCHANGED <<shared, buffers, stale, requests_lock, tasks, trigger, sock,
                   job, ready, client, input, room, wire, reaped>>

\* Mutant: a file is not followed by a fresh buffer.
AppendOnly(chunk, size, file) ==
    /\ outbufs' = Append(outbufs, [data |-> chunk,
                                   stage |-> IF file THEN "file" ELSE "str"])
    /\ cur' = size

\* The chunk goes into a buffer of its own (a file), into a new buffer (the
\* current one has had its share), or into the last one.
AppendChunk(chunk, size, file) ==
    IF file
    THEN /\ outbufs' = outbufs \o <<[data |-> chunk, stage |-> "file"], NewBuffer>>
         /\ cur' = 0
    ELSE LET bs == IF cur >= Hwm THEN Append(outbufs, NewBuffer) ELSE outbufs
         IN /\ outbufs' = [bs EXCEPT ![Len(bs)] = Appended(@, chunk)]
            /\ cur' = (IF cur >= Hwm THEN 0 ELSE cur) + size

\* Mutant: write_soon looks at `connected` only before the pause.
NoSecondLook == FALSE

\* The second look at `connected`, which may have changed during the pause.
LeftMeanwhile == ~connected

put(w) ==
    /\ pc[w] = "put"
    /\ IF LeftMeanwhile
       THEN /\ GivesUp(w)
            /\ Go(w, "finish") /\ outbuf_lock' = None
            /\ UNCHANGED <<outbufs, cur, total, flush>>
       ELSE LET c == Head(job[w].todo) IN
            /\ AppendChunk(Tokens(job[w].id, job[w].k, c.size), c.size, c.file)
            /\ NewTotal(w, total + c.size)
            /\ job' = [job EXCEPT ![w].todo = Tail(@), ![w].k = @ + c.size]
            /\ IF total' >= SendBytes
               THEN Go(w, "top") /\ StartFlush(w, "write") /\ UNCHANGED outbuf_lock
               ELSE Go(w, "app") /\ outbuf_lock' = None /\ UNCHANGED flush
    /\ UNCHANGED <<shared, popped, stale, requests_lock, tasks, trigger, sock,
                   ready, client, input, room, wire, reaped>>

\* A notified worker takes the lock again; after an exception it does not look
\* at the watermark any more.
wait_returns(w) ==
    /\ pc[w] = "relock"
    /\ outbuf_lock = None
    /\ IF job[w].exc
       THEN /\ BelowHwm(w)
            /\ flush' = [flush EXCEPT ![w] = Idle]
            /\ UNCHANGED trigger
       ELSE TestHwm(w)
    /\ job' = [job EXCEPT ![w].exc = FALSE]
    /\ UNCHANGED <<shared, buffers, stale, requests_lock, tasks, sock, ready,
                   client, input, room, wire, reaped>>

\* The task is done.  The watermark is tested here without the lock.
finish(w) ==
    /\ pc[w] = "finish"
    /\ Go(w, IF job[w].close THEN "close_soon"
             ELSE IF Len(requests) > 1 /\ total > Hwm THEN "flush_fin" ELSE "pop")
    /\ UNCHANGED <<shared, buffers, stale, locks, tasks, trigger, sock, flush,
                   job, ready, client, input, room, wire, reaped>>

flush_before_next(w) ==
    /\ pc[w] = "flush_fin"
    /\ outbuf_lock = None /\ outbuf_lock' = w
    /\ StartFlush(w, "hwm_fin")
    /\ Go(w, "top")
    /\ UNCHANGED <<shared, buffers, stale, requests_lock, tasks, trigger, sock,
                   job, ready, client, input, room, wire, reaped>>

close_soon(w) ==
    /\ pc[w] = "close_soon"
    /\ requests_lock = None /\ requests_lock' = w
    /\ close_when_flushed' = TRUE
    /\ Go(w, "drop")
    /\ UNCHANGED <<requests, request, will_close, connected, sent_continue,
                   buffers, stale, outbuf_lock, tasks, trigger, sock, flush,
                   job, ready, client, input, room, wire, reaped>>

drop_requests(w) ==
    /\ pc[w] = "drop"
    /\ requests' = <<>>
    /\ requests_lock' = None
    /\ Go(w, "last")
    /\ UNCHANGED <<request, will_close, close_when_flushed, connected,
                   sent_continue, buffers, stale, outbuf_lock, tasks, trigger,
                   sock, flush, job, ready, client, input, room, wire, reaped>>

pop_request(w) ==
    /\ pc[w] = "pop"
    /\ requests_lock = None /\ requests_lock' = w
    /\ cur' = IF cur > 0 THEN Hwm ELSE cur
    /\ requests' = Tail(requests)
    /\ Go(w, "next")
    /\ UNCHANGED <<request, will_close, close_when_flushed, connected,
                   sent_continue, total, outbufs, popped, stale, outbuf_lock,
                   tasks, trigger, sock, flush, job, ready, client, input, room,
                   wire, reaped>>

\* Hand the next request on, or send the continue that had to wait.
next_request(w) ==
    /\ pc[w] = "next"
    /\ IF connected /\ requests # <<>>
       THEN tasks' = tasks + 1 /\ Go(w, "last") /\ requests_lock' = None
       ELSE /\ UNCHANGED tasks
            /\ IF connected /\ WantsContinue
               THEN Go(w, "continue") /\ UNCHANGED requests_lock
               ELSE Go(w, "last") /\ requests_lock' = None
    /\ UNCHANGED <<shared, buffers, stale, outbuf_lock, trigger, sock, flush,
                   job, ready, client, input, room, wire, reaped>>

\* Mutant: service() ends without pulling the trigger.
NoPullAtEnd == trigger

WakeMain == trigger \/ connected

service_ends(w) ==
    /\ pc[w] = "last"
    /\ trigger' = WakeMain
    /\ stale' = FALSE
    /\ job' = [job EXCEPT ![w] =
                  [id |-> 0, todo |-> <<>>, k |-> 1, close |-> FALSE, exc |-> FALSE]]
    /\ Go(w, "idle")
    /\ UNCHANGED <<shared, buffers, locks, tasks, sock, flush, ready, client,
                   input, room, wire, reaped>>

----------------------------------------------------------------------------
(* The client, the network and the clock                                    *)

server == <<shared, buffers, locks, tasks, trigger, sock, pc, flush, job, ready,
            input, wire, reaped>>

client_sends ==
    /\ peer = "open" /\ sent < Len(Units)
    /\ sent' = sent + 1
    /\ UNCHANGED <<server, stale, script, peer, room>>

client_reads ==
    /\ peer \in {"open", "shut"} /\ room < SockCap
    /\ room' = SockCap
    /\ UNCHANGED <<server, stale, client>>

\* The client ends its side, resets, or the network fails otherwise.
client_leaves ==
    /\ sock = "open"
    /\ \/ peer = "open" /\ "shut" \in Events /\ peer' = "shut"
       \/ peer \in {"open", "shut"} /\ "reset" \in Events /\ peer' = "reset"
       \/ peer \in {"open", "shut"} /\ "fail" \in Events /\ peer' = "fail"
    /\ UNCHANGED <<server, stale, script, sent, room>>

\* channel_timeout passes without activity.
time_passes ==
    /\ "stale" \in Events /\ ~stale /\ sock = "open"
    /\ stale' = TRUE
    /\ UNCHANGED <<server, client, room>>

----------------------------------------------------------------------------

MainStep ==
    \/ server_readable \/ readable \/ writable \/ enter_select \/ select_returns
    \/ trigger_read \/ handle_read \/ received \/ parse \/ queue_request
    \/ handle_write \/ after_flush \/ shutdown
    \/ send_continue(Main) \/ flush_some(Main) \/ handle_close(Main)
    \/ dispatcher_close(Main)

WorkerStep(w) ==
    \/ take_task(w) \/ service_start(w) \/ app_writes(w) \/ app_raises(w)
    \/ write_soon(w) \/ put(w) \/ wait_returns(w) \/ finish(w)
    \/ flush_before_next(w) \/ close_soon(w) \/ drop_requests(w)
    \/ pop_request(w) \/ next_request(w) \/ service_ends(w)
    \/ send_continue(w) \/ flush_some(w) \/ handle_close(w) \/ dispatcher_close(w)

ClientStep == client_sends \/ client_reads \/ client_leaves \/ time_passes

Next ==
    \/ MainStep \/ select_times_out \/ interrupt
    \/ \E w \in Workers : WorkerStep(w)
    \/ ClientStep

Spec == Init /\ [][Next]_vars

\* Every thread is scheduled, and applications end; select()'s timeout, the
\* interrupt and the client may stay away for ever.
Fairness == WF_vars(MainStep) /\ \A w \in Workers : WF_vars(WorkerStep(w))

FairSpec == Spec /\ Fairness

\* As above, with a client that goes on reading what it is sent.
ReadingSpec == FairSpec /\ WF_vars(client_reads)

----------------------------------------------------------------------------
(* Properties *)

TypeOK ==
    /\ requests \in Seq(DOMAIN script)
    /\ request.id \in 0..Len(script)
    /\ {will_close, close_when_flushed, connected, sent_continue, stale, trigger,
        reaped, request.expect, request.completed} \subseteq BOOLEAN
    /\ total \in Int /\ cur \in Nat /\ popped \in Nat
    /\ \A i \in DOMAIN outbufs : outbufs[i].stage \in {"str", "buf", "file", "shut"}
    /\ outbufs # <<>> /\ Last1(outbufs).stage # "file"
    /\ requests_lock \in Threads \union {None}
    /\ outbuf_lock \in Threads \union {None}
    /\ tasks \in Nat
    /\ parsed =< rcvd /\ rcvd =< sent /\ sent =< Len(Units)
    /\ room \in 0..SockCap

\* A worker has a request in service, from the dispatcher's queue until it has
\* taken the request off `requests`.
InService(w) ==
    /\ pc[w] \notin {"idle", "next", "last", "continue"}
    /\ flush[w].ctx # "continue"

Servants == tasks + Cardinality({w \in Workers : InService(w)})

\* The channel is serviced by one worker at a time, although main and the
\* workers both put it in the dispatcher's queue: a request on a live connection
\* is never stranded without a servant, and a servant always finds its request
\* (service() starts with requests[0] and ends with pop(0)).
OneServant ==
    /\ Servants =< 1
    /\ requests_lock = None /\ requests # <<>> /\ connected => Servants = 1
    /\ Servants = 1 => requests # <<>>

\* What may follow token a on the wire: the rest of its response, or the start
\* of the response to the next request that is not blank.
Responds(id) == ~script[id].empty

FollowsOnWire(a, b) ==
    IF a[2] < ResponseLen(a[1])
    THEN b = <<a[1], a[2] + 1>>
    ELSE /\ a[1] < b[1] /\ b[2] \in {0, 1}
         /\ \A id \in a[1] + 1..b[1] - 1 : ~Responds(id)

\* The client sees the responses whole and in the order of its requests, each
\* with its 100 Continue, if any, directly before it: nothing is sent twice,
\* left out or out of order, whichever threads did the flushing.
ResponsesInOrder ==
    /\ wire # <<>> => wire[1][2] \in {0, 1}
                      /\ \A id \in 1..wire[1][1] - 1 : ~Responds(id)
    /\ \A i \in 1..Len(wire) - 1 : FollowsOnWire(wire[i], wire[i + 1])
    /\ \A i \in DOMAIN wire : wire[i][2] = 0 => script[wire[i][1]].expect

\* total_outbufs_len, which decides about reading, flushing, pausing and closing
\* and is read without the lock, is what the buffers hold (while nobody is between
\* its skip() and its `-=`).
Pending == FlattenSeq([i \in DOMAIN outbufs |-> outbufs[i].data])

Buffered == Len(Pending)

TotalAccurate == connected => total = Buffered

\* The output buffers have one user at a time, although handle_write flushes
\* without outbuf_lock when it sees no request (its comment: "There are no
\* running tasks, so we don't need to try to lock the outbuf before sending").
OneFlusher == Cardinality({t \in Threads : UsingOutbufs(t)}) =< 1

\* The poll loop never passes a closed descriptor to select(), which would end
\* the server (HISTORY.txt, 2.1.2).
LoopSurvives == pc[Main] # "crashed"

\* A worker that pauses at the watermark, or after a failed flush (its comment:
\* "wait for it to decide what to do next"), will be notified: the channel is
\* connected, or main is still on its way to a handle_close.
PausedIsHeard ==
    Waiters # {} =>
        connected \/ pc[Main] \in {"fclose2", "flushed", "after", "close"}

WriteSizes ==      \* an ErrorTask writes 1
    {1} \union UNION {Range(Sizes(script[i].writes)) : i \in DOMAIN script}

AContinue == IF \E i \in DOMAIN script : script[i].expect THEN 1 ELSE 0

\* The watermark bounds the memory held for a slow client: write_soon adds one
\* chunk to at most Hwm units, and a continue adds one unit.
OutputBounded == \E n \in WriteSizes : total =< Hwm + n + AContinue

\* A connection that the client keeps open, and that maintenance or shutdown did
\* not give up on, is closed only when everything in the buffers has been sent
\* and no worker has more to write.
CloseIsClean ==
    [][connected /\ ~connected' /\ peer = "open" /\ ~reaped
           /\ pc[Main] # "stopping"
       => Buffered = 0 /\ \A w \in Workers : job[w].todo = <<>>]_vars

\* After a worker has decided to close and dropped the requests, none is queued
\* any more, however much was already read or is being parsed (the race that the
\* comment in received() is about).
NoRequestAfterClose ==
    [][(will_close \/ close_when_flushed) /\ requests = <<>>
       => requests' = <<>>]_vars

\* Nothing is put into the output buffers of a closed channel (HISTORY.txt,
\* 1.3.0: that would have reopened them).
NoWriteAfterClose == [][~connected => Buffered' =< Buffered]_vars

----------------------------------------------------------------------------

Gives(id, k) == \E i \in DOMAIN wire : wire[i] = <<id, k>>

AnsweredInFull(id) == id \in DOMAIN script /\ Gives(id, ResponseLen(id))

Lost == sock = "closed" \/ peer # "open"

Ids == 1..Max({Len(s) : s \in Scripts})

\* Every queued request is answered to the end, or the connection is closed,
\* without any help from select()'s timeout: the trigger suffices.
RequestsAnswered ==
    \A id \in Ids :
        (id \in Range(requests)) ~> (Lost \/ AnsweredInFull(id))

\* A client that waits for 100 Continue gets it, also if earlier responses were
\* still being produced when its header arrived.
ContinueSent ==
    \A id \in Ids :
        (request.id = id /\ request.expect) ~> (Lost \/ Gives(id, 0) \/ request.id # id)

\* What the client sends is read in the end: main notices that it may read
\* again after the last response is out.
InputRead == (rcvd < sent) ~> (rcvd = sent \/ Lost)

\* A close that was asked for happens.
CloseHappens == (will_close \/ close_when_flushed) ~> (sock = "closed")

\* A client that is gone is noticed: the socket is closed, and no worker stays
\* paused for it.
GoneIsNoticed == (peer \in {"reset", "fail"}) ~> (sock = "closed" /\ Waiters = {})

=============================================================================
