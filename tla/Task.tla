---------------------------------- MODULE Task ----------------------------------
(****************************************************************************)
(* Tasks of waitress/task.py: how a worker turns what a WSGI application    *)
(* does into one response, and what becomes of errors on the way            *)
(* (HTTPChannel.service()).  Data are lengths.  Of the headers there are    *)
(* Content-Length, Transfer-Encoding and Connection, and of a status        *)
(* whether its response has a body.  The application may call               *)
(* start_response() and write() at any time, with any arguments, return any *)
(* iterable and fail anywhere; the client may leave at any time.            *)
(****************************************************************************)
EXTENDS Integers

CONSTANTS
    None,
    Lengths,          \* of chunks, files and Content-Length
    MaxGiven,         \* bound: of the bytes that an application writes
    LogSocketErrors   \* the values of log_socket_errors

ASSUME TaskConstants ==
    /\ Lengths \subseteq Nat /\ 0 \in Lengths
    /\ None \notin Nat
    /\ MaxGiven \in Nat
    /\ LogSocketErrors \subseteq BOOLEAN

VARIABLES
    request,      \* version, Connection header, whether it is a HEAD
    task,         \* the attributes of the Task
    pc,           \* where the worker is in service()
    exc,          \* the exception on its way up
    app_iter,     \* "none", "one" (its len() is 1), "many", "file"
    chunks,       \* how many it has yielded
    connected,    \* of the channel
    wire,         \* what write_soon() was given
    app           \* history: what the application gave, mixed, and released

vars == <<request, task, pc, exc, app_iter, chunks, connected, wire, app>>

Requests ==
    [version : {"1.0", "1.1"}, connection : {"close", "keep-alive", "none"},
     head : BOOLEAN, error : BOOLEAN]

\* Task.__init__; ErrorTask.complete is TRUE.
NewTask(complete) ==
    [complete |-> complete, has_body |-> TRUE, header |-> None, says_close |-> FALSE,
     content_length |-> None, content_bytes_written |-> 0, wrote_header |-> FALSE,
     chunked_response |-> FALSE, close_on_finish |-> FALSE]

EmptyWire ==
    [heads |-> 0, cl |-> None, chunked |-> FALSE, close |-> FALSE, keep |-> FALSE,
     body |-> 0, end |-> FALSE]

set_close_on_finish(t) ==
    [t EXCEPT !.says_close = @ \/ ~t.wrote_header, !.close_on_finish = TRUE]

Init ==
    /\ request \in Requests
    /\ task = set_close_on_finish(NewTask(FALSE))
    /\ pc = "served" /\ exc = "none" /\ app_iter = "none" /\ chunks = 0
    /\ connected = FALSE
    /\ wire = EmptyWire
    /\ app = [given |-> 0, mixed |-> FALSE, ended |-> FALSE, released |-> 0]

\* The application is running: called, or asked for a chunk.
Running == pc \in {"app", "iterate"}

----------------------------------------------------------------------------
(* Operations of Task, on the task and the wire *)

ContentLengthHeader(t) ==
    CASE ~t.has_body -> None
      [] t.has_body /\ t.header # None -> t.header
      [] OTHER -> t.content_length

\* The connection cannot stay open after this response, or must not.
Closing(t) ==
    \/ request.version = "1.0" /\ request.connection # "keep-alive"
    \/ request.version = "1.1" /\ request.connection = "close"
    \/ ContentLengthHeader(t) = None

build_response_header(t) ==
    LET chunked == /\ request.version = "1.1" /\ t.has_body
                   /\ ContentLengthHeader(t) = None
        closing == IF Closing(t) THEN set_close_on_finish(t) ELSE t
    IN  [closing EXCEPT !.header = ContentLengthHeader(t), !.chunked_response = chunked]

\* The head of the response of t, after build_response_header(t).
HeadOf(t) ==
    [wire EXCEPT !.heads = @ + 1, !.cl = t.header, !.chunked = t.chunked_response,
                 !.close = t.says_close,
                 !.keep = request.version = "1.0" /\ ~Closing(t)]

\* write() by t: the task and the wire when the head is sent, if it was not ...
WithHead(t) ==
    IF t.wrote_header THEN [t |-> t, w |-> wire]
    ELSE LET built == build_response_header(t)
         IN  [t |-> [built EXCEPT !.wrote_header = TRUE], w |-> HeadOf(built)]

\* ... whether its body ends at the Content-Length ...
Limited(t) == t.has_body /\ ~t.chunked_response /\ t.content_length # None

Smaller(m, n) == IF m <= n THEN m ELSE n

\* ... how much of n bytes is sent ...
ToWrite(t, n) ==
    CASE n = 0 \/ ~t.has_body -> 0
      [] n > 0 /\ Limited(t) -> Smaller(n, t.content_length - t.content_bytes_written)
      [] OTHER -> n

\* ... and what is counted as written.
Counted(t, n) ==
    CASE ~t.has_body -> n
      [] Limited(t) -> ToWrite(t, n)
      [] OTHER -> 0

\* Mutant: can_close_app_iter is set before the file is handed over.
CanCloseTooShort == pc \in {"iterate", "file"}

\* can_close_app_iter: the iterable exists, and the channel does not have it.
CanClose == pc \in {"iterate", "file", "send_file"}

\* An exception: the iterable is closed on the way up.
Raise(e) ==
    /\ exc' = e
    /\ pc' = IF CanClose THEN "close" ELSE "failed"

\* Task t writes n bytes.  write_soon() raises when the client has left, before
\* the head or after it; without anything to send, it is not called.
Write(t, n, next) ==
    LET h == WithHead(t)
        sent == ToWrite(h.t, n)
    IN  \/ /\ t.complete
           /\ connected \/ (t.wrote_header /\ sent = 0)
           /\ task' = [h.t EXCEPT !.content_bytes_written = @ + Counted(h.t, n)]
           /\ wire' = [h.w EXCEPT !.body = @ + sent]
           /\ app' = [app EXCEPT !.given = @ + n]
           /\ pc' = next
           /\ UNCHANGED <<exc, connected>>
        \/ /\ t.complete
           /\ connected /\ ~t.wrote_header /\ sent > 0
           /\ task' = h.t /\ wire' = h.w /\ connected' = FALSE
           /\ Raise("ClientDisconnected")
           /\ UNCHANGED app
        \/ /\ ~t.complete \/ (~connected /\ (~t.wrote_header \/ sent > 0))
           /\ Raise(IF t.complete THEN "ClientDisconnected" ELSE "RuntimeError")
           /\ task' = t
           /\ UNCHANGED <<wire, connected, app>>

----------------------------------------------------------------------------
(* The channel starts a task *)

\* The client may have left before its request is served.
service(req, still_connected) ==
    /\ pc = "served"
    /\ request' = req
    /\ IF still_connected
       THEN /\ task' = NewTask(req.error)
            /\ pc' = IF req.error THEN "error" ELSE "app"
       ELSE /\ task' = [NewTask(req.error) EXCEPT !.close_on_finish = TRUE]
            /\ pc' = "served"
    /\ exc' = "none" /\ app_iter' = "none" /\ chunks' = 0
    /\ connected' = still_connected
    /\ wire' = EmptyWire
    /\ app' = [given |-> 0, mixed |-> FALSE, ended |-> FALSE, released |-> 0]

client_leaves ==
    /\ connected
    /\ pc # "served"
    /\ connected' = FALSE
    /\ UNCHANGED <<request, task, pc, exc, app_iter, chunks, wire, app>>

----------------------------------------------------------------------------
(* The application *)

\* It raises without exc_info when it was called before, and with exc_info when
\* the headers are out; the application may let the exception go up, or not.
Refused(exc_info) == IF exc_info THEN task.wrote_header ELSE task.complete

\* Headers of an earlier call are cleared; its Content-Length stays known.
Cleared(exc_info) == IF exc_info THEN None ELSE task.header

\* cl: of the Content-Length header, if any.  A call that is not ok has a
\* hop-by-hop header after it.
start_response(cl, has_body, exc_info, ok) ==
    /\ Running
    /\ ~Refused(exc_info)
    /\ task' = [task EXCEPT
          !.complete = TRUE,
          !.has_body = has_body,
          !.content_length = IF cl # None THEN cl ELSE @,
          !.header = IF ok /\ cl # None THEN cl ELSE Cleared(exc_info)]
    /\ UNCHANGED <<request, pc, exc, app_iter, chunks, connected, wire, app>>

\* The callable that start_response() returned.
write(n) ==
    /\ Running
    /\ task.complete
    /\ app.given + n <= MaxGiven
    /\ Write(task, n, pc)
    /\ UNCHANGED <<request, app_iter, chunks>>

app_raises(e) ==
    /\ Running
    /\ Raise(e)
    /\ UNCHANGED <<request, task, app_iter, chunks, connected, wire, app>>

app_returns(kind) ==
    /\ pc = "app"
    /\ app_iter' = kind
    /\ pc' = "iterate"
    /\ UNCHANGED <<request, task, exc, chunks, connected, wire, app>>

----------------------------------------------------------------------------
(* A file wrapper *)

\* Mutant: the application's Content-Length is sent for a smaller file.
HeaderKept(cl, size) == task.header

\* remove_content_length_header(), when the file is smaller.
HeaderFor(cl, size) == IF cl # size THEN None ELSE task.header

\* prepare() found size bytes, at most content_length.
app_returns_file(size) ==
    LET cl == task.content_length
    IN  /\ pc = "app"
        /\ size > 0
        /\ cl # None => size <= cl
        /\ task' = [task EXCEPT !.header = HeaderFor(cl, size), !.content_length = size]
        /\ app_iter' = "file"
        /\ app' = [app EXCEPT !.mixed = task.wrote_header]
        /\ pc' = "file"
        /\ UNCHANGED <<request, exc, chunks, connected, wire>>

write_file_head ==
    /\ pc = "file"
    /\ Write(task, 0, "send_file")
    /\ UNCHANGED <<request, app_iter, chunks>>

\* write_soon(app_iter): the channel will close the file.
write_file ==
    /\ pc = "send_file"
    /\ \/ /\ connected
          /\ wire' = [wire EXCEPT !.body = @ + task.content_length]
          /\ app' = [app EXCEPT !.given = @ + task.content_length,
                                !.ended = TRUE, !.released = @ + 1]
          /\ pc' = "finish"
          /\ UNCHANGED exc
       \/ /\ ~connected
          /\ Raise("ClientDisconnected")
          /\ UNCHANGED <<wire, app>>
    /\ UNCHANGED <<request, task, app_iter, chunks, connected>>

----------------------------------------------------------------------------
(* Any other iterable *)

\* The first chunk of an iterable of length 1 tells its length.
KnownLength(n) ==
    IF chunks = 0 /\ app_iter = "one" /\ task.content_length = None THEN n
    ELSE task.content_length

\* A chunk; an empty one is not written.
chunk(n) ==
    LET t == [task EXCEPT !.content_length = KnownLength(n)]
    IN  /\ pc = "iterate"
        /\ app_iter = "one" => chunks = 0
        /\ app.given + n <= MaxGiven
        /\ chunks' = 1
        /\ IF n > 0 THEN Write(t, n, pc)
           ELSE task' = t /\ UNCHANGED <<wire, app, pc, exc, connected>>
        /\ UNCHANGED <<request, app_iter>>

\* Fewer bytes than the Content-Length says.
TooFew ==
    /\ task.content_length # None
    /\ task.content_bytes_written # task.content_length
    /\ ~request.head

exhausted ==
    /\ pc = "iterate"
    /\ app_iter = "one" => chunks = 1
    /\ task' = IF TooFew THEN set_close_on_finish(task) ELSE task
    /\ app' = [app EXCEPT !.ended = TRUE]
    /\ pc' = "close"
    /\ UNCHANGED <<request, exc, app_iter, chunks, connected, wire>>

\* app_iter.close() in the finally clause, which may raise.
close_app_iter(e) ==
    /\ pc = "close"
    /\ app' = [app EXCEPT !.released = @ + 1]
    /\ exc' = IF e = "none" THEN exc ELSE e
    /\ pc' = IF exc' = "none" THEN "finish" ELSE "failed"
    /\ UNCHANGED <<request, task, app_iter, chunks, connected, wire>>

----------------------------------------------------------------------------
(* The end of a task *)

finish_head ==
    /\ pc = "finish"
    /\ ~task.wrote_header
    /\ Write(task, 0, "finish")
    /\ UNCHANGED <<request, app_iter, chunks>>

\* The last chunk.
finish ==
    /\ pc = "finish"
    /\ task.wrote_header
    /\ IF task.chunked_response /\ ~connected
       THEN Raise("ClientDisconnected") /\ UNCHANGED wire
       ELSE /\ wire' = [wire EXCEPT !.end = task.chunked_response]
            /\ pc' = "served"
            /\ UNCHANGED exc
    /\ UNCHANGED <<request, task, app_iter, chunks, connected, app>>

\* ErrorTask.execute(): a body of one byte.
execute_error ==
    /\ pc = "error"
    /\ Write([set_close_on_finish(task) EXCEPT !.content_length = 1], 1, "finish")
    /\ UNCHANGED <<request, app_iter, chunks>>

\* Mutant: an error response is sent whatever was sent before.
AlwaysErrorTask == TRUE

\* An error response can be sent instead of the application's.
NeedsErrorTask == ~task.wrote_header

\* Task.service() and HTTPChannel.service() handle the exception.
handle_exception ==
    /\ pc = "failed"
    /\ exc' = "none"
    /\ \/ /\ exc # "ClientDisconnected" /\ NeedsErrorTask
          /\ exc = "OSError" => TRUE \in LogSocketErrors
          /\ task' = NewTask(TRUE)
          /\ pc' = "error"
       \/ /\ \/ exc = "ClientDisconnected" \/ ~NeedsErrorTask
             \/ exc = "OSError" /\ FALSE \in LogSocketErrors
          /\ task' = [task EXCEPT !.close_on_finish = TRUE]
          /\ pc' = "served"
    /\ UNCHANGED <<request, app_iter, chunks, connected, wire, app>>

----------------------------------------------------------------------------
Application ==
    \/ \E cl \in Lengths \union {None}, has_body, exc_info, ok \in BOOLEAN :
          start_response(cl, has_body, exc_info, ok)
    \/ \E n \in Lengths : write(n) \/ app_returns_file(n) \/ chunk(n)
    \/ \E e \in {"OSError", "Exception"} : app_raises(e)
    \/ \E kind \in {"one", "many"} : app_returns(kind)
    \/ exhausted
    \/ \E e \in {"none", "OSError", "Exception"} : close_app_iter(e)

Next ==
    \/ \E req \in Requests, still_connected \in BOOLEAN : service(req, still_connected)
    \/ client_leaves
    \/ Application
    \/ write_file_head \/ write_file
    \/ finish_head \/ finish \/ execute_error \/ handle_exception

Spec == Init /\ [][Next]_vars

----------------------------------------------------------------------------
\* When the connection stays open, the client finds the end of the response
\* where the next one begins, and knows that it stays open: it was told a
\* Content-Length, the body has that length, and nothing said "close".  Two kinds
\* of applications are excluded: those that answer HEAD with a body, and those
\* that write() before they return a file wrapper (task.py:224-254, 308-346,
\* 442-490).
KeptOpenInStep ==
    pc = "served" /\ ~task.close_on_finish /\ ~app.mixed
        /\ (request.head => app.given = 0) =>
        /\ wire.heads = 1 /\ wire.cl # None
        /\ ~wire.chunked /\ ~wire.close
        /\ wire.keep <=> request.version = "1.0"
        /\ wire.body = IF request.head THEN 0 ELSE wire.cl

\* The client gets one head, before anything else, even if an error response
\* takes the application's place; and it is told that a chunked body is complete
\* only when all that the application gave was sent and nothing failed
\* (task.py:301-306; channel.py:430-463).
OneWholeResponse ==
    /\ wire.heads <= 1
    /\ wire.body > 0 \/ wire.end => wire.heads = 1
    /\ wire.end => app.ended /\ (app.mixed \/ wire.body = app.given)

\* What the application returned is closed by the task or handed over to the
\* channel, which closes it: never neither, never both (task.py:440-457, 492-494).
ReleasedOnce ==
    /\ app.released <= 1
    /\ pc = "served" /\ app_iter # "none" => app.released = 1

=============================================================================
