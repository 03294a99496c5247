# waitress in TLA+

TLA+ models of [waitress](../src/README.rst), a WSGI server for Python, checked
with TLC. All safety properties, of the dispatcher, the channel, the buffers, the
server, the tasks and the parser, are proved with TLAPS as well, some of those of
the channel and one of the parser under hypotheses that section 4 names.
Line numbers refer to `src/src/waitress/`. `PROJECT.json` lists the runs, the
mutants that show each property to be sensitive to a change of the code, the code
lines that each definition stands for, the hazards and the findings.

    tlc -config TaskDispatcher.cfg MCTaskDispatcher.tla      # and so on
    tlapm TaskDispatcherProofs.tla     # and the other *Proofs.tla

## 1. The system

One **main thread** runs a `select()` loop over the listening sockets, the client
connections ("channels") and a self-pipe ("trigger"). It accepts, reads, parses,
and sends what it can. A pool of **worker threads** runs the WSGI application for
one channel at a time and writes the response into the channel's output buffers.

| component | state | operations | talks to |
|---|---|---|---|
| Task dispatcher (`task.py` 42-138) | thread numbers, queue, `stop_count`, `active_count`, one lock with two conditions | `add_task`, `handler_thread`, `set_thread_count`, `shutdown` | channels, through `task.service()` and `cancel()` |
| HTTP channel (`channel.py`) | `requests`, the request being received, output buffers and their counts, close flags, `requests_lock`, `outbuf_lock` | main: `readable`, `writable`, `handle_read`, `received`, `handle_write`, `handle_close`, `cancel`; worker: `service`, `write_soon` | parser, buffers, dispatcher (`add_task`), trigger (`pull_trigger`) |
| Poll loop, dispatcher base (`wasyncore.py`) | the socket map | `poll`, `read`, `write`, `send`, `recv`, `close` | calls the handlers of everything in the map |
| Trigger (`trigger.py`) | a pipe | `pull_trigger`, `handle_read` | workers to main |
| Server (`server.py`) | listening socket, active channels, `in_connection_overflow`, next cleanup time | `readable`, `handle_accept`, `maintenance`, `run`, `close` | makes channels, sets `will_close` on idle ones |
| Request parser (`parser.py`, `rfc7230.py`) | what is left of the header, counts, flags, body receiver | `received`, `parse_header` | body receivers; is fed by the channel |
| Body receivers (`receiver.py`) | remaining length, or the state of the chunked decoding | `received` | buffers |
| Buffers (`buffers.py`) | a file with a read position and a remainder; str, BytesIO or temporary file | `append`, `get`, `skip`, `prune`, `close` | used by channel and receivers |
| Tasks (`task.py` 141-561) | status, headers, `content_length`, `close_on_finish`, what has been written | `service`, `execute`, `build_response_header`, `write`, `finish` | `channel.write_soon` |
| Proxy headers (`proxy_headers.py`) | none | one function of the environ | wraps the application |
| Adjustments, utilities, runner, compat | options | string conversion | everything |

What is hard about it:

* **Two threads on one channel.** `requests` is guarded by one lock and the
  buffers by another, but the flags and `total_outbufs_len` are read without
  either by `readable()`, `writable()` and `handle_write()`; `handle_write`
  flushes with no lock at all when it believes that no worker is active.
* **Wakeups.** `select()` computes its sets before it blocks; what a worker
  changes later counts only after a pull of the trigger. A worker that pauses at
  `outbuf_high_watermark` waits for a `notify()` that only main gives.
* **Closing.** The main thread must close the socket, not a worker; it must do so
  when everything is sent, and a reset, a half-close, the maintenance or the
  shutdown may come at any moment.
* **Pipelining with 100 Continue.** The continue must come between responses, so
  sometimes main sends it and sometimes the worker that finishes the last one.
* **Changing the pool** while stops are pending, tasks are queued and threads
  sleep; the accounting (`stop_count`, `active_count`) is spread over the threads.
* **Segmentation.** Parser and receivers keep what is unfinished at the end of
  each segment, each in its own way, and report how much they consumed.

What makes each component correct: the *dispatcher* starts every task once, in
order, loses no wakeup, and reaches the size it was told; the *channel* answers
each request once and in order, has one worker, accounts exactly for its buffers,
never leaves a worker or a client waiting for something that will not come, and
closes cleanly; the *parser* gives the same requests however the stream is cut;
the *server* keeps within its limits and goes back to accepting; the *buffers*
are FIFOs, whatever they overflow into; a *task* frames its response so that the
client finds its end.

## 2. The modules

| module | what it is |
|---|---|
| `WorkQueue` | abstract specification: tasks are new, queued, started in order, then done, or cancelled |
| `TaskDispatcher` | `ThreadedTaskDispatcher`, one action per critical section |
| `TaskDispatcherProofs` | the theorems about it |
| `Channel` | `HTTPChannel` with what it meets of the poll loop, the trigger, the server and the buffers |
| `ChannelProofs` | the theorems about who serves the channel, what it queues, who uses its output buffers, `select()`, and types |
| `ChannelOutputProofs` | the theorems about what the buffers hold, pauses, closing and the watermark |
| `ChannelOrderProofs` | the theorem about what the client is sent, and in which order |
| `Framing` | which requests a stream of bytes holds, seen as a whole: the reference |
| `RequestParser` | the incremental parser, its receivers and the loop of `HTTPChannel.received` |
| `RequestParserProofs` | the theorems about its progress and about what it gets out of a stream |
| `ByteQueue` | abstract specification: bytes come out once, in the order in which they went in |
| `Buffers` | `OverflowableBuffer` and `ReadOnlyFileBasedBuffer`, on a file with a position |
| `BuffersProofs` | the theorems about them |
| `Server` | the listeners, the socket map they share with the channels, maintenance |
| `ServerProofs` | the theorems about it |
| `Task` | `Task`, `WSGITask`, `ErrorTask`, and `HTTPChannel.service` around them |
| `TaskProofs` | the theorems about it |
| `MCTaskDispatcher`, `MCChannel`, `MCRequestParser`, `MCBuffers`, `MCServer`, `MCTask` | values for TLC |

The modules overlap where the components meet: what `Channel` takes for granted of
a buffer, of the server and of a task (a FIFO with a stage; a maintenance that may
close a quiet channel; a sequence of writes, perhaps an error, perhaps a close) is
what `Buffers`, `Server` and `Task` show in detail, each with what it needs of a
channel reduced to a few variables.

### TaskDispatcher

Its variables are the attributes of the class, `pc` and `task` for the handler
threads, and `wanted`, `done`, `cancelled`, `phase`, `expired` as history. `lock`
is held over each critical section, so that a section is one step. A thread is
`ready` (about to look at the queue), in `wait`, `woken` (notified, not yet
holding the lock), in `serve` (outside of the lock) or `off`. `active_count` is
changed on both sides of the wait, as in the code. A `notify()` picks any waiter;
`notify_all()` wakes all. `set_thread_count` takes free thread numbers and may be
called at any moment of the run; `shutdown` is that with 0, followed by a wait
that ends when the pool is empty *or* the timeout has passed, and then by
cancelling what is queued. `service()` may add its own channel again (pipelined
requests). Left out: `shutdown(cancel_pending=False)`, which nothing in the source
calls, and the queue-depth warning, whose figure is `ActiveCountAccurate`.

### Channel

The threads are main and the workers. The code is cut wherever another thread may
act and the difference can be seen: at lock operations, between reads and writes
of what is shared without a lock, at socket calls, and in `_flush_some` between
`get`, `send` and `skip`. `pc[t]` names the place, `flush[t]` and `job[w]` hold
the locals. `_flush_some` is one set of actions for all five callers; its `ctx`
says where it returns.

`skip()` and `total_outbufs_len -= num_sent` (277-280) are one step where nobody else
uses the buffers: until somebody does, a thread that reads the total between the two
could have read it before `skip()`. Where another thread is in the buffers, or about
to append a continue without being kept out by `outbuf_lock` (`Racing`), they are two
steps, `flush_skip` and `flush_deduct`, and an update of the total, which is a read
and a write, may be lost when another one lies across it (`Overwritten`). The `+=` of
`write_soon` is under `outbuf_lock` and never meets the unlocked flush, which needs an
empty `requests`.

Data are abstract. The client's input is a script of requests; `Units` are the
pieces in which it arrives (header, body), and any of them may be read together.
A response is a sequence of tokens `<<request, k>>`, with `k = 0` for its 100
Continue. A buffer is its unsent tokens and the stage of `OverflowableBuffer`:
`str` (survives `close()`), `buf`, `file` (never appended to) or `shut`. The
kernel takes `SockCap` tokens until the client reads. `select()` blocks with the
sets that `readable()` and `writable()` computed before, and its one second
timeout is an action of its own *without* fairness, so that no liveness property
can rest on it. The environment may half-close, reset, fail with another error,
let the application raise, let the channel grow old for the maintenance, and
interrupt the server; each run says which of them it has.

Bounds and exclusions: `WatermarkUsable` (`SendBytes <= Hwm`: with a larger
`send_bytes` a worker pauses at a watermark at which main sees too little to
send; the defaults satisfy it and nothing checks it) and `ScriptsShape` (a request
that expects a continue has a body; see the finding `lost_request`). `ScriptsShape`
also says what a script is: requests with flags, and a sequence of writes of a
positive size each; `LimitsTyped` says that the limits are natural numbers.

### Framing and RequestParser

A stream is a sequence of tokens: a start line, the header fields that decide
about the body, digits, another letter, `;`, CR and LF. `Frames[s]` looks at a
whole stream and says which requests it holds, up to the first that is rejected;
`Chunked[s]` does the same for a chunked body. Both are recursive functions.
`RequestParser` gets the same stream in segments of any size and does what
`HTTPRequestParser.received` does: `header_plus`, `header_bytes_received`,
`body_bytes_received`, the limits, `FixedStreamReceiver` and the loop of
`ChunkedReceiver.received` round by round with `chunk_end`, `control_line` and
`trailer`, the numbers of bytes that each returns, and around them the loop of
`HTTPChannel.received` with the continue that main, or later a worker, sends.
The syntax of tokens that both sides need (is this a control line, what does this
header say) is defined once, in `Framing`, from the regular expressions,
including that `$` matches before a final LF.

The streams of the run have no request that expects a continue and either has no
body or is rejected for its Content-Length: `send_continue` takes the `completed`
flag back from both (the finding `lost_request`), and the second one is answered
only after its body, so that `FramingExact` would not hold. The actions include
both, and so do the theorems, but for the one about `FramingExact`.

`parse_header` sets `connection_close` for a Transfer-Encoding that comes with a
Content-Length, and its comment (`parser.py` 328-329) says that the connection needs
to be closed then. Nothing reads the attribute: the task decides from the Connection
header and from `close_on_finish`. The module leaves it out, and no run is about it.

The length of a token is 1, so limits are numbers of tokens. Other header fields,
URIs, obsolete line folding, quoted extension values, `Transfer-Encoding` with
other codings and HTTP/1.0 are not told apart.

### ByteQueue and Buffers

`buf` holds the attributes of one buffer and of its file: `strbuf`, the bytes of
the file, its position, the separately counted `remain`, `overflowed`. Each method
is an action, and each helper (`_create_buffer`, `_set_large_buffer`, the copying
constructor, `append`, `get`, `skip`, `prune` of `FileBasedBuffer`) is a function
from the attributes before to those after. `call` remembers the last call with its
arguments, its answer and whether it raised, so that the refinement is about
answers and not only about states. After `getfile()` the application reads the
file behind the buffer's back (`app_reads`), which is how `wsgi.input` works.

Two things the module does not do, and the code could: `prune()` of a buffer with
unread bytes leaves the new file positioned at its end, so that the bytes are
lost to `get()`; the docstring (`buffers.py` 299-302) promises the opposite, but
nothing in `src/` calls `prune` at all, and `PruneRead` is restricted to buffers
that were read to the end. And `prepare()` after the first `get()`, which the only
caller excludes. Note also that a `BytesIO` keeps the bytes that were read:
`inbuf_overflow` and `outbuf_overflow` bound what is pending in memory
(`PendingInMemoryBounded`), not what a `BytesIO` occupies.

### Server

Here main is the only thread that changes the maps (the close by a worker that
finding 2 describes is in `Channel` and left out), so an action is one callback of a
round of `poll()`: `poll_lists` (every `readable()` and `writable()`, with
`maintenance()` where it is due), `select_returns`, then one handler for each object
of the lists, listeners first, as the order of the map makes it. Channels are
reduced to what the map and maintenance see: a request that is sent, queued, popped
and done (`work`), the pieces of output, a full send buffer, `will_close`, and
`last_activity` as an age. A descriptor is any free one of `fds`, those that the
process may open, and is used again in later rounds; not in the round in which it
was closed, because a round accepts before it reads and writes. `accept()` has three
outcomes: a channel; a client that is given up (`accept_refuses`: it was aborted in
the backlog, or the socket takes no options); or nothing, and the client waits for
the next round (`accept_fails`: EAGAIN, or no descriptor or memory left). `quiet` is
history: how long ago data really was received or sent. Several listeners are those
of a `MultiSocketServer`; `interrupt_all` is its `close()`, `interrupt` the end of
`BaseWSGIServer.run`, which leaves its sockets as they are.

Left out: the exceptional list of `select()`, `poll2` (the same loop over another
system call), the `listen()` backlog (unbounded here), the triggers except for
their places in the map, and the descriptors that listeners, triggers and
temporary files take.

### Task

One worker serves one request after another; `wire` is what `write_soon` was
given for this response: how many heads, the framing headers in the head, the
number of body bytes, the last chunk. The application is as free as WSGI lets it
be: it calls `start_response` any number of times, with and without `exc_info` and
Content-Length, with a status that has no body, with headers that make it fail half
way; it calls `write`, returns an iterable whose `len()` is 1 or not, or a file
wrapper, yields chunks, and raises, also from `close()`; the client may leave at any
moment. `pc` is where `service` stands; an exception goes to `close` (the `finally`
clause) if the iterable is the task's to close, then to `failed`, where `Task.service`
and `HTTPChannel.service` decide about an error response. `write_soon` may raise
between head and body, and `Write` has those outcomes. Lengths are the data;
`content_length`, `content_bytes_written` and the Content-Length header are three
different things, as in the code. An application that catches what `write()`
raises and goes on is not modelled.

What the two exclusions of `KeptOpenInStep` hide, and TLC finds without them:
an application that answers HEAD with a body gets that body sent, and one that calls
`write()` before it returns a file wrapper has the file sent after it whatever
`content_bytes_written` says (`task.py` 442-457); both leave the connection open
with the client out of step. Other things seen while modelling, none of which
contradicts a text of the repository: a Content-Length stays in `content_length`
when `start_response` is called again with `exc_info` and without one, so that
the error page is announced with, and cut to, the length of the page that it
replaces; an `OSError` of the application ends the
connection without a response when `log_socket_errors` is off; an error response
to an HTTP/1.0 request with keep-alive has both `Connection: close` and
`Connection: Keep-Alive`, and the connection is closed; the body of a file wrapper
is sent for a 204 or 304 too, before the connection is closed.

## 3. The runs

| run | bounds | what it shows |
|---|---|---|
| `dispatcher` | 4 thread numbers, 3 tasks, sizes 0..2 | all invariants, that it implements `WorkQueue`, and that it makes progress. Four numbers and a size of 2 let two threads start while two stops are pending; three tasks and two threads let a wakeup be lost if it could be. |
| `channel_faults` | 2 workers, scripts of 2 to 4 requests, lookahead 1, every event | safety of the channel. The scripts contain a pause at the watermark, a continue sent by main, a file, a blank line, a bad request and closes with requests behind them; a socket that takes two tokens makes partial sends. |
| `channel_race` | 2 workers, a continue sent by a worker | that the channel still has one servant where the flushes race, and updates of the total are lost. 766,408 states. |
| `channel_live` | 1 worker, 3 scripts, lookahead 0, a client that reads or leaves | requests are answered, continues sent, input read, closes happen, a client that left is noticed, and no worker is left waiting. A second worker never has anything to do when the channel has one servant (`OneServant`, checked with two). |
| `request_parser` | 9 well-formed streams of up to 32 tokens and 313 others, with one token lost or replaced in one of three; segments of every size | `FramingExact` and that no loop spins. The limits, 14 tokens for a header and 18 for a body, lie such that both sides of them occur: a body with a chunk extension and a trailer, and a request with both Transfer-Encoding and Content-Length, are accepted. 1,306,666 states. |
| `buffers` | files of up to 6 bytes, `STRBUF_LIMIT` 3, overflows 0, 2, 3 and 4, counts -1..3 | every stage and every conversion, with partial reads on both sides of it. The overflows lie below, at and above `STRBUF_LIMIT`, which decides whether a BytesIO stage exists. 53,549 states. |
| `server` | 2 clients; one listener with limit 3 or two with limit 5, and 2 descriptors; one with limit 4 and 1 descriptor; timeout 0, interval 1, answers of 1 or 2 pieces | the limit with listeners that compete for the last place, the tables while descriptors are used again, maintenance, and that whoever waits is accepted. Each setup leaves one place, for want of the limit or of a descriptor, so that the second client has to wait for the first to be reaped. 313,852 states, no symmetry because of the liveness property. |
| `task` | lengths 0..2, applications that give up to 3 bytes | responses that are too short, exact and too long, in one, two or three writes, for every version, Connection header and method. 60,279 states. |

The four other runs end in a counterexample, each of one property, see Findings.

The properties in short; their comments in the modules say more.

* `TaskDispatcher`: `ActiveCountAccurate`, `CountHonoured` (the pool minus its
  pending stops is what was asked for), `NoLostWakeup` (while a thread sleeps,
  each queued task has an awake thread of its own), `StopsAreSeen`,
  `ShutdownDrains`, `ImplementsWorkQueue`, `EveryTaskResolved`, `PoolConverges`.
* `Channel`, safety: `OneServant`, `ResponsesInOrder` (on the wire),
  `TotalAccurate`, `OneFlusher`, `LoopSurvives`, `PausedIsHeard`, `OutputBounded`;
  steps: `CloseIsClean`, `NoRequestAfterClose`, `NoWriteAfterClose`; liveness:
  `RequestsAnswered`, `ContinueSent`, `InputRead`, `CloseHappens`, `GoneIsNoticed`.
* `RequestParser`: `FramingExact`, `ConsumptionInRange`, `RoundsBounded`.
* `Buffers`: `Consistent` (what is counted agrees with the position of the file,
  so `len()` is what `get()` can still return), `PendingInMemoryBounded`,
  `ImplementsByteQueue`.
* `Server`: `ConnectionsBounded` (each listener looks at the limit once per round,
  so n of them may overshoot it by n - 1), `MapsAgree`, `QuietIsReaped` (whatever
  `last_activity` says, maintenance chooses only channels that were quiet for
  longer than `channel_timeout`), `WaitingIsAccepted`.
* `Task`: `KeptOpenInStep` (when the connection stays open, the client finds the
  end of the response), `OneWholeResponse`, `ReleasedOnce`.

### Fairness

Workers are fair: the interpreter schedules every thread, and
`docs/design.rst` says of an application that "it will eventually complete".
Main is fair in all its steps except the timeout of `select()`, and the interrupt
is no step of main but of the environment. `shutdown()` is fair because it has a
timeout. Clients owe nothing, except in `ReadingSpec`, in which a client that is
still there reads what it is sent. Without it a worker that is paused at the
watermark stays paused for as long as the client neither reads nor leaves:
`maintenance()` skips channels that have requests, although `docs/design.rst`
says that "worker threads will never be hung up trying to send data to a slow
client". `RequestParser` needs no fairness: `RoundsBounded` counts the rounds of
the inner loop, and `ConsumptionInRange` makes the outer one shorter each time.

In `Server` main and the workers are fair, `accept()` is strongly fair in taking a
client out of the backlog (`AcceptTakes`: a server that tries again and again with a
descriptor free does not get EAGAIN or ENOMEM each time; without a free one it may
fail for ever, and then it is up to maintenance to free one), time passes, and a
client whose kernel buffer is full reads it; whether it sends anything or leaves is
open. Without the reading `WaitingIsAccepted` fails: maintenance sets `will_close`,
but the channel acts on it only in `handle_write`, and `select()` does not call that
while the send buffer is full. The property also asks for a limit above twice the
number of listeners, and for a process that may open a descriptor at all:
`connection_limit` is compared with the length of the whole map, in which each
listener and its trigger are counted, and below that nobody is ever accepted.
`Buffers` and `Task` have no liveness properties.

`CHECK_DEADLOCK FALSE` stands in the runs of `Channel` only: after a close, or
with a client that is silent, nothing need happen. In the other modules an
explicit final action marks the states in which the system may stop.

## 4. The proofs

`TaskDispatcherProofs`, for any finite set of thread numbers, any set of tasks and
any set of counts (the assumptions `ThreadNosFinite` and `CountsAreNat`):

| theorem | property |
|---|---|
| `TypeCorrect` | `TypeOK` |
| `ActiveCountIsExact` | `ActiveCountAccurate` |
| `ResizesAreHonoured` | `CountHonoured` |
| `StopsReachThreads` | `StopsAreSeen` |
| `NoWakeupIsLost` | `NoLostWakeup` |
| `ShutdownLeavesNothing` | `ShutdownDrains` |
| `DispatcherImplementsWorkQueue` | `ImplementsWorkQueue` |

`TypeOK` is inductive. `Accounting`, the conjunction of `ActiveCountAccurate`,
`CountHonoured` and `StopsAreSeen` (the lemma `PoolAccounting`), is inductive
relative to it, none of the three is by itself: a thread that leaves a wait does so
on one of three ways, and each of them changes `threads`, `stop_count` and the set
of active threads together; the lemmas `CountOne` and `CountUnion` turn that into
cardinalities. `NoLostWakeup` needs `StopsAreSeen`, for otherwise a woken thread
could stop and take a wakeup with it while others still sleep: this is why
`set_thread_count` must notify all. `ShutdownDrains` is strengthened to `Drained`
(after an unhurried shutdown there is no thread at all, hence none to take or to
add a task), and needs `CountHonoured` for the fact that a pool that is empty and
told to be empty starts nobody. The refinement needs `OnePlace`: no task is queued
twice, served twice, or queued and served.

`BuffersProofs`, for any set of bytes, writes, files, counts and overflows and any
`STRBUF_LIMIT` above 0 (`SizesTyped`):

| theorem | property |
|---|---|
| `LengthsAreExact` | `Consistent` |
| `MemoryIsBounded` | `PendingInMemoryBounded` |
| `BuffersImplementByteQueue` | `ImplementsByteQueue` |

`Consistent` and `PendingInMemoryBounded` are inductive together. The helpers get a
lemma each that says what they keep (`AsFileKeeps`, `FileAppendKeeps`,
`SpilledKeeps`, `FileSkipKeeps`, `PruneKeeps`), in terms of `Unread`, the bytes
from the position on; `Part`, `PartOfPart` and `PartOfLonger` are the facts about
`SubSeq` that they need. The refinement then goes action by action, under the
mapping of `unread` to `Unread(buf)` and of `open` to a stage that is not `closed`.

`ServerProofs`, for any finite sets of listeners and descriptors, any clients,
limits, timeouts and numbers of pieces (`ServerConstants`):

| theorem | property |
|---|---|
| `ConnectionsStayBounded` | `ConnectionsBounded` |
| `MapsStayInAgreement` | `MapsAgree` |
| `OnlyTheQuietAreReaped` | `QuietIsReaped` |

The bound alone is not inductive: after `select()` several listeners may still
accept. `Reserved` counts them as if they had, `LenMap + Cardinality(rs)`, which
`poll_lists` establishes and an accept keeps. For a map entry to be new, the
accepted client must not have one yet: `Waiting` (a client in a backlog is in one,
once) and `Accepting` (after `select()`, the listeners of the list have a client)
give that. `QuietIsReaped` is an action property; `Ages` (the age of
`last_activity` is at most the time of quiet, since each place that receives or
sends updates it, and one more does) makes it follow from the guard.

`TaskProofs`, for any set of lengths with 0 and any bound (`TaskConstants`):

| theorem | property |
|---|---|
| `OpenConnectionsInStep` | `KeptOpenInStep` |
| `ResponsesAreWhole` | `OneWholeResponse` |
| `IterablesReleasedOnce` | `ReleasedOnce` |

The invariant has four parts. `Coherent` relates the task to the wire, before the
head (nothing was sent, the header is the known length) and after it (the head
says what the task knows). `Progress` says for each place of `service` what has
been counted, sent and decided; its `BytesCounted` is needed because the count and
the bytes are kept apart, its `Sent` because `execute` compares them only at the
end. `Releases` says whose turn it is to close the iterable. `Finished` and
`EndIsTrue` are what remains after the response. `WriteInv` is the lemma about
`Task.write` that every caller uses.

The three modules about the channel are one development, for any workers, scripts,
sizes, lookahead and events. The first part of `ChannelProofs` takes from the
assumptions on the constants only that the threads differ (`ThreadsDistinct`):

| theorem | property |
|---|---|
| `ServedByOne` | `OneServant` |
| `NothingQueuedAfterClose` | `NoRequestAfterClose` |

The invariant says little about the buffers, since they do not decide who serves.
`Shapes` ties the context of a flush to the places of `_flush_some`; it is needed
because `send_continue` flushes with `requests_lock` held, and the flush of another
caller without it. `LockIsHeld` says where the lock is held. `Service` then counts
servants: a queued task or a worker in `service`, never both and never two; while a
worker hands the channel on, under the lock, there is none, and a request that is
queued when no worker holds the lock has one (unless the connection is gone).
`Closes` is for the second theorem: `received` looks at the close flags with the
lock held, and whoever sets one after that is in service, so that the queue is not
empty. The lemmas `AllStay` and `PlainStays` deal with the many steps that change
nothing of this.

The rest of `ChannelProofs`, `ChannelOutputProofs` and `ChannelOrderProofs` use all
the assumptions on the constants:

| theorem | property | hypothesis |
|---|---|---|
| `BuffersHaveOneUser` | `OneFlusher` | `ContinuesInTime` |
| `LoopNeverCrashes` | `LoopSurvives` | `ContinuesInTime` |
| `ChannelTyped` | `TypeOK` | |
| `TotalIsWhatIsBuffered` | `TotalAccurate` | `ContinuesInTime` |
| `NothingWrittenAfterClose` | `NoWriteAfterClose` | `ContinuesInTime` |
| `PausedWorkersAreHeard` | `PausedIsHeard` | `ContinuesInTime`, `NoLateFlush` |
| `ClosedOnlyWhenDone` | `CloseIsClean` | `ContinuesInTime` |
| `OutputIsBounded` | `OutputBounded` | `ContinuesInTime` |
| `ContinuesComeInTime` | | `OnlyFirstExpects` |
| `ClientSeesOrder` | `ResponsesInOrder` | `ContinuesInTime`, `NoLateFlush` |

*The hypotheses.* The findings `lost_continue` and `closed_by_worker` are
counterexamples to the first two properties, so these cannot be theorems of `Spec`
alone. `ContinuesInTime` says exactly what those behaviours have in common: whoever
calls `send_continue` is main, on a channel that is still connected. The theorems
are of the form `Spec /\ []ContinuesInTime => ...`: a behaviour in which no
continue is late has the property, whatever else happens in it (pipelining,
resets, half-closes, failures, maintenance, shutdown). That is not an empty class:
`ContinuesComeInTime` proves the hypothesis for all clients that ask for
100-continue with nothing but the first request of a connection
(`OnlyFirstExpects`), which all scripts of `channel_faults` and `channel_live` do.
`NoLateFlush` excludes the finding `paused_after_close`: a worker that starts the
flush between two requests does so on a connected channel. Finding 3 says what else
such a flush can do: it sends the next response behind a half of the last one, so
`ResponsesInOrder` needs the hypothesis too.

*Who uses the buffers.* `FInv` has four parts: `OutLockIsHeld` (the owner of
`outbuf_lock` is who the code says), `InPlace` (which thread can be where, and for
which caller it flushes; a worker is never at a place that closes, and main never
crashes), `UnlockedAlone` (main flushes without the lock only while `requests` is
empty, and then no worker gets to the buffers; this is the step at which the
continue of a worker breaks it) and `SelectsOpen`. Mutual exclusion follows.

*Types and the total.* `ChannelTyped` is more than a type check: that a step of the
flush finds the buffer it works on, and that `parse` finds the unit that it asks
for, rest on `RequestsTyped` (a body belongs to the request that is being
received), `JobsTyped` and `BuffersTyped`. `Held` is the concatenation of all
buffers. The lemmas about it say what an append, a skip, a pop and a close do to
it (`HeldTyped`, `HeldOne` and those between them; a concatenation exists for each
length by the least counterexample, since an induction theorem cannot be used).
`Accounted` says that a step adds to `total_outbufs_len` what it adds to the
buffers. It holds of every step when nobody races (`Unraced`), which mutual exclusion
gives (`NobodyRaces`); hence the hypothesis of `TotalIsWhatIsBuffered`. Where a
continue of a worker meets the flush of main, `skip()` has shortened the buffer before
the total follows, and the `-=` of one thread can overwrite the `+=` of the other.

*Pauses.* `NothingHeld` says that a closed channel has no total, so that nobody
starts to flush on it for the watermark, and `FlushesConnected` that no worker is
in a flush, or paused, on a closed channel: `handle_close` needs the lock, and
notifies who waits.

*Closing.* `CloseIsClean` is about the moment at which main disconnects. `ClosesFor`
says why main is there: the client has left, maintenance has chosen the channel, or
the total is 0 and everything is `Quiet` (no worker has more to write, no request
will be started). It rests on `FailsFor` (a flush fails only when the client is
gone or the channel is closed), `ToWrite` (a worker that has more to write is in
the middle of writing), `ClosesQuietly` (`close_when_flushed` is set by a worker
that is done) and `ReadsSomething` (an empty `recv()` means that the client has
ended). `FailsFor` in turn needs `Working`: between `get`, `send` and `skip`
the buffer that a thread works on stays the first one, with the length that it had
(this is where `OneFlusher` comes in), and `BuffersOpen`.

*The watermark.* The total is at most `Hwm` where a worker has the lock to write
(`Room`), so that one chunk later it `Fits`. `writable()` and `readable()` look at
the total long before main acts on them: `Reading` says that main reads what may
ask for a continue only while the buffers still fit, since a worker cannot append
when no request is queued, and that one pass of the parser sends at most one
continue before it queues a request. `Answering` is what the parser knows
(`AtHead`, `Completes`, `Postponed`, `BodyDue`): after a continue comes the body
that it was sent for, and a continue that was not sent at once is left to a worker.
Hence `Hwm`, plus one chunk, plus one continue if any request asks for one.

*The order on the wire.* `ResponsesInOrder` is about the wire alone, and is not
inductive: what comes onto it was decided when it was appended. `Stream` is the wire
followed by what the buffers hold, without the bytes that a thread has sent and not
yet skipped (`Unskipped`). Sending, skipping and popping leave it as it is, whichever
thread flushes (`Streams`; mutual exclusion is needed here); only `put` and a
continue of main append to it. `Ordered` says that it is in order (`InOrder`) and
what may come next (`Ready`): when nobody serves, the first token of the first
request in the queue (`Waiting`); when a worker serves, the token at which its job
stands (`AnswersAll`); the queue itself is consecutive (`Line`), and behind it
stands the request that the parser is at (`ParserAt`), for which main sends no
more than one continue (`Latch`). Two foundations are laid first. The responses:
`WrittenIs` shows that `Written`, which is defined by recursion over the writes,
is their running total, so that a job which has k tokens behind it is at a
definite write. The requests: `Grammatical` says how heads and
bodies follow each other in `Units`, proved for each number of requests from the
one before (`GrammaticalLonger`). After a close nothing more is sent, and the order
on the wire is enough.

`RequestParserProofs`, for any streams of tokens and any limits (`LimitsUsable`,
`StreamsOfTokens`; `FieldsStandAlone` is not needed):

| theorem | property |
|---|---|
| `TypeCorrect` | `TypeOK` |
| `EachCallConsumes` | `ConsumptionInRange` |
| `ChunkLoopEnds` | `RoundsBounded` |
| `SegmentsDoNotMatter` | `FramingExact` |

The first three say that `HTTPChannel.received` returns, with `requests_lock`, after
finitely many rounds. A call makes progress because what was kept of the earlier
segments is unfinished (`RequestKept`, `ReceiverKept`: no double newline in
`header_plus`, no line end in `control_line`, at most one byte in `chunk_end`), so
that whatever completes it lies in the new segment (`FoundBeyond`). `LoopEnds` is
the variant of the chunk loop: each round takes at least one byte, except one, in
which a wrong end of a chunk puts the byte that was kept back in front; after it
only a trailer is looked for. `Expecting` says that a body that is being read has
bytes to come; it rests on the fact that a continue is due only right after a
header or a response, for otherwise `send_continue` could take `completed` back from
a request with its whole body, and the next call would consume nothing.

`SegmentsDoNotMatter` is about what comes out: for every stream, cut anywhere, the
requests that are queued are those of `Frames`, which looks at the whole. Its
hypothesis is `ContinuesUnfinished`: `send_continue` is not called for a request
that is `completed` already. Where it is, the request is lost or waits for a body
(`lost_request`, section 5), and the statement is false. In `request_parser` every
state satisfies it, and continues are sent. The inductive invariant is `IInv` with
two more parts:

* `FramingKept`: however the stream may go on, what the whole holds is what has been
  queued, followed by what is still to come, `Promise(t)`, when `t` follows. It
  speaks of every continuation, not only of the one that is sent: that is what it
  means to keep bytes rightly while their meaning is open.
* `Reading`: how the flags, counts and the receiver of a request fit together
  (`header_bytes_received` is the length of `header_plus`; the bytes that a
  `FixedStreamReceiver` has and those that it waits for add up to Content-Length;
  and so on).

`Promise` says what the program has to make of its own state: `ToCome` for a request
between two calls, and `RestOf(r, done, a)` for a `ChunkedReceiver` in state `r`
(in a chunk, at its line end, in a control line, in the trailer), which decodes what
`r` has kept together with `a`. One lemma per action shows that it keeps every
promise (`PromiseKept`); only `handle_read` adds to what has come, and only
`queue_request` moves something from `Promise` to `requests`. Below them lie three
groups of lemmas. `FoundStays`, `DoubleNewlineBeyond` and `LineEndBeyond`: what was
found in a part of a sequence is found at the same place in all of it, and what was
not found there ends beyond it. `FramesIs` and `ChunkedIs`: `Frames` and `Chunked`
satisfy their recursive equations, since each step looks only at shorter sequences
(`FrameStepLocal`, `ChunkStepLocal`). `RestAfterData`, `RestAfterChunk`,
`RestAfterLine` and `RestAfterTrailer`: a round of the chunk loop leaves the rest of
the body what it was. `RestTooLong` shows that the limit on the body is met at the
same request, whether it is tested after each segment or over the whole.

`Find`, `Size`, `Chunked` and `Frames` need an induction: that a set of positions has
a least one, and that the value of a recursive function is defined for each length
(`ValueExists`, `ChunkedUpTo`, `FramesUpTo`). The least-number principle is derived
(`LeastOf`) from the library's theorem that finite sets are well-founded under
inclusion, which has no operator as a parameter; the lemmas that use it look at the
least counterexample.

Model-checked only: liveness, since fairness and ENABLED are out of the prover's
reach (`EveryTaskResolved`, `PoolConverges`, `RequestsAnswered`, `ContinueSent`,
`InputRead`, `CloseHappens`, `GoneIsNoticed`, `WaitingIsAccepted`).

## 5. Findings

Each is a run that ends in a counterexample.

1. `lost_continue`: `service()` takes the last request off `requests` before it
   calls `send_continue`. `handle_write` then sees no request and flushes without
   the lock that the worker holds. Both may send the same data, and both skip: the
   client gets the previous response twice and its continue never. (By the same
   window a continue may be written into a channel that main has just closed, and
   `total_outbufs_len` may stay wrong, since neither `-=` is atomic.)
2. `closed_by_worker`: the flush of `send_continue` closes the socket on a reset,
   also in a worker. The `select()` of main then fails with EBADF and the loop
   ends.
3. `paused_after_close`: `_flush_outbufs_below_high_watermark` tests the watermark
   before it has the lock. If main closes the channel in between, a worker that
   comes from `service()` waits for a `notify()` that nobody will give. With other
   constants the same window tears a response: the script `<<Get(<<File(3)>>),
   Get(<<Chunk(1)>>), Get(<<Chunk(1)>>)>>` with `SendBytes` and `Hwm` 2, `StrLimit`
   3, `SockCap` 1, `Lookahead` 3 and a client that half-closes make
   `ResponsesInOrder` fail. `handle_close` closes the file in the buffers but a str
   buffer keeps its data, and before main gets to close the socket the worker sends
   the second response behind half of the first.
4. `lost_request`: for a request that expects a continue and has no body,
   `send_continue` resets `completed`, and the request is never queued.

The passing runs are arranged around them: `channel_faults` has no continue sent by
a worker, `channel_race` has and checks what still holds, and the scripts of
`channel_live` have no second request behind one that overfills the buffers.

## 6. Not modelled, and the plan

What could come next, in this order:

1. `Pipeline`, an abstract specification of what a channel promises (one response
   per request, in order), to be implemented by `Channel` on the strength of
   `ClientSeesOrder`.
2. `ProxyHeaders`: the trusted-hop algorithm as operators, against a definition
   that starts from the list of hops. It is a pure function without state.

Hazards that no property covers, with the reason at each, are in `PROJECT.json`: a
`send_bytes` above the high watermark (excluded by `WatermarkUsable`), a continue
that a worker writes into a channel just closed, a task that a straggler queues
after `shutdown()` has timed out (`ShutdownDrains` and `EveryTaskResolved` exclude
the timeout), and a file that is truncated while it is being sent. A window that
`Server` leaves open although no text promises otherwise: between `requests.pop(0)`
(`channel.py` 497) and the update of `last_activity` (516) maintenance sees an idle
channel whose time stamp is that of its last input; after a request that took longer
than `channel_timeout` it sets `will_close`, and what is still buffered is dropped.

Not planned: `adjustments.py`, `utilities.py`, `compat.py`, `runner.py` (options,
strings and command lines without state of their own), `poll2` (the same loop
over another system call), and the parts of `wasyncore.py` that waitress does not
use.
