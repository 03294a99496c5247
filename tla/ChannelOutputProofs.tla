--------------------------- MODULE ChannelOutputProofs ---------------------------
(****************************************************************************)
(* Proofs about Channel, continued: what total_outbufs_len says about the   *)
(* output buffers, what happens to them after a close, when a continue is   *)
(* sent in time, whether a paused worker is notified, what main knows when  *)
(* it closes the connection, and what the watermark bounds.                 *)
(****************************************************************************)
EXTENDS ChannelProofs

----------------------------------------------------------------------------
(* The total, and closed channels *)

LEMMA StillEqual ==
    ASSUME NEW a \in Int, NEW b \in Int, NEW x \in Nat, NEW y \in Nat, a = x, b - y = a - x
    PROVE  b = y
OBVIOUS

\* total_outbufs_len, which every thread reads without a lock, is what the output
\* buffers of a connected channel hold, if continues are sent in time: main's flush
\* without outbuf_lock is alone then, so that no `-=` and no `+=` of two threads meet
\* (channel.py:277-280), and no update of the total is lost.
THEOREM TotalIsWhatIsBuffered == Spec /\ []ContinuesInTime => []TotalAccurate
<1>1. Init => TotalAccurate
  <2> SUFFICES ASSUME Init PROVE Buffered = 0 /\ total = 0
    BY DEF TotalAccurate
  <2>1. total = 0 /\ outbufs = <<NewBuffer>>
    BY DEF Init
  <2>2. <<NewBuffer>> \in Seq(Buffer) /\ Held(<<NewBuffer>>) = NewBuffer.data
    BY NewBufferTyped, HeldOne
  <2> QED
    BY <2>1, <2>2, NewBufferTyped, BufferedIs
<1>2. IInv /\ FInv /\ Typed /\ Typed' /\ TotalAccurate /\ [Next]_vars => TotalAccurate'
  <2> SUFFICES ASSUME IInv, FInv, Typed, Typed', TotalAccurate, [Next]_vars, connected'
               PROVE  total' = Buffered'
    BY DEF TotalAccurate
  <2>1. connected
    BY NeverReconnected
  <2>2. Accounted
    BY BuffersNext, NobodyRaces DEF Typed
  <2>3. Buffered \in Nat /\ total \in Int
    BY BufferedTyped DEF Typed, BuffersTyped
  <2>4. Buffered' \in Nat /\ total' \in Int
    <3>1. outbufs' \in Seq(Buffer) /\ total' \in Int
      BY DEF Typed, BuffersTyped
    <3> QED
      BY <3>1, HeldTyped, BufferedIs
  <2>5. total = Buffered /\ total' - Buffered' = total - Buffered
    BY <2>1, <2>2 DEF TotalAccurate, Accounted
  <2> QED
    BY <2>3, <2>4, <2>5, StillEqual
<1> QED
  BY <1>1, <1>2, InvAlways, FInvAlways, TypedAlways, PTL DEF Spec

\* Nothing is put into the buffers of a closed channel, if no continue is left over
\* when it is closed: write_soon looks at `connected` again when it has the lock,
\* and has the lock until the chunk is in its buffer.
THEOREM NothingWrittenAfterClose == Spec /\ []ContinuesInTime => NoWriteAfterClose
<1>1. IInv /\ Typed /\ ContinuesInTime /\ [Next]_vars
        => [~connected => Buffered' =< Buffered]_vars
  <2> SUFFICES ASSUME IInv, Typed, ContinuesInTime, [Next]_vars, ~connected
               PROVE  Buffered' =< Buffered
    OBVIOUS
  <2> QED
    BY BuffersNext DEF Typed, ContinuesInTime
<1> QED
  BY <1>1, InvAlways, TypedAlways, PTL DEF Spec, NoWriteAfterClose

----------------------------------------------------------------------------
(* Clients that ask for 100-continue with their first request only: the hypothesis *)
(* that continues are sent in time is true then                                     *)

OnlyFirstExpects == \A s \in Scripts : \A i \in DOMAIN s : s[i].expect => i = 1

\* Nothing happens before the first request is parsed, and who closes the channel
\* does not go back to parsing it.
ContinueFirst ==
    /\ request.expect => pc[Main] = "continue"
    /\ pc[Main] \in {"continue", "received"} => connected
    /\ \A w \in Workers : pc[w] # "continue"
    /\ parsed = 0 => /\ requests = <<>> /\ ~sent_continue
                     /\ pc[Main] \notin {"queue", "continue"}
                     /\ flush[Main].ctx # "continue"
    /\ pc[Main] = "parse" /\ ~connected => parsed # 0
    /\ sock = "open" /\ ~connected => pc[Main] \in {"close2", "fclose2", "stopped"}

LEMMA FirstIsInTime == ContinueFirst => ContinuesInTime
BY ThreadKinds DEF ContinueFirst, ContinuesInTime

LEMMA FirstInit == Init => ContinueFirst
<1> SUFFICES ASSUME Init PROVE ContinueFirst
  OBVIOUS
<1>1. /\ pc[Main] = "poll" /\ \A w \in Workers : pc[w] = "idle"
      /\ flush[Main].ctx = "" /\ connected = TRUE
      /\ requests = <<>> /\ sent_continue = FALSE
  BY ThreadKinds DEF Init
<1>2. request.expect = FALSE
  BY DEF Init, NoRequest
<1> QED
  BY <1>1, <1>2 DEF ContinueFirst

\* A worker moves, and leaves alone what main goes by.
LEMMA FirstWorker ==
    ASSUME FInv, ContinueFirst, NEW w \in Workers, Moves(w), pc'[w] # "continue",
           requests = <<>> => requests' = <<>>,
           UNCHANGED <<request, parsed, connected, sent_continue, sock>>
    PROVE  ContinueFirst'
<1>1. pc[Main] # "waiting"
  BY ThreadKinds DEF FInv, InPlace, MainPlaces, InFlush
<1>2. pc'[Main] = pc[Main] /\ flush'[Main] = flush[Main]
  BY <1>1, ThreadKinds DEF Moves
<1>3. \A v \in Workers : pc'[v] # "continue"
  BY ThreadKinds DEF Moves, ContinueFirst
<1> QED
  BY <1>2, <1>3 DEF ContinueFirst

\* Main moves, and has a request to parse no earlier than before.
LEMMA FirstMain ==
    ASSUME FInv, ContinueFirst, Moves(Main),
           pc'[Main] \notin {"continue", "received", "parse"}, ~request'.expect,
           parsed' = 0 => /\ parsed = 0 /\ requests' = <<>> /\ sent_continue' = sent_continue
                          /\ pc'[Main] # "queue" /\ flush'[Main].ctx # "continue",
           sock' = "open" /\ ~connected' => pc'[Main] \in {"close2", "fclose2", "stopped"}
    PROVE  ContinueFirst'
<1>1. \A v \in Workers : pc'[v] # "continue"
  BY ThreadKinds DEF Moves, ContinueFirst
<1> QED
  BY <1>1 DEF ContinueFirst

LEMMA FirstFlush ==
    ASSUME IInv, FInv, Typed, ContinueFirst, NEW t \in Threads,
           flush_some(t) \/ send_continue(t) \/ handle_close(t) \/ dispatcher_close(t)
    PROVE  ContinueFirst'
<1>1. Moves(t) /\ Shapes
  BY FlushMoves DEF IInv
<1>2. UNCHANGED <<requests, parsed>>
  BY FlushLeavesAlone DEF input
<1>3. CASE t # Main
  <2>1. t \in Workers /\ InPlace(t) /\ pc[t] # "continue"
    BY <1>3, ThreadKinds DEF FInv, ContinueFirst
  <2>2. flush_some(t)
    BY <1>3, <2>1 DEF send_continue, handle_close, dispatcher_close, InPlace,
                      WorkerPlaces, InFlush
  <2>3. pc[t] \in InFlush
    BY <2>2 DEF flush_some, flush_top, send_some, send_nothing,
       flush_skip, flush_deduct, SentOn,
                flush_return, flush_raise, InFlush
  <2>4. flush[t].ctx \in {"write", "hwm", "hwm_fin"}
    BY <1>3, <2>3, NotContinuing
  <2>5. UNCHANGED <<connected, sent_continue, sock>>
    BY <2>2 DEF flush_some, flush_top, send_some, send_nothing,
       flush_skip, flush_deduct, SentOn,
                flush_return, flush_raise, shared
  <2>6. request' = request
    BY <2>2, <2>4 DEF flush_some, flush_top, send_some, send_nothing,
       flush_skip, flush_deduct, SentOn,
                flush_return, FlushReturned, flush_raise, shared
  <2>7. pc'[t] # "continue"
    BY <1>1, <2>2, TopMoves, SendMoves, SkipMoves, ReturnMoves, RaiseMoves
       DEF flush_some, Within, Leaves
  <2> QED
    BY <1>1, <1>2, <2>1, <2>5, <2>6, <2>7, FirstWorker
<1>4. CASE t = Main
  <2>1. InPlace(Main) /\ request.expect \in BOOLEAN
    BY ThreadKinds DEF FInv, Typed, RequestsTyped
  <2>2. CASE flush_some(Main)
    <3>1. pc[Main] \in InFlush \ {"fclose", "fclose2"}
      BY <2>2 DEF flush_some, flush_top, send_some, send_nothing,
         flush_skip, flush_deduct, SentOn,
                  flush_return, flush_raise, InFlush
    <3>2. UNCHANGED <<connected, sent_continue, sock>>
      BY <2>2 DEF flush_some, flush_top, send_some, send_nothing,
         flush_skip, flush_deduct, SentOn,
                  flush_return, flush_raise, shared
    <3>3. request' = request \/ request' = [request EXCEPT !.completed = FALSE]
      BY <2>2 DEF flush_some, flush_top, send_some, send_nothing,
         flush_skip, flush_deduct, SentOn,
                  flush_return, FlushReturned, flush_raise, shared
    <3>4. ~request.expect
      BY <3>1 DEF ContinueFirst, InFlush
    <3>5. ~request'.expect
      <4>1. request \in [id : 0 .. Len(script), expect : BOOLEAN, completed : BOOLEAN]
        BY DEF Typed, RequestsTyped
      <4>2. request'.expect = request.expect
        BY <3>3, <4>1
      <4> QED
        BY <3>4, <4>2
    <3>6. /\ pc'[Main] \notin {"continue", "received", "parse"}
          /\ flush'[Main].ctx \in {"", flush[Main].ctx}
          /\ pc'[Main] = "queue" => flush[Main].ctx = "continue"
      BY <1>1, <2>1, <2>2, <3>1, ThreadKinds, TopMoves, SendMoves, SkipMoves, ReturnMoves,
         RaiseMoves DEF flush_some, Within, Leaves, InPlace
    <3>7. ~(sock = "open" /\ ~connected)
      BY <3>1 DEF ContinueFirst, InFlush
    <3>8. parsed' = 0 => /\ parsed = 0 /\ requests' = <<>> /\ sent_continue' = sent_continue
                         /\ pc'[Main] # "queue" /\ flush'[Main].ctx # "continue"
      BY <1>2, <3>2, <3>6 DEF ContinueFirst
    <3> QED
      BY <1>1, <1>4, <3>2, <3>5, <3>6, <3>7, <3>8, FirstMain
  <2>3. CASE send_continue(Main)
    <3>1. /\ pc[Main] = "continue" /\ pc'[Main] \in {"top", "raised"}
          /\ UNCHANGED <<connected, sock>>
      BY <1>1, <2>3, ThreadKinds, ContinueMoves DEF send_continue
    <3>2. request' = [request EXCEPT !.expect = FALSE]
      BY <2>3 DEF send_continue
    <3>3. ~request'.expect
      BY <3>2 DEF Typed, RequestsTyped
    <3>4. connected /\ parsed # 0
      BY <3>1 DEF ContinueFirst
    <3> QED
      BY <1>1, <1>2, <1>4, <3>1, <3>3, <3>4, FirstMain
  <2>4. CASE handle_close(Main) \/ dispatcher_close(Main)
    <3>1. UNCHANGED <<request, sent_continue>> /\ flush' = flush
          /\ pc[Main] \in {"close", "fclose", "close2", "fclose2"}
      BY <2>4 DEF handle_close, dispatcher_close, shared
    <3>2. \/ pc'[Main] \in {"close2", "fclose2"}
          \/ pc'[Main] \in {"poll", "flushed"} /\ sock' = "closed"
      BY <1>1, <2>4, ThreadKinds, CloseMoves, DispatcherCloseMoves DEF Within, dispatcher_close
    <3>3. ~request'.expect
      BY <3>1 DEF ContinueFirst
    <3>4. parsed' = 0 => /\ parsed = 0 /\ requests' = <<>> /\ sent_continue' = sent_continue
                         /\ pc'[Main] # "queue" /\ flush'[Main].ctx # "continue"
      BY <1>2, <3>1, <3>2 DEF ContinueFirst
    <3> QED
      BY <1>1, <1>4, <3>2, <3>3, <3>4, FirstMain
  <2> QED
    BY <1>4, <2>2, <2>3, <2>4
<1> QED
  BY <1>3, <1>4

\* Main elsewhere, and neither receiving nor parsing.
LEMMA FirstAside ==
    ASSUME IInv, FInv, Typed, ContinueFirst,
           \/ server_readable \/ readable \/ writable \/ enter_select
           \/ select_returns \/ select_times_out \/ trigger_read
           \/ after_flush \/ interrupt \/ shutdown \/ handle_write
    PROVE  ContinueFirst'
<1>1. Moves(Main) /\ Shapes
  BY MainMoves DEF IInv, MainStep
<1>2. /\ UNCHANGED <<request, parsed, sent_continue, sock>>
      /\ requests' \in {requests, <<>>}
      /\ connected' = connected \/ shutdown
  BY DEF server_readable, readable, writable, enter_select, select_returns,
         select_times_out, trigger_read, after_flush, interrupt, shutdown,
         handle_write, shared, input
<1>3. pc[Main] \notin {"continue", "stopped", "close2", "fclose2"}
  BY DEF server_readable, readable, writable, enter_select, select_returns,
         select_times_out, trigger_read, after_flush, interrupt, shutdown, handle_write
<1>4. /\ pc'[Main] \notin {"continue", "received", "parse", "queue"}
      /\ shutdown => pc'[Main] = "stopped"
  <2>1. \E p : /\ pc' = [pc EXCEPT ![Main] = p]
               /\ p \notin {"continue", "received", "parse", "queue"}
               /\ shutdown => p = "stopped"
    BY DEF server_readable, readable, writable, enter_select, select_returns,
           select_times_out, trigger_read, after_flush, interrupt, shutdown,
           handle_write, Go
  <2> QED
    BY <1>1, <2>1, ThreadKinds DEF Shapes
<1>5. flush' = flush \/ \E c \in {"unlocked", "lockable"} : StartFlush(Main, c)
  BY DEF server_readable, readable, writable, enter_select, select_returns,
         select_times_out, trigger_read, after_flush, interrupt, shutdown, handle_write
<1>6. flush'[Main].ctx \in {flush[Main].ctx, "unlocked", "lockable"}
  BY <1>1, <1>5, ThreadKinds DEF StartFlush, Shapes, FlushFields
<1>7. ~request'.expect
  BY <1>2, <1>3 DEF ContinueFirst
<1>8. parsed' = 0 => /\ parsed = 0 /\ requests' = <<>> /\ sent_continue' = sent_continue
                     /\ pc'[Main] # "queue" /\ flush'[Main].ctx # "continue"
  BY <1>2, <1>4, <1>6 DEF ContinueFirst
<1>9. sock' = "open" /\ ~connected' => pc'[Main] \in {"close2", "fclose2", "stopped"}
  BY <1>2, <1>3, <1>4 DEF ContinueFirst
<1> QED
  BY <1>1, <1>4, <1>7, <1>8, <1>9, FirstMain

LEMMA FirstRead ==
    ASSUME IInv, FInv, Typed, ContinueFirst, handle_read \/ received \/ queue_request
    PROVE  ContinueFirst'
<1>1. Moves(Main) /\ Shapes /\ flush' = flush
  BY MainMoves DEF IInv, MainStep, handle_read, received, queue_request
<1>2. UNCHANGED <<connected, sock>> /\ pc[Main] \in {"read", "received", "queue"}
  BY DEF handle_read, received, queue_request, shared
<1>3. ~(sock = "open" /\ ~connected)
  BY <1>2 DEF ContinueFirst
<1>4. \A w \in Workers : pc'[w] # "continue"
  BY <1>1, ThreadKinds DEF Moves, ContinueFirst
<1>5. ~request.expect /\ request \in [id : 0 .. Len(script), expect : BOOLEAN, completed : BOOLEAN]
  BY <1>2 DEF ContinueFirst, Typed, RequestsTyped
<1>6. CASE handle_read
  <2>1. UNCHANGED <<request, requests, parsed, sent_continue>>
    BY <1>6 DEF handle_read, shared
  <2>2. \E p \in {"write", "close", "received"} :
            pc' = [pc EXCEPT ![Main] = p] /\ (p = "received" => sock = "open")
    BY <1>6 DEF handle_read, Go
  <2>3. /\ pc'[Main] \in {"write", "close", "received"}
        /\ pc'[Main] = "received" => connected
    BY <1>1, <1>3, <2>2, ThreadKinds DEF Shapes, ContinueFirst
  <2> QED
    BY <1>1, <1>2, <1>3, <1>4, <1>5, <2>1, <2>3 DEF ContinueFirst
<1>7. CASE received
  <2>1. UNCHANGED <<request, requests, sent_continue>>
    BY <1>7 DEF received, shared
  <2>2. /\ pc'[Main] \in {"write", "parse"}
        /\ parsed' = parsed \/ parsed' = rcvd
    BY <1>1, <1>7, ThreadKinds DEF received, Go, Shapes
  <2>3. connected /\ rcvd # 0
    BY <1>7 DEF received, ContinueFirst, Typed, InputTyped
  <2>4. parsed' = 0 => parsed = 0
    BY <2>2, <2>3
  <2> QED
    BY <1>1, <1>2, <1>3, <1>4, <1>5, <2>1, <2>2, <2>3, <2>4 DEF ContinueFirst
<1>8. CASE queue_request
  <2>1. parsed' = parsed /\ parsed # 0
    BY <1>8 DEF queue_request, input, ContinueFirst
  <2>2. pc'[Main] \in {"write", "parse"}
    BY <1>1, <1>8, ThreadKinds DEF queue_request, Go, Shapes
  <2>3. request' = request \/ request' = NoRequest
    BY <1>8 DEF queue_request
  <2>4. ~request'.expect
    BY <1>5, <2>3 DEF NoRequest
  <2> QED
    BY <1>1, <1>2, <1>3, <1>4, <2>1, <2>2, <2>4 DEF ContinueFirst
<1> QED
  BY <1>6, <1>7, <1>8

\* A head that expects is the first of the input: nothing is queued, and no
\* continue was sent.
LEMMA FirstParse ==
    ASSUME OnlyFirstExpects, IInv, FInv, Typed, ContinueFirst, parse
    PROVE  ContinueFirst'
<1> DEFINE u == Units[parsed + 1]
<1>1. /\ Moves(Main) /\ Shapes /\ flush' = flush /\ pc[Main] = "parse"
      /\ UNCHANGED <<requests, connected, sent_continue, sock>>
  BY MainMoves DEF IInv, MainStep, parse
<1>2. ~(sock = "open" /\ ~connected)
  BY <1>1 DEF ContinueFirst
<1>3. \A w \in Workers : pc'[w] # "continue"
  BY <1>1, ThreadKinds DEF Moves, ContinueFirst
<1>4. ~request.expect /\ request \in [id : 0 .. Len(script), expect : BOOLEAN, completed : BOOLEAN]
  BY <1>1 DEF ContinueFirst, Typed, RequestsTyped
<1>5. /\ parsed' = parsed + 1 /\ parsed \in Nat /\ parsed < Len(Units)
      /\ Len(Units) \in Nat /\ script \in Scripts
  BY <1>1, UnitsTyped DEF parse, Typed, InputTyped
<1>6. parsed + 1 \in 1 .. Len(Units) /\ u \in UnitsOf(script) /\ u[1] \in 1 .. Len(script)
  BY <1>5, NextUnit DEF Typed
<1>7. request' = IF u[2] = "body" THEN [request EXCEPT !.completed = TRUE]
                 ELSE [id |-> u[1], expect |-> script[u[1]].expect,
                       completed |-> ~script[u[1]].body \/ script[u[1]].error]
  BY DEF parse
<1>8. pc'[Main] = IF ContinueDue(request') THEN "continue" ELSE "queue"
  BY <1>1, ThreadKinds DEF parse, Go, Shapes
<1>9. ASSUME request'.expect
      PROVE  pc'[Main] = "continue" /\ parsed = 0 /\ connected
  <2>1. u[2] # "body"
    BY <1>4, <1>7, <1>9
  <2>2. script[u[1]].expect
    BY <1>7, <1>9, <2>1
  <2>3. u[1] = 1
    <3>1. u[1] \in DOMAIN script
      BY <1>5, <1>6, ScriptsShape, LenProperties
    <3> QED
      BY <1>5, <2>2, <3>1 DEF OnlyFirstExpects
  <2>4. u = <<1, "head">>
    BY <1>6, <2>1, <2>3 DEF UnitsOf
  <2>5. parsed + 1 = 1
    BY <1>5, <1>6, <2>4, UnitsGrammatical DEF Grammatical
  <2>6. parsed = 0
    BY <1>5, <2>5
  <2>7. requests = <<>> /\ ~sent_continue /\ connected
    BY <1>1, <2>6 DEF ContinueFirst
  <2> QED
    BY <1>8, <1>9, <2>6, <2>7 DEF ContinueDue
<1>10. pc'[Main] = "continue" => request'.expect
  BY <1>8 DEF ContinueDue
<1>11. pc'[Main] \in {"continue", "queue"} /\ parsed' # 0
  BY <1>5, <1>8
<1> QED
  BY <1>1, <1>2, <1>3, <1>9, <1>10, <1>11 DEF ContinueFirst

\* What service() does, except for what it takes off the queue.
LEMMA FirstService ==
    ASSUME IInv, FInv, Typed, ContinueFirst, NEW w \in Workers, WorkerStep(w)
    PROVE  ContinueFirst'
<1>1. Moves(w) /\ Shapes /\ w \in Threads
  BY WorkerMovesOnly, ThreadKinds DEF IInv
<1>2. requests = <<>> => requests' = <<>>
  BY WorkersQueueNothing
<1>3. CASE flush_some(w) \/ send_continue(w) \/ handle_close(w) \/ dispatcher_close(w)
  BY <1>1, <1>3, FirstFlush
<1>4. CASE \/ take_task(w) \/ service_start(w) \/ app_writes(w) \/ app_raises(w)
           \/ write_soon(w) \/ put(w) \/ wait_returns(w)
  <2>1. UNCHANGED <<request, parsed, connected, sent_continue, sock>>
    BY <1>4 DEF take_task, service_start, app_writes, app_raises, write_soon, put,
                wait_returns, shared, input
  <2>2. pc' = pc \/ \E p : pc' = [pc EXCEPT ![w] = p] /\ p # "continue"
    BY <1>4 DEF take_task, service_start, app_writes, app_raises, write_soon, put,
                wait_returns, TestHwm, BelowHwm, PauseAtHwm, Go
  <2>3. pc'[w] # "continue"
    BY <1>1, <2>2 DEF Shapes, ContinueFirst
  <2> QED
    BY <1>1, <1>2, <2>1, <2>3, FirstWorker
<1>5. CASE \/ finish(w) \/ flush_before_next(w) \/ close_soon(w) \/ drop_requests(w)
           \/ pop_request(w) \/ service_ends(w)
  <2>1. UNCHANGED <<request, parsed, connected, sent_continue, sock>>
    BY <1>5 DEF finish, flush_before_next, close_soon, drop_requests, pop_request,
                service_ends, shared, input
  <2>2. \E p : pc' = [pc EXCEPT ![w] = p] /\ p # "continue"
    BY <1>5 DEF finish, flush_before_next, close_soon, drop_requests, pop_request,
                service_ends, Go
  <2>3. pc'[w] # "continue"
    BY <1>1, <2>2 DEF Shapes
  <2> QED
    BY <1>1, <1>2, <2>1, <2>3, FirstWorker
<1>6. CASE next_request(w)
  <2>1. UNCHANGED <<request, parsed, connected, sent_continue, sock>>
    BY <1>6 DEF next_request, shared, input
  <2>2. ~request.expect
    <3>1. requests_lock = w
      BY <1>1, <1>6 DEF next_request, IInv, LockIsHeld, HoldsRequests
    <3>2. pc[Main] # "continue"
      BY <3>1, ThreadKinds DEF IInv, LockIsHeld, HoldsRequests, Continuing
    <3> QED
      BY <3>2 DEF ContinueFirst
  <2>3. pc' = [pc EXCEPT ![w] = "last"]
    BY <1>6, <2>2 DEF next_request, WantsContinue, Go
  <2>4. pc'[w] # "continue"
    BY <1>1, <2>3 DEF Shapes
  <2> QED
    BY <1>1, <1>2, <2>1, <2>4, FirstWorker
<1> QED
  BY <1>3, <1>4, <1>5, <1>6 DEF WorkerStep

LEMMA FirstNext ==
    ASSUME OnlyFirstExpects, IInv, FInv, Typed, ContinueFirst, [Next]_vars
    PROVE  ContinueFirst'
<1>1. CASE UNCHANGED vars \/ ClientStep
  <2>1. UNCHANGED <<pc, flush, request, requests, parsed, connected, sent_continue, sock>>
    BY <1>1 DEF vars, ClientStep, client_sends, client_reads, client_leaves,
                time_passes, server, shared, input
  <2> QED
    BY <2>1 DEF ContinueFirst
<1>2. CASE MainStep \/ select_times_out \/ interrupt
  BY <1>2, FirstAside, FirstRead, FirstParse, FirstFlush, ThreadKinds DEF MainStep
<1>3. ASSUME NEW w \in Workers, WorkerStep(w) PROVE ContinueFirst'
  BY <1>3, FirstService
<1> QED
  BY <1>1, <1>2, <1>3 DEF Next

\* What every behaviour needs that is not to meet the two continues that are sent
\* too late (the runs LostContinue and ClosedByWorker): no client asks for a
\* 100 Continue with a request that may have to wait behind another one
\* (channel.py:229 and 502).
THEOREM ContinuesComeInTime ==
    ASSUME OnlyFirstExpects
    PROVE  Spec => []ContinuesInTime
<1>1. Init => FInv /\ ContinueFirst
  BY FInvInit, FirstInit
<1>2. IInv /\ Typed /\ FInv /\ ContinueFirst /\ [Next]_vars => FInv' /\ ContinueFirst'
  <2> SUFFICES ASSUME IInv, Typed, FInv, ContinueFirst, [Next]_vars
               PROVE  FInv' /\ ContinueFirst'
    OBVIOUS
  <2>1. ContinueFirst'
    BY FirstNext, OnlyFirstExpects
  <2>2. ContinuesInTime /\ ContinuesInTime'
    BY <2>1, FirstIsInTime, ThreadKinds DEF ContinueFirst, ContinuesInTime
  <2> QED
    BY <2>1, <2>2, FInvNext
<1>3. FInv /\ ContinueFirst => ContinuesInTime
  BY FirstIsInTime
<1> QED
  BY <1>1, <1>2, <1>3, InvAlways, TypedAlways, PTL DEF Spec

----------------------------------------------------------------------------
(* A channel that was closed *)

\* Main disconnects first, then closes the socket, and does nothing in between.
SockFollows ==
    /\ sock = "closed" => ~connected
    /\ ~connected /\ sock = "open" => pc[Main] \in {"close2", "fclose2", "stopped"}
    /\ pc[Main] \in {"close2", "fclose2"} => ~connected

\* Its total stays at 0 or below, or, cancelled by shutdown(), it is not serviced.
NothingHeld == ~connected => total =< 0 \/ (pc[Main] = "stopped" /\ NoServant)

\* The end of service() takes the lock while the channel is connected: the finding
\* PausedAfterClose shows what happens otherwise.
NoLateFlush == \A w \in Workers : pc[w] = "flush_fin" => connected

\* No worker flushes, or is paused, on a closed channel.
FlushesConnected == \A w \in Workers : pc[w] \in InFlush \union {"waiting"} => connected

LEMMA OnlyMainCloses ==
    ASSUME FInv, NEW t \in Threads, handle_close(t) \/ dispatcher_close(t)
    PROVE  t = Main
BY ThreadKinds DEF FInv, InPlace, WorkerPlaces, handle_close, dispatcher_close

\* Who may change the two marks of a closed channel.
LEMMA WhoCloses ==
    ASSUME [Next]_vars, FInv
    PROVE  \/ UNCHANGED <<connected, sock>>
           \/ handle_close(Main)
           \/ dispatcher_close(Main)
           \/ shutdown
<1>1. CASE UNCHANGED vars \/ ClientStep
  BY <1>1 DEF vars, ClientStep, client_sends, client_reads, client_leaves,
              time_passes, server, shared
<1>2. ASSUME NEW t \in Threads,
             flush_some(t) \/ send_continue(t) \/ handle_close(t) \/ dispatcher_close(t)
      PROVE  UNCHANGED <<connected, sock>> \/ handle_close(Main) \/ dispatcher_close(Main)
  <2>1. CASE handle_close(t) \/ dispatcher_close(t)
    BY <2>1, OnlyMainCloses
  <2>2. CASE flush_some(t) \/ send_continue(t)
    BY <2>2 DEF flush_some, flush_top, send_some, send_nothing,
       flush_skip, flush_deduct, SentOn,
                flush_return, flush_raise, send_continue, shared
  <2> QED
    BY <1>2, <2>1, <2>2
<1>3. CASE \/ server_readable \/ readable \/ writable \/ enter_select \/ select_returns
           \/ select_times_out \/ trigger_read \/ interrupt \/ handle_read
           \/ handle_write \/ after_flush \/ received \/ parse \/ queue_request
  BY <1>3 DEF server_readable, readable, writable, enter_select, select_returns,
     select_times_out, trigger_read, interrupt, handle_read, handle_write,
     after_flush, received, parse, queue_request, shared
<1>4. ASSUME NEW w \in Workers,
             \/ take_task(w) \/ service_start(w) \/ app_writes(w) \/ app_raises(w)
             \/ write_soon(w) \/ put(w) \/ wait_returns(w) \/ finish(w)
             \/ flush_before_next(w) \/ close_soon(w) \/ drop_requests(w)
             \/ pop_request(w) \/ next_request(w) \/ service_ends(w)
      PROVE  UNCHANGED <<connected, sock>>
  BY <1>4 DEF take_task, service_start, app_writes, app_raises, write_soon, put,
     wait_returns, finish, flush_before_next, close_soon, drop_requests,
     pop_request, next_request, service_ends, shared
<1> QED
  BY <1>1, <1>2, <1>3, <1>4, ThreadKinds DEF Next, MainStep, WorkerStep

\* Main moves only in its own steps.
LEMMA MainStaysOr ==
    ASSUME IInv, FInv, [Next]_vars
    PROVE  \/ MainStep \/ select_times_out \/ interrupt
           \/ pc'[Main] = pc[Main] /\ flush'[Main] = flush[Main]
<1>1. CASE UNCHANGED vars \/ ClientStep
  BY <1>1 DEF vars, ClientStep, client_sends, client_reads, client_leaves,
              time_passes, server
<1>2. ASSUME NEW w \in Workers, WorkerStep(w)
      PROVE  pc'[Main] = pc[Main] /\ flush'[Main] = flush[Main]
  <2>1. Moves(w)
    BY <1>2, WorkerMovesOnly DEF IInv
  <2>2. pc[Main] # "waiting"
    BY ThreadKinds DEF FInv, InPlace, MainPlaces, InFlush
  <2> QED
    BY <2>1, <2>2, ThreadKinds DEF Moves
<1> QED
  BY <1>1, <1>2 DEF Next

\* What main does next, when it is not closing.
LEMMA MainDoesNotClose ==
    ASSUME IInv, FInv, MainStep \/ select_times_out \/ interrupt,
           ~handle_close(Main), ~dispatcher_close(Main)
    PROVE  /\ pc[Main] \notin {"close", "fclose", "close2", "fclose2", "stopped"}
           /\ pc'[Main] \notin {"close2", "fclose2"}
<1>1. Main \in Threads /\ Shapes
  BY ThreadKinds DEF IInv
<1>2. CASE flush_some(Main)
  BY <1>1, <1>2, TopMoves, SendMoves, SkipMoves, ReturnMoves, RaiseMoves
     DEF flush_some, Within, Leaves
<1>3. CASE send_continue(Main)
  BY <1>1, <1>3, ContinueMoves
<1>4. CASE \/ server_readable \/ readable \/ writable \/ enter_select \/ select_returns
           \/ select_times_out \/ trigger_read \/ interrupt
  BY <1>1, <1>4 DEF server_readable, readable, writable, enter_select, select_returns,
     select_times_out, trigger_read, interrupt, Go, Shapes
<1>5. CASE handle_read \/ handle_write \/ after_flush \/ received \/ parse \/ queue_request
           \/ shutdown
  BY <1>1, <1>5 DEF handle_read, handle_write, after_flush, received, parse,
     queue_request, shutdown, Go, Shapes
<1> QED
  BY <1>2, <1>3, <1>4, <1>5 DEF MainStep

LEMMA SockInit == Init => SockFollows
<1> SUFFICES ASSUME Init PROVE SockFollows
  OBVIOUS
<1>1. sock = "open" /\ connected = TRUE /\ pc[Main] = "poll"
  BY ThreadKinds DEF Init
<1> QED
  BY <1>1 DEF SockFollows

LEMMA SockNext ==
    ASSUME IInv, FInv, SockFollows, [Next]_vars
    PROVE  SockFollows'
<1>1. CASE handle_close(Main)
  <2>1. connected' = FALSE /\ pc'[Main] \in {"close2", "fclose2"} /\ sock' = sock
    BY <1>1, ThreadKinds, CloseMoves DEF handle_close, Within, IInv
  <2> QED
    BY <2>1 DEF SockFollows
<1>2. CASE dispatcher_close(Main)
  <2>1. /\ connected' = connected /\ pc[Main] \in {"close2", "fclose2"}
        /\ pc'[Main] \in {"poll", "flushed"} /\ sock' = "closed"
    BY <1>2, ThreadKinds, DispatcherCloseMoves DEF dispatcher_close, Within, IInv, shared
  <2> QED
    BY <2>1 DEF SockFollows
<1>3. CASE shutdown
  <2>1. /\ sock' = sock /\ pc'[Main] = "stopped"
        /\ connected' = connected \/ connected' = FALSE
    BY <1>3, ThreadKinds DEF shutdown, Go, IInv, Shapes
  <2> QED
    BY <2>1 DEF SockFollows
<1>4. CASE ~handle_close(Main) /\ ~dispatcher_close(Main) /\ ~shutdown
  <2>1. UNCHANGED <<connected, sock>>
    BY <1>4, WhoCloses
  <2> QED
    BY <1>4, <2>1, MainStaysOr, MainDoesNotClose DEF SockFollows
<1> QED
  BY <1>1, <1>2, <1>3, <1>4

----------------------------------------------------------------------------
\* Only a continue, a chunk, or nothing at all makes the total larger.
LEMMA TotalFalls ==
    ASSUME Typed, ContinuesInTime, [Next]_vars, ~connected
    PROVE  total' =< total \/ total' = 0
<1>1. total \in Int
  BY DEF Typed, BuffersTyped
<1>2. CASE UNCHANGED vars \/ ClientStep
  BY <1>1, <1>2 DEF vars, ClientStep, client_sends, client_reads, client_leaves,
              time_passes, server, buffers
<1>3. ASSUME NEW t \in Threads,
             flush_some(t) \/ send_continue(t) \/ handle_close(t) \/ dispatcher_close(t)
      PROVE  total' =< total \/ total' = 0
  <2>1. CASE flush_skip(t) \/ flush_deduct(t)
    <3>1. flush[t].num \in Nat
      BY DEF Typed, BuffersTyped
    <3>2. total' = total \/ total' = total - flush[t].num
      BY <2>1 DEF flush_skip, flush_deduct, NewTotal
    <3> QED
      BY <1>1, <3>1, <3>2
  <2>2. CASE send_continue(t)
    BY <2>2 DEF send_continue, ContinuesInTime
  <2>3. CASE flush_top(t) \/ send_some(t) \/ send_nothing(t) \/ flush_return(t)
             \/ flush_raise(t) \/ dispatcher_close(t) \/ handle_close(t)
    BY <1>1, <2>3 DEF flush_top, send_some, send_nothing, flush_return, flush_raise,
                      dispatcher_close, handle_close, NewTotal, buffers
  <2> QED
    BY <1>3, <2>1, <2>2, <2>3 DEF flush_some
<1>4. CASE \/ server_readable \/ readable \/ writable \/ enter_select \/ select_returns
           \/ select_times_out \/ trigger_read \/ interrupt \/ handle_read
           \/ handle_write \/ after_flush \/ shutdown \/ received \/ parse \/ queue_request
  BY <1>1, <1>4 DEF server_readable, readable, writable, enter_select, select_returns,
     select_times_out, trigger_read, interrupt, handle_read, handle_write,
     after_flush, shutdown, received, parse, queue_request, buffers
<1>5. ASSUME NEW w \in Workers,
             \/ take_task(w) \/ service_start(w) \/ app_writes(w) \/ app_raises(w)
             \/ write_soon(w) \/ put(w) \/ wait_returns(w) \/ finish(w)
             \/ flush_before_next(w) \/ close_soon(w) \/ drop_requests(w)
             \/ pop_request(w) \/ next_request(w) \/ service_ends(w)
      PROVE  total' =< total
  <2>1. total' = total
    BY <1>5 DEF take_task, service_start, app_writes, app_raises, write_soon, put,
       LeftMeanwhile, wait_returns, finish, flush_before_next, close_soon, drop_requests,
       pop_request, next_request, service_ends, buffers
  <2> QED
    BY <1>1, <2>1
<1> QED
  BY <1>2, <1>3, <1>4, <1>5, ThreadKinds DEF Next, MainStep, WorkerStep

\* A worker that is not in service comes to be so by taking a task.
LEMMA OnlyTakesServe ==
    ASSUME IInv, FInv, NEW w \in Workers, ~InService(w), InService(w)', [Next]_vars
    PROVE  take_task(w)
<1>1. w \in Threads /\ w # Main /\ Shapes
  BY ThreadKinds DEF IInv
<1>2. pc[w] \in {"idle", "next", "last"}
  <2>1. pc[w] \in InFlush => flush[w].ctx # "continue"
    BY <1>1 DEF FInv, InPlace
  <2>2. flush[w].ctx # "continue"
    BY <1>1, <2>1 DEF Shapes
  <2>3. pc[w] # "continue"
    BY <1>1 DEF FInv, InPlace, WorkerPlaces
  <2> QED
    BY <2>2, <2>3 DEF InService
<1>3. pc'[w] \notin {"idle", "next", "last", "continue"}
  BY DEF InService
<1>4. ~UNCHANGED vars /\ ~ClientStep
  BY <1>2, <1>3 DEF vars, ClientStep, client_sends, client_reads, client_leaves,
                    time_passes, server
<1>5. ASSUME NEW t \in Threads, Moves(t) PROVE t = w
  BY <1>1, <1>2, <1>3, <1>5 DEF Moves
<1>6. WorkerStep(w)
  <2>1. ~(MainStep \/ select_times_out \/ interrupt)
    BY <1>1, <1>5, MainMoves, ThreadKinds
  <2>2. \A v \in Workers : WorkerStep(v) => v = w
    BY <1>1, <1>5, WorkerMovesOnly, ThreadKinds
  <2> QED
    BY <1>4, <2>1, <2>2 DEF Next
<1>7. ~flush_some(w) /\ ~send_continue(w) /\ ~handle_close(w) /\ ~dispatcher_close(w)
  BY <1>2 DEF flush_some, flush_top, send_some, send_nothing,
     flush_skip, flush_deduct, SentOn,
     flush_return, flush_raise, send_continue, handle_close, dispatcher_close
<1>8. ~(service_start(w) \/ app_writes(w) \/ app_raises(w) \/ write_soon(w) \/ put(w)
        \/ wait_returns(w) \/ finish(w) \/ flush_before_next(w) \/ close_soon(w)
        \/ drop_requests(w) \/ pop_request(w))
  BY <1>2 DEF service_start, app_writes, app_raises, write_soon, put, wait_returns,
     finish, flush_before_next, close_soon, drop_requests, pop_request
<1>9. ~next_request(w) /\ ~service_ends(w)
  BY <1>1, <1>3 DEF next_request, service_ends, Go, Shapes
<1> QED
  BY <1>6, <1>7, <1>8, <1>9 DEF WorkerStep

\* After shutdown() nobody takes the channel up any more.
LEMMA StoppedStays ==
    ASSUME IInv, FInv, pc[Main] = "stopped", NoServant, ~connected, [Next]_vars
    PROVE  pc'[Main] = "stopped" /\ NoServant'
<1>1. ~(MainStep \/ select_times_out \/ interrupt)
  BY MainDoesNotClose DEF handle_close, dispatcher_close
<1>2. pc'[Main] = "stopped"
  BY <1>1, MainStaysOr
<1>3. ASSUME NEW w \in Workers, InService(w)' PROVE FALSE
  <2>1. take_task(w)
    BY <1>3, OnlyTakesServe DEF NoServant
  <2> QED
    BY <2>1 DEF take_task
<1>4. tasks' = tasks
  <2>1. CASE UNCHANGED vars \/ ClientStep
    BY <2>1 DEF vars, ClientStep, client_sends, client_reads, client_leaves,
                time_passes, server
  <2>2. ASSUME NEW w \in Workers, WorkerStep(w) PROVE tasks' = tasks
    <3>1. CASE flush_some(w) \/ send_continue(w) \/ handle_close(w) \/ dispatcher_close(w)
      BY <3>1, FlushLeavesAlone, ThreadKinds
    <3>2. ~take_task(w)
      BY DEF take_task
    <3>3. CASE next_request(w)
      BY <3>3 DEF next_request
    <3>4. CASE \/ service_start(w) \/ app_writes(w) \/ app_raises(w) \/ write_soon(w)
               \/ put(w) \/ wait_returns(w) \/ finish(w) \/ flush_before_next(w)
               \/ close_soon(w) \/ drop_requests(w) \/ pop_request(w) \/ service_ends(w)
      BY <3>4 DEF service_start, app_writes, app_raises, write_soon, put, wait_returns,
         finish, flush_before_next, close_soon, drop_requests, pop_request, service_ends
    <3> QED
      BY <2>2, <3>1, <3>2, <3>3, <3>4 DEF WorkerStep
  <2> QED
    BY <1>1, <2>1, <2>2 DEF Next
<1> QED
  BY <1>2, <1>3, <1>4 DEF NoServant

LEMMA NothingHeldNext ==
    ASSUME IInv, FInv, Typed, ContinuesInTime, NothingHeld, [Next]_vars
    PROVE  NothingHeld'
<1>1. total \in Int /\ total' \in Int
  BY TypedNext DEF Typed, BuffersTyped
<1>2. CASE ~connected
  <2>1. total =< 0 => total' =< 0
    BY <1>1, <1>2, TotalFalls
  <2>2. pc[Main] = "stopped" /\ NoServant => pc'[Main] = "stopped" /\ NoServant'
    BY <1>2, StoppedStays
  <2> QED
    BY <1>2, <2>1, <2>2 DEF NothingHeld
<1>3. CASE connected /\ ~connected'
  <2>1. CASE handle_close(Main)
    BY <2>1, NobodyRaces, ThreadKinds DEF handle_close, NewTotal, Unraced, NothingHeld
  <2>2. CASE shutdown
    <3>1. tasks > 0 /\ tasks' = 0
      BY <1>3, <2>2 DEF shutdown
    <3>2. \A w \in Workers : ~InService(w)
      BY <3>1 DEF IInv, Service, NoServant, Servant
    <3>3. \A w \in Workers : ~InService(w)'
      BY <2>2, <3>2, OnlyTakesServe DEF take_task, shutdown
    <3>4. pc'[Main] = "stopped"
      BY <2>2, ThreadKinds DEF shutdown, Go, IInv, Shapes
    <3> QED
      BY <3>1, <3>3, <3>4 DEF NothingHeld, NoServant
  <2> QED
    BY <1>3, <2>1, <2>2, WhoCloses DEF dispatcher_close, shared
<1> QED
  BY <1>2, <1>3 DEF NothingHeld

LEMMA HeldInit == Init => NothingHeld
BY DEF Init, NothingHeld

----------------------------------------------------------------------------
(* Workers that flush, and those that wait, when the channel is closed *)

LEMMA FlushersServe ==
    ASSUME FInv, IInv, NEW w \in Workers, pc[w] \in InFlush \union {"waiting", "relock", "put"}
    PROVE  InService(w)
BY ThreadKinds DEF FInv, InPlace, IInv, Shapes, InService, InFlush

\* How a worker comes to flush, or to wait.
LEMMA FlushesConnectedNext ==
    ASSUME IInv, FInv, Typed, NothingHeld, NoLateFlush, FlushesConnected, [Next]_vars
    PROVE  FlushesConnected'
<1> DEFINE Flushes == InFlush \union {"waiting"}
<1>1. Shapes /\ Hwm \in Nat /\ total \in Int
  BY LimitsTyped DEF IInv, Typed, BuffersTyped
<1>2. SUFFICES ASSUME NEW w \in Workers, pc'[w] \in Flushes, ~connected' PROVE FALSE
  BY DEF FlushesConnected
<1>3. w \in Threads /\ w # Main
  BY ThreadKinds
<1>4. CASE pc[w] \in Flushes
  <2>1. connected
    BY <1>4 DEF FlushesConnected
  <2>2. InService(w)
    BY <1>4, FlushersServe
  <2>3. CASE handle_close(Main)
    <3>1. pc[w] \notin InFlush
      <4>1. outbuf_lock # w
        BY <1>3, <2>3, ThreadKinds DEF handle_close, CanTakeOutbufs
      <4> QED
        BY <1>3, <4>1 DEF FInv, OutLockIsHeld, HoldsOutbufs, InPlace
    <3>2. pc[w] = "waiting"
      BY <1>4, <3>1
    <3>3. pc'[w] = "relock"
      BY <1>1, <1>3, <2>3, <3>2 DEF handle_close, Notify, Waiters, Shapes
    <3> QED
      BY <1>2, <3>3 DEF InFlush
  <2>4. CASE shutdown
    <3>1. tasks > 0
      BY <1>2, <2>1, <2>4 DEF shutdown
    <3> QED
      BY <2>2, <3>1 DEF IInv, Service, NoServant, Servant
  <2> QED
    BY <1>2, <2>1, <2>3, <2>4, WhoCloses DEF dispatcher_close, shared
<1>5. CASE pc[w] \notin Flushes
  <2>1. ASSUME NEW t \in Threads, Moves(t) PROVE t = w
    BY <1>2, <1>3, <1>5, <2>1 DEF Moves, InFlush
  <2>2. WorkerStep(w)
    <3>1. ~UNCHANGED vars /\ ~ClientStep
      BY <1>2, <1>5 DEF vars, ClientStep, client_sends, client_reads, client_leaves,
                    time_passes, server
    <3>2. ~(MainStep \/ select_times_out \/ interrupt)
      BY <1>1, <1>3, <2>1, MainMoves, ThreadKinds
    <3>3. \A v \in Workers : WorkerStep(v) => v = w
      BY <1>1, <2>1, WorkerMovesOnly, ThreadKinds
    <3> QED
      BY <3>1, <3>2, <3>3 DEF Next
  <2>3. ~flush_some(w) /\ ~send_continue(w) /\ ~handle_close(w) /\ ~dispatcher_close(w)
    <3>1. ~send_continue(w) /\ ~handle_close(w) /\ ~dispatcher_close(w)
      BY <1>3 DEF send_continue, handle_close, dispatcher_close, FInv, InPlace, WorkerPlaces
    <3>2. ~flush_some(w)
      BY <1>5 DEF flush_some, flush_top, send_some, send_nothing,
         flush_skip, flush_deduct, SentOn,
         flush_return, flush_raise, InFlush
    <3> QED
      BY <3>1, <3>2
  <2>4. ~(take_task(w) \/ service_start(w) \/ app_writes(w) \/ app_raises(w) \/ finish(w)
          \/ close_soon(w) \/ drop_requests(w) \/ pop_request(w) \/ next_request(w)
          \/ service_ends(w))
    <3> SUFFICES ASSUME take_task(w) \/ service_start(w) \/ app_writes(w) \/ app_raises(w)
                        \/ finish(w) \/ close_soon(w) \/ drop_requests(w) \/ pop_request(w)
                        \/ next_request(w) \/ service_ends(w)
                 PROVE  FALSE
      OBVIOUS
    <3>1. pc' = pc \/ \E p \in {"service", "app", "write_soon", "finish", "close_soon",
                  "flush_fin", "pop", "drop", "last", "next", "idle", "continue"} :
                      pc' = [pc EXCEPT ![w] = p]
      BY DEF take_task, service_start, app_writes, app_raises, finish,
         close_soon, drop_requests, pop_request, next_request, service_ends, Go
    <3> QED
      BY <1>1, <1>2, <1>3, <1>5, <3>1 DEF Shapes, InFlush
  <2>5. CASE write_soon(w)
    <3>1. ~connected /\ pc[w] = "write_soon"
      BY <1>2, <2>5 DEF write_soon, shared
    <3>2. total > Hwm
      BY <1>1, <1>2, <1>3, <2>5 DEF write_soon, Go, Shapes, InFlush
    <3>3. NoServant
      BY <1>1, <3>1, <3>2 DEF NothingHeld
    <3>4. InService(w)
      BY <1>1, <1>3, <3>1 DEF InService, Shapes, InFlush
    <3> QED
      BY <3>3, <3>4 DEF NoServant
  <2>6. CASE put(w)
    <3>1. ~connected
      BY <1>2, <2>6 DEF put, shared
    <3>2. pc' = [pc EXCEPT ![w] = "finish"]
      BY <2>6, <3>1 DEF put, LeftMeanwhile, Go
    <3> QED
      BY <1>1, <1>2, <1>3, <3>2 DEF Shapes, InFlush
  <2>7. CASE wait_returns(w)
    <3>1. ~connected
      BY <1>2, <2>7 DEF wait_returns, shared
    <3>2. \E p \in {"put", "pop"} : pc' = [pc EXCEPT ![w] = p]
      BY <2>7, <3>1 DEF wait_returns, TestHwm, BelowHwm, Go
    <3> QED
      BY <1>1, <1>2, <1>3, <3>2 DEF Shapes, InFlush
  <2>8. CASE flush_before_next(w)
    BY <1>2, <2>8 DEF flush_before_next, shared, NoLateFlush
  <2> QED
    BY <2>2, <2>3, <2>4, <2>5, <2>6, <2>7, <2>8 DEF WorkerStep
<1> QED
  BY <1>4, <1>5

LEMMA FlushesConnectedInit == Init => FlushesConnected
BY ThreadKinds DEF Init, FlushesConnected, InFlush

\* A worker that pauses at the watermark is notified, or is to be: the channel is
\* connected as long as anyone waits (channel.py:399-417 and 320).  The hypotheses
\* are what the findings ClosedByWorker and PausedAfterClose are about.
THEOREM PausedWorkersAreHeard ==
    Spec /\ []ContinuesInTime /\ []NoLateFlush => []PausedIsHeard
<1>1. Init => NothingHeld /\ FlushesConnected
  BY HeldInit, FlushesConnectedInit
<1>2. IInv /\ FInv /\ Typed /\ ContinuesInTime /\ NoLateFlush /\ NothingHeld
          /\ FlushesConnected /\ [Next]_vars => NothingHeld' /\ FlushesConnected'
  BY NothingHeldNext, FlushesConnectedNext
<1>3. FInv /\ FlushesConnected => PausedIsHeard
  BY ThreadKinds DEF FlushesConnected, PausedIsHeard, Waiters, FInv, InPlace, MainPlaces, InFlush
<1> QED
  BY <1>1, <1>2, <1>3, InvAlways, TypedAlways, FInvAlways, PTL DEF Spec

----------------------------------------------------------------------------
(* A flush that is between two of its steps *)

Open(bs) == \A i \in 1 .. Len(bs) : bs[i].stage # "shut"

\* The buffers of a connected channel can be used.
BuffersOpen == connected => Open(outbufs)

\* The locals of _flush_some are up to date: the outbuf is the first one, outbuflen
\* is its length, and num_sent is at most that.
Working(t) ==
    /\ pc[t] \in {"send", "skip"} =>
           /\ flush[t].ref = popped + 1
           /\ flush[t].len = Len(outbufs[1].data) /\ flush[t].len # 0
    /\ pc[t] = "skip" => flush[t].num \in 1 .. flush[t].len

LEMMA MinOfTwo ==
    ASSUME NEW a \in Int, NEW b \in Int
    PROVE  Min({a, b}) \in {a, b} /\ Min({a, b}) =< b
<1>1. \E x \in {a, b} : \A y \in {a, b} : x =< y
  <2>1. CASE a =< b
    BY <2>1
  <2>2. CASE b =< a
    BY <2>2
  <2> QED
    BY <2>1, <2>2
<1>2. Min({a, b}) \in {a, b} /\ \A y \in {a, b} : Min({a, b}) =< y
  BY <1>1 DEF Min
<1> QED
  BY <1>2

\* What flush_top finds.
LEMMA TopShows ==
    ASSUME Shapes, BuffersTyped, NEW t \in Threads, flush_top(t)
    PROVE  \E n \in Nat, bs \in Seq(Buffer) :
              /\ outbufs' = bs /\ popped' = popped + n
              /\ Len(bs) \in Nat /\ Len(bs) = Len(outbufs) - n
              /\ 1 \in 1 .. Len(bs)
              /\ \A i \in 1 .. Len(bs) : n + i \in 1 .. Len(outbufs) /\ bs[i] = outbufs[n + i]
              /\ flush'[t].ref = popped' + 1 /\ flush'[t].len = Len(bs[1].data)
              /\ pc'[t] = "send" => bs[1].data # <<>>
<1> DEFINE left == SelectInSeq(outbufs, LAMBDA b : b.data # <<>>)
           n == IF left = 0 THEN Len(outbufs) - 1 ELSE left - 1
           len == Len(outbufs[n + 1].data)
           bs == SubSeq(outbufs, n + 1, Len(outbufs))
<1>1. /\ outbufs' = bs /\ popped' = popped + n
      /\ flush' = [flush EXCEPT ![t].ref = popped + n + 1, ![t].len = len]
  BY DEF flush_top
<1>2. pc' = [pc EXCEPT ![t] = IF left = 0 THEN "flushed" ELSE "send"]
  BY DEF flush_top, Go
<1>3. outbufs \in Seq(Buffer) /\ Len(outbufs) \in Nat \ {0} /\ popped \in Nat
  BY BufferedTyped DEF BuffersTyped
<1>4. \/ left = 0
      \/ left \in 1 .. Len(outbufs) /\ outbufs[left].data # <<>>
  BY <1>3, FirstUnsent
<1>5. pc'[t] = "send" => left # 0
  BY <1>2 DEF Shapes
<1> HIDE DEF left
<1>6. n \in 0 .. Len(outbufs) /\ n + 1 \in 1 .. Len(outbufs)
      /\ (left # 0 => n + 1 = left)
  BY <1>3, <1>4
<1> HIDE DEF n, bs
<1>7. /\ bs \in Seq(Buffer) /\ Len(bs) = Len(outbufs) - n
      /\ \A i \in 1 .. Len(outbufs) - n : bs[i] = outbufs[n + i]
  BY <1>3, <1>6, HeldSplit DEF bs
<1>8. Len(bs) \in Nat /\ 1 \in 1 .. Len(bs)
      /\ \A i \in 1 .. Len(bs) : n + i \in 1 .. Len(outbufs)
  BY <1>3, <1>6, <1>7
<1>9. bs[1] = outbufs[n + 1]
  BY <1>3, <1>6, <1>7, <1>8
<1>10. pc'[t] = "send" => bs[1].data # <<>>
  BY <1>4, <1>5, <1>6, <1>9
<1>11. flush'[t].ref = popped + n + 1 /\ flush'[t].len = len
  BY <1>1 DEF Shapes, FlushFields
<1> HIDE DEF len
<1>12. len = Len(bs[1].data)
  BY <1>9 DEF len
<1>13. flush'[t].ref = popped' + 1
  BY <1>1, <1>3, <1>6, <1>11
<1>14. \A i \in 1 .. Len(bs) : bs[i] = outbufs[n + i]
  BY <1>7
<1>15. n \in Nat
  BY <1>6
<1> QED
  BY <1>1, <1>7, <1>8, <1>10, <1>11, <1>12, <1>13, <1>14, <1>15

\* The first buffer, of which something was sent, gets shorter.
LEMMA SkipShows ==
    ASSUME Shapes, BuffersTyped, NEW t \in Threads, Working(t), flush_skip(t), ~Racing(t)
    PROVE  \/ pc'[t] = "raised" /\ outbufs[1].stage = "shut"
              /\ UNCHANGED <<outbufs, popped, flush, total>>
           \/ \E b \in Buffer :
                 /\ outbufs' = With(outbufs, 1, b) /\ popped' = popped
                 /\ outbufs' \in Seq(Buffer) /\ Len(outbufs') = Len(outbufs)
                 /\ outbufs'[1] = b
                 /\ \A i \in 1 .. Len(outbufs) : i # 1 => outbufs'[i] = outbufs[i]
                 /\ outbufs[1].stage # "shut" /\ b.stage # "shut"
                 /\ flush[t].num \in 1 .. Len(outbufs[1].data)
                 /\ b.data = SubSeq(outbufs[1].data, flush[t].num + 1, Len(outbufs[1].data))
                 /\ flush'[t].ref = flush[t].ref
                 /\ flush'[t].len = Len(b.data) /\ Len(b.data) \in Nat
                 /\ pc'[t] = "send" => Len(b.data) # 0
                 /\ pc'[t] \in {"send", "top"}
<1> DEFINE n == flush[t].num
           len == flush[t].len
           o == outbufs[1]
<1>1. /\ pc[t] = "skip" /\ flush[t].ref = popped + 1 /\ len = Len(o.data)
      /\ n \in 1 .. len /\ popped \in Nat /\ len # 0
  BY DEF flush_skip, Working, BuffersTyped
<1>2. outbufs \in Seq(Buffer) /\ 1 \in 1 .. Len(outbufs)
  BY BufferedTyped DEF BuffersTyped
<1>3. o \in Buffer /\ len \in Nat
  <2>1. o \in Buffer
    BY <1>2, ElementOfSeq
  <2> QED
    BY <1>1, <2>1, LenProperties DEF Buffer
<1>4. flush[t].ref - popped = 1 /\ ~(flush[t].ref =< popped)
  BY <1>1
<1>5. Current(t) = o /\ (Gone(t) <=> o.stage = "shut")
  BY <1>4 DEF Current, Gone
<1>6. n \in Nat /\ ~(Len(o.data) < n) /\ n \in 0 .. Len(o.data)
  BY <1>1, <1>3
<1>7. CASE o.stage = "shut"
  <2>1. pc' = [pc EXCEPT ![t] = "raised"] /\ UNCHANGED <<outbufs, popped, flush, total>>
    BY <1>5, <1>7 DEF flush_skip, Go
  <2>2. pc'[t] = "raised"
    BY <2>1 DEF Shapes
  <2> QED
    BY <1>7, <2>1, <2>2
<1>8. CASE o.stage # "shut"
  <2> DEFINE b == Skipped(o, n)
             f == [flush EXCEPT ![t].len = @ - n, ![t].num = 0, ![t].sent = TRUE]
  <2>1. /\ outbufs' = With(outbufs, 1, b) /\ popped' = popped /\ flush' = f
        /\ pc' = [pc EXCEPT ![t] = IF len > n THEN "send" ELSE "top"]
    BY <1>4, <1>5, <1>6, <1>8 DEF flush_skip, SentOn, With, Go
  <2>2. b \in Buffer /\ Len(b.data) = Len(o.data) - n
    BY <1>3, <1>6, SkippedTyped
  <2>3. b.stage # "shut"
    BY <1>8 DEF Skipped
  <2>9. b.data = SubSeq(o.data, n + 1, Len(o.data))
    BY DEF Skipped
  <2>4. flush'[t].ref = flush[t].ref /\ flush'[t].len = len - n
    BY <2>1 DEF Shapes, FlushFields
  <2> HIDE DEF b, f
  <2>5. /\ outbufs' \in Seq(Buffer) /\ Len(outbufs') = Len(outbufs) /\ outbufs'[1] = b
        /\ \A i \in 1 .. Len(outbufs) : i # 1 => outbufs'[i] = outbufs[i]
    <3> DEFINE as == With(outbufs, 1, b)
    <3>1. as \in Seq(Buffer) /\ Len(as) = Len(outbufs) /\ as[1] = b
      BY <1>2, <2>2, HeldReplace
    <3>2. \A i \in 1 .. Len(outbufs) : i # 1 => as[i] = outbufs[i]
      BY <1>2, <2>2, HeldReplace
    <3> QED
      BY <2>1, <3>1, <3>2
  <2>6. pc'[t] = IF len > n THEN "send" ELSE "top"
    BY <2>1 DEF Shapes
  <2>7. Len(b.data) = len - n
    BY <1>1, <2>2
  <2> HIDE DEF o, n, len
  <2>8. Len(b.data) \in Nat /\ (len > n => Len(b.data) # 0)
    BY <1>1, <1>3, <2>7
  <2>10. /\ outbufs' = With(outbufs, 1, b) /\ popped' = popped
         /\ outbufs' \in Seq(Buffer) /\ Len(outbufs') = Len(outbufs)
         /\ outbufs'[1] = b
         /\ \A i \in 1 .. Len(outbufs) : i # 1 => outbufs'[i] = outbufs[i]
    BY <2>1, <2>5
  <2>11. /\ outbufs[1].stage # "shut" /\ b.stage # "shut"
         /\ flush[t].num \in 1 .. Len(outbufs[1].data)
         /\ b.data = SubSeq(outbufs[1].data, flush[t].num + 1, Len(outbufs[1].data))
    BY <1>1, <1>8, <2>3, <2>9 DEF o, n
  <2>12. /\ flush'[t].ref = flush[t].ref
         /\ flush'[t].len = Len(b.data) /\ Len(b.data) \in Nat
    BY <2>4, <2>7, <2>8
  <2>13. (pc'[t] = "send" => Len(b.data) # 0) /\ pc'[t] \in {"send", "top"}
    BY <2>6, <2>8
  <2> QED
    BY <2>2, <2>10, <2>11, <2>12, <2>13
<1> QED
  BY <1>7, <1>8

\* Who changes the buffers.
LEMMA WhoChangesBuffers ==
    ASSUME [Next]_vars
    PROVE  \/ UNCHANGED <<outbufs, popped>>
           \/ \E t \in Threads : \/ flush_top(t) \/ flush_skip(t)
                                 \/ handle_close(t) \/ send_continue(t)
           \/ \E w \in Workers : put(w)
<1>1. CASE UNCHANGED vars \/ ClientStep
  BY <1>1 DEF vars, ClientStep, client_sends, client_reads, client_leaves,
              time_passes, server, buffers
<1>2. ASSUME NEW t, send_some(t) \/ send_nothing(t) \/ flush_return(t) \/ flush_raise(t)
                    \/ flush_deduct(t) \/ dispatcher_close(t)
      PROVE  UNCHANGED <<outbufs, popped>>
  BY <1>2 DEF send_some, send_nothing, flush_deduct, flush_return, flush_raise,
     dispatcher_close, buffers
<1>3. CASE \/ server_readable \/ readable \/ writable \/ enter_select \/ select_returns
           \/ select_times_out \/ trigger_read \/ interrupt \/ handle_read
           \/ handle_write \/ after_flush \/ shutdown \/ received \/ parse \/ queue_request
  BY <1>3 DEF server_readable, readable, writable, enter_select, select_returns,
     select_times_out, trigger_read, interrupt, handle_read, handle_write,
     after_flush, shutdown, received, parse, queue_request, buffers
<1>4. ASSUME NEW w \in Workers,
             \/ take_task(w) \/ service_start(w) \/ app_writes(w) \/ app_raises(w)
             \/ write_soon(w) \/ wait_returns(w) \/ finish(w)
             \/ flush_before_next(w) \/ close_soon(w) \/ drop_requests(w)
             \/ pop_request(w) \/ next_request(w) \/ service_ends(w)
      PROVE  UNCHANGED <<outbufs, popped>>
  BY <1>4 DEF take_task, service_start, app_writes, app_raises, write_soon,
     wait_returns, finish, flush_before_next, close_soon, drop_requests,
     pop_request, next_request, service_ends, buffers
<1> QED
  BY <1>1, <1>2, <1>3, <1>4, ThreadKinds DEF Next, MainStep, WorkerStep, flush_some

\* The buffers that a thread sends from are not changed by others.
LEMMA OthersKeepBuffers ==
    ASSUME IInv, FInv, [Next]_vars, NEW u \in Threads, pc[u] \in {"send", "skip"}
    PROVE  UNCHANGED <<outbufs, popped>> \/ flush_skip(u)
<1>1. UsingOutbufs(u)
  BY DEF UsingOutbufs, Flushing
<1>2. ASSUME NEW t \in Threads, flush_top(t) \/ flush_skip(t) \/ put(t) PROVE flush_skip(u)
  <2>1. UsingOutbufs(t)
    BY <1>2 DEF UsingOutbufs, Flushing, flush_top, flush_skip, put
  <2>2. t = u
    BY <1>1, <2>1, OneUser
  <2> QED
    BY <1>2, <2>2 DEF flush_top, put
<1>3. ASSUME NEW t \in Threads, handle_close(t) \/ send_continue(t) PROVE FALSE
  <2>1. t = Main /\ outbuf_lock \in {None, Main} /\ pc[Main] \notin {"send", "skip"}
    BY <1>3, OnlyMainCloses, ThreadKinds
       DEF handle_close, send_continue, CanTakeOutbufs, FInv, InPlace, WorkerPlaces
  <2>2. u \in Workers /\ outbuf_lock = u
    BY <2>1, ThreadKinds DEF FInv, InPlace, OutLockIsHeld, HoldsOutbufs, InFlush
  <2> QED
    BY <2>1, <2>2, ThreadKinds
<1> QED
  BY <1>2, <1>3, WhoChangesBuffers, ThreadKinds

\* A thread comes to "send" and "skip" within its flush only.
LEMMA OnlyFlushSends ==
    ASSUME IInv, FInv, [Next]_vars, NEW u \in Threads, pc'[u] \in {"send", "skip"}
    PROVE  \/ flush_top(u) \/ send_some(u) \/ flush_skip(u)
           \/ pc'[u] = pc[u] /\ flush'[u] = flush[u]
<1>1. Shapes
  BY DEF IInv
<1>2. ASSUME NEW t \in Threads, Moves(t), t # u
      PROVE  pc'[u] = pc[u] /\ flush'[u] = flush[u]
  BY <1>2 DEF Moves
<1>3. CASE UNCHANGED vars \/ ClientStep
  BY <1>3 DEF vars, ClientStep, client_sends, client_reads, client_leaves,
              time_passes, server
<1>4. CASE flush_some(u) \/ send_continue(u) \/ handle_close(u) \/ dispatcher_close(u)
  <2>1. ~send_nothing(u)
    BY <1>1 DEF send_nothing, Go, Shapes
  <2>2. ~flush_return(u) /\ ~flush_raise(u)
    BY <1>1, ReturnMoves, RaiseMoves DEF Within, Leaves
  <2>3. ~send_continue(u) /\ ~handle_close(u) /\ ~dispatcher_close(u)
    BY <1>1, ContinueMoves, CloseMoves, DispatcherCloseMoves DEF Within
  <2> QED
    BY <1>4, <2>1, <2>2, <2>3, NobodyRaces DEF flush_some, flush_deduct, Unraced
<1>5. CASE u = Main /\ (MainStep \/ select_times_out \/ interrupt)
  <2>1. ~(\/ server_readable \/ readable \/ writable \/ enter_select \/ select_returns
          \/ select_times_out \/ trigger_read \/ interrupt)
    BY <1>1, <1>5 DEF server_readable, readable, writable, enter_select, select_returns,
       select_times_out, trigger_read, interrupt, Go, Shapes
  <2>2. ~(\/ handle_read \/ handle_write \/ after_flush \/ shutdown \/ received \/ parse
          \/ queue_request)
    BY <1>1, <1>5 DEF handle_read, handle_write, after_flush, shutdown, received, parse,
       queue_request, Go, Shapes
  <2> QED
    BY <1>4, <1>5, <2>1, <2>2 DEF MainStep
<1>6. CASE u \in Workers /\ WorkerStep(u)
  <2>1. ~(\/ take_task(u) \/ service_start(u) \/ app_writes(u) \/ write_soon(u)
          \/ put(u) \/ wait_returns(u) \/ finish(u) \/ flush_before_next(u))
    BY <1>1 DEF take_task, service_start, app_writes, write_soon, put, wait_returns,
       TestHwm, BelowHwm, PauseAtHwm, finish, flush_before_next, Go, Shapes
  <2>2. ~(\/ close_soon(u) \/ drop_requests(u) \/ pop_request(u) \/ next_request(u)
          \/ service_ends(u) \/ app_raises(u))
    BY <1>1 DEF close_soon, drop_requests, pop_request, next_request, service_ends,
       app_raises, Go, Shapes
  <2> QED
    BY <1>4, <1>6, <2>1, <2>2 DEF WorkerStep
<1> QED
  BY <1>1, <1>2, <1>3, <1>5, <1>6, MainMoves, WorkerMovesOnly, ThreadKinds DEF Next

LEMMA WorkingNext ==
    ASSUME IInv, FInv, Typed, \A t \in Threads : Working(t), [Next]_vars,
           NEW u \in Threads
    PROVE  Working(u)'
<1>1. SUFFICES ASSUME pc'[u] \in {"send", "skip"} PROVE Working(u)'
  BY DEF Working
<1>2. Shapes /\ BuffersTyped /\ Working(u) /\ popped \in Nat
  BY DEF IInv, Typed, BuffersTyped
<1>3. CASE flush_top(u)
  <2>1. PICK n \in Nat, bs \in Seq(Buffer) :
              /\ outbufs' = bs /\ 1 \in 1 .. Len(bs)
              /\ flush'[u].ref = popped' + 1 /\ flush'[u].len = Len(bs[1].data)
              /\ pc'[u] = "send" => bs[1].data # <<>>
    BY <1>2, <1>3, TopShows
  <2>2. pc'[u] = "send"
    BY <1>1, <1>2, <1>3, TopMoves DEF Within
  <2>3. bs[1] \in Buffer
    BY <2>1, ElementOfSeq
  <2>4. Len(bs[1].data) # 0
    BY <2>1, <2>2, <2>3, EmptySeq DEF Buffer
  <2> QED
    BY <2>1, <2>2, <2>4 DEF Working
<1>4. CASE send_some(u)
  <2>1. /\ pc[u] = "send" /\ ~Gone(u) /\ UNCHANGED <<outbufs, popped>>
        /\ pc' = [pc EXCEPT ![u] = "skip"]
    BY <1>4 DEF send_some, Go, buffers
  <2>2. PICK n \in 1 .. Min({room, Len(Current(u).data)}) : flush' = [flush EXCEPT ![u].num = n]
    BY <1>4 DEF send_some
  <2>3. flush'[u].num = n /\ flush'[u].ref = flush[u].ref /\ flush'[u].len = flush[u].len
    BY <1>2, <2>2 DEF Shapes, FlushFields
  <2>4. flush[u].ref - popped = 1
    BY <1>2, <2>1 DEF Working
  <2>5. Current(u) = outbufs[1]
    BY <2>4 DEF Current
  <2>6. Len(Current(u).data) \in Nat /\ room \in Nat
    BY <1>2, <2>1, CurrentTyped, LimitsTyped DEF Typed, FlagsTyped
  <2>7. n \in 1 .. Len(Current(u).data)
    <3> DEFINE l == Len(Current(u).data)
    <3>1. l \in Int /\ room \in Int
      BY <2>6
    <3> HIDE DEF l
    <3>2. Min({room, l}) =< l
      BY <3>1, MinOfTwo
    <3>3. Min({room, l}) \in Int
      BY <3>1 DEF Min
    <3>4. n \in 1 .. Min({room, l})
      BY DEF l
    <3>5. n \in 1 .. l
      BY <3>1, <3>2, <3>3, <3>4
    <3> QED
      BY <3>5 DEF l
  <2> QED
    BY <1>2, <2>1, <2>3, <2>5, <2>7 DEF Working
<1>5. CASE flush_skip(u)
  <2>4. ~Racing(u)
    BY <1>5, NobodyRaces DEF flush_skip, Unraced
  <2>1. pc'[u] = "send"
    BY <1>1, <1>2, <1>5, SkipMoves DEF Within
  <2>2. PICK b \in Buffer :
                 /\ popped' = popped /\ outbufs'[1] = b
                 /\ flush'[u].ref = flush[u].ref
                 /\ flush'[u].len = Len(b.data)
                 /\ Len(b.data) # 0
    BY <1>2, <1>5, <2>1, <2>4, SkipShows
  <2>3. flush[u].ref = popped + 1
    BY <1>2, <1>5 DEF flush_skip, Working
  <2> QED
    BY <2>1, <2>2, <2>3 DEF Working
<1>6. CASE pc'[u] = pc[u] /\ flush'[u] = flush[u] /\ ~flush_skip(u)
  <2>1. UNCHANGED <<outbufs, popped>>
    BY <1>1, <1>6, OthersKeepBuffers
  <2> QED
    BY <1>2, <1>6, <2>1 DEF Working
<1> QED
  BY <1>1, <1>3, <1>4, <1>5, <1>6, OnlyFlushSends

\* Every thread that is flushing knows the buffer that it works on.
WorkingAll == \A t \in Threads : Working(t)

LEMMA WorkingInit == Init => (\A t \in Threads : Working(t)) /\ BuffersOpen
<1> SUFFICES ASSUME Init PROVE (\A t \in Threads : Working(t)) /\ BuffersOpen
  OBVIOUS
<1>1. \A t \in Threads : pc[t] \in {"poll", "idle"}
  BY ThreadKinds DEF Init
<1>2. outbufs = <<NewBuffer>>
  BY DEF Init
<1>3. Open(outbufs)
  <2> DEFINE b == NewBuffer
             bs == <<b>>
  <2>1. b.stage # "shut"
    BY NewBufferTyped
  <2>2. bs[1] = b /\ Len(bs) = 1
    <3> HIDE DEF b
    <3> QED
      OBVIOUS
  <2>3. \A i \in 1 .. Len(bs) : bs[i] = b
    BY <2>2
  <2> HIDE DEF b
  <2> QED
    BY <1>2, <2>1, <2>3 DEF Open, b
<1> QED
  BY <1>1, <1>3 DEF Working, BuffersOpen

\* A chunk goes into buffers that can be used.
LEMMA ChunkOpen ==
    ASSUME BuffersTyped, Open(outbufs), NEW chunk \in Seq(Token), NEW size,
           NEW file \in BOOLEAN, AppendChunk(chunk, size, file)
    PROVE  Open(outbufs')
<1> DEFINE n == Len(outbufs)
<1>1. n \in Nat \ {0} /\ outbufs \in Seq(Buffer) /\ n \in 1 .. n
  BY BufferedTyped DEF BuffersTyped
<1>2. CASE file
  <2> DEFINE b == [data |-> chunk, stage |-> "file"]
             c == NewBuffer
             two == <<b, c>>
  <2>1. b \in Buffer /\ b.stage = "file" /\ c \in Buffer /\ c.stage = "str"
    BY NewBufferTyped DEF Buffer
  <2>2. outbufs' = outbufs \o two
    BY <1>2 DEF AppendChunk
  <2> HIDE DEF b, c
  <2>3. two \in Seq(Buffer) /\ Len(two) = 2 /\ two[1] = b /\ two[2] = c
    BY <2>1
  <2> HIDE DEF two
  <2>4. /\ Len(outbufs \o two) = n + 2
        /\ \A i \in 1 .. n + 2 :
              (outbufs \o two)[i] = IF i =< n THEN outbufs[i] ELSE two[i - n]
    <3>1. Len(outbufs \o two) = n + Len(two)
      BY <1>1, <2>3, ConcatProperties
    <3>2. \A i \in 1 .. n + Len(two) :
             (outbufs \o two)[i] = IF i =< n THEN outbufs[i] ELSE two[i - n]
      BY <1>1, <2>3, ConcatProperties
    <3> HIDE DEF n
    <3> QED
      BY <2>3, <3>1, <3>2
  <2>5. ASSUME NEW i \in 1 .. n + 2 PROVE (outbufs \o two)[i].stage # "shut"
    <3>1. CASE i =< n
      <4>1. i \in 1 .. n
        BY <1>1, <3>1
      <4> QED
        BY <2>4, <3>1, <4>1 DEF Open
    <3>2. CASE ~(i =< n)
      <4>1. i - n \in {1, 2}
        BY <1>1, <3>2
      <4>2. (outbufs \o two)[i] = two[i - n]
        BY <2>4, <3>2
      <4> QED
        BY <2>1, <2>3, <4>1, <4>2
    <3> QED
      BY <3>1, <3>2
  <2> QED
    BY <2>2, <2>4, <2>5 DEF Open
<1>3. CASE ~file
  <2> DEFINE bs == IF cur >= Hwm THEN Append(outbufs, NewBuffer) ELSE outbufs
             m == Len(bs)
             o == bs[m]
             data == o.data \o chunk
             stage == IF o.stage = "str" /\ Len(data) >= StrLimit THEN "buf" ELSE o.stage
             b == [data |-> data, stage |-> stage]
             as == [bs EXCEPT ![m] = b]
  <2>1. bs \in Seq(Buffer) /\ m \in 1 .. m /\ Open(bs) /\ m \in Nat
    <3>1. CASE cur >= Hwm
      <4> DEFINE q == Append(outbufs, NewBuffer)
      <4>1. /\ q \in Seq(Buffer) /\ Len(q) = n + 1 /\ q[n + 1] = NewBuffer
            /\ \A i \in 1 .. n : q[i] = outbufs[i]
        BY <1>1, NewBufferTyped, HeldAppend
      <4>2. bs = q
        BY <3>1
      <4> HIDE DEF q, bs
      <4>3. \A i \in 1 .. n + 1 : i \in 1 .. n \/ i = n + 1
        BY <1>1
      <4>4. Open(q)
        BY <4>1, <4>3, NewBufferTyped DEF Open
      <4> QED
        BY <1>1, <4>1, <4>2, <4>4
    <3>2. CASE ~(cur >= Hwm)
      <4>1. bs = outbufs
        BY <3>2
      <4> HIDE DEF bs
      <4> QED
        BY <1>1, <4>1
    <3> QED
      BY <3>1, <3>2
  <2>2. outbufs' = as
    BY <1>3 DEF AppendChunk, Appended
  <2> HIDE DEF bs
  <2>3. o.stage # "shut"
    BY <2>1 DEF Open
  <2>4. b.stage # "shut"
    BY <2>3
  <2> HIDE DEF b
  <2>5. DOMAIN bs = 1 .. m
    BY <2>1, LenProperties
  <2>6. DOMAIN as = 1 .. m
    BY <2>5
  <2>7. b \in Buffer
    <3>1. o \in Buffer
      BY <2>1, ElementOfSeq
    <3> HIDE DEF o
    <3>2. o.data \in Seq(Token) /\ o.stage \in {"str", "buf", "file", "shut"}
      BY <3>1 DEF Buffer
    <3>3. data \in Seq(Token)
      BY <3>2, ConcatProperties
    <3> HIDE DEF data
    <3>4. stage \in {"str", "buf", "file", "shut"}
      BY <3>2
    <3> HIDE DEF stage
    <3> QED
      BY <3>3, <3>4 DEF b, Buffer
  <2>8. Len(as) = m
    BY <2>1, <2>7, HeldReplace DEF With
  <2>9. \A i \in 1 .. m : as[i] = IF i = m THEN b ELSE bs[i]
    BY <2>5
  <2> HIDE DEF as
  <2>10. Open(as)
    BY <2>1, <2>4, <2>8, <2>9 DEF Open
  <2> QED
    BY <2>2, <2>10
<1> QED
  BY <1>2, <1>3

LEMMA OpenNext ==
    ASSUME IInv, FInv, Typed, WorkingAll, BuffersOpen, [Next]_vars
    PROVE  BuffersOpen'
<1>1. /\ Shapes /\ BuffersTyped /\ JobsTyped /\ request.id \in Nat /\ connected \in BOOLEAN
      /\ outbufs \in Seq(Buffer) /\ Len(outbufs) \in Nat
  BY BufferedTyped DEF IInv, Typed, BuffersTyped, RequestsTyped, FlagsTyped
<1>2. SUFFICES ASSUME connected' PROVE Open(outbufs')
  BY DEF BuffersOpen
<1>3. connected /\ Open(outbufs)
  BY <1>1, <1>2, NeverReconnected DEF BuffersOpen
<1>4. ASSUME NEW t \in Threads, flush_top(t) PROVE Open(outbufs')
  <2>1. PICK n \in Nat, bs \in Seq(Buffer) :
              /\ outbufs' = bs
              /\ \A i \in 1 .. Len(bs) : n + i \in 1 .. Len(outbufs) /\ bs[i] = outbufs[n + i]
    BY <1>1, <1>4, TopShows
  <2> QED
    BY <1>3, <2>1 DEF Open
<1>5. ASSUME NEW t \in Threads, flush_skip(t) PROVE Open(outbufs')
  <2>3. ~Racing(t)
    BY <1>5, NobodyRaces DEF flush_skip, Unraced
  <2>1. CASE outbufs' = outbufs
    BY <1>3, <2>1
  <2>2. CASE outbufs' # outbufs
    <3>1. PICK b \in Buffer :
                 /\ Len(outbufs') = Len(outbufs) /\ outbufs'[1] = b
                 /\ \A i \in 1 .. Len(outbufs) : i # 1 => outbufs'[i] = outbufs[i]
                 /\ b.stage # "shut"
      BY <1>1, <1>5, <2>2, <2>3, SkipShows DEF WorkingAll
    <3> QED
      BY <1>3, <3>1 DEF Open
  <2> QED
    BY <2>1, <2>2
<1>6. ASSUME NEW t \in Threads, send_continue(t) PROVE Open(outbufs')
  <2> DEFINE n == Len(outbufs)
             a == <<request.id, 0>>
  <2>1. n \in 1 .. n /\ Last1(outbufs).stage # "shut"
    BY <1>3, BufferedTyped, <1>1 DEF Open, Last1
  <2>2. outbufs' = [outbufs EXCEPT ![n] = Appended(@, <<a>>)]
    BY <1>6, <2>1 DEF send_continue
  <2>3. DOMAIN outbufs = 1 .. n
    BY <1>1, LenProperties
  <2>4. ASSUME NEW i \in 1 .. n PROVE outbufs'[i].stage # "shut"
    <3>1. outbufs[i].stage # "shut"
      BY <1>3 DEF Open
    <3>2. CASE i # n
      BY <2>2, <2>3, <3>1, <3>2
    <3>3. CASE i = n
      <4>1. outbufs'[i] = Appended(outbufs[i], <<a>>)
        BY <2>2, <2>3, <3>3
      <4> QED
        BY <3>1, <4>1 DEF Appended
    <3> QED
      BY <3>2, <3>3
  <2>5. Len(outbufs') = n
    <3>1. DOMAIN outbufs' = 1 .. n
      BY <2>2, <2>3
    <3>2. outbufs' \in Seq(Buffer)
      BY <1>1, <1>6, ContinueBuffers DEF BuffersTyped
    <3> DEFINE m == Len(outbufs')
    <3>3. m \in Nat /\ 1 .. m = 1 .. n
      BY <3>1, <3>2, LenProperties
    <3> HIDE DEF m, n
    <3>4. m = n
      BY <1>1, <3>3 DEF n
    <3> QED
      BY <3>4 DEF m
  <2> QED
    BY <2>4, <2>5 DEF Open
<1>7. ASSUME NEW w \in Workers, put(w) PROVE Open(outbufs')
  <2> DEFINE c == Head(job[w].todo)
             chunk == Tokens(job[w].id, job[w].k, c.size)
  <2>1. job[w] \in Jobs /\ job[w].todo # <<>>
    BY <1>1, <1>7, ThreadKinds DEF put, JobsTyped, Chunked
  <2>2. c \in Writes /\ job[w].id \in Nat /\ job[w].k \in Nat
    <3>1. job[w].todo \in Seq(Writes) /\ job[w].id \in Nat /\ job[w].k \in Nat
      BY <2>1 DEF Jobs
    <3> QED
      BY <2>1, <3>1, HeadTailProperties
  <2>3. c.size \in Nat /\ c.file \in BOOLEAN
    BY <2>2 DEF Writes
  <2>4. AppendChunk(chunk, c.size, c.file)
    BY <1>3, <1>7 DEF put, LeftMeanwhile
  <2> HIDE DEF c
  <2>5. chunk \in Seq(Token)
    BY <2>2, <2>3, TokensTyped
  <2> QED
    BY <1>1, <1>3, <2>3, <2>4, <2>5, ChunkOpen
<1>8. ASSUME NEW t \in Threads, handle_close(t) PROVE FALSE
  BY <1>2, <1>8 DEF handle_close
<1> QED
  BY <1>3, <1>4, <1>5, <1>6, <1>7, <1>8, WhoChangesBuffers

----------------------------------------------------------------------------
(* Why main closes a channel *)

\* A flush fails, or finds the client gone, only if the channel or the client is.
FailsFor == \A t \in Threads : pc[t] \in {"raised", "fclose"} => ~connected \/ peer # "open"

\* Nobody else moves a thread, except out of a wait.
LEMMA OwnStep ==
    ASSUME IInv, [Next]_vars, NEW u \in Threads, pc'[u] # pc[u], pc'[u] # "relock"
    PROVE  \/ u = Main /\ (MainStep \/ select_times_out \/ interrupt)
           \/ u \in Workers /\ WorkerStep(u)
<1>1. Shapes
  BY DEF IInv
<1>2. ASSUME NEW t \in Threads, Moves(t) PROVE t = u
  BY <1>2 DEF Moves
<1>3. ~UNCHANGED vars /\ ~ClientStep
  BY DEF vars, ClientStep, client_sends, client_reads, client_leaves, time_passes, server
<1> QED
  BY <1>1, <1>2, <1>3, MainMoves, WorkerMovesOnly, ThreadKinds DEF Next

\* What the client does to the connection is not undone.
LEMMA PeerStays ==
    ASSUME [Next]_vars, peer # "open"
    PROVE  peer' # "open"
<1>1. CASE UNCHANGED vars \/ client_sends \/ client_reads \/ time_passes
  BY <1>1 DEF vars, client_sends, client_reads, time_passes, client
<1>2. CASE client_leaves
  BY <1>2 DEF client_leaves
<1>3. ASSUME NEW t, flush_some(t) \/ send_continue(t) \/ handle_close(t) \/ dispatcher_close(t)
      PROVE  peer' = peer
  BY <1>3, FlushLeavesAlone DEF client
<1>4. CASE \/ server_readable \/ readable \/ writable \/ enter_select \/ select_returns
           \/ select_times_out \/ trigger_read \/ interrupt \/ handle_read
           \/ handle_write \/ after_flush \/ shutdown \/ received \/ parse \/ queue_request
  BY <1>4 DEF server_readable, readable, writable, enter_select, select_returns,
     select_times_out, trigger_read, interrupt, handle_read, handle_write,
     after_flush, shutdown, received, parse, queue_request, client
<1>5. ASSUME NEW w \in Workers, WorkerStep(w) PROVE peer' = peer
  BY <1>5, WorkersLeaveAlone DEF client
<1> QED
  BY <1>1, <1>2, <1>3, <1>4, <1>5 DEF Next, MainStep, ClientStep

\* The buffer that a thread of a connected channel works on is there.
LEMMA NotGone ==
    ASSUME Typed, BuffersOpen, NEW t \in Threads, Working(t), connected,
           pc[t] \in {"send", "skip"}
    PROVE  /\ ~Gone(t) /\ Current(t).data # <<>>
           /\ pc[t] = "skip" => ~(Len(Current(t).data) < flush[t].num)
<1>1. /\ popped \in Nat /\ flush[t].ref = popped + 1 /\ outbufs \in Seq(Buffer)
      /\ Len(outbufs) \in Nat \ {0} /\ flush[t].len = Len(outbufs[1].data)
      /\ flush[t].len # 0
  BY BufferedTyped DEF Typed, BuffersTyped, Working
<1>2. flush[t].ref - popped = 1 /\ ~(flush[t].ref =< popped) /\ 1 \in 1 .. Len(outbufs)
  BY <1>1
<1>3. Current(t) = outbufs[1] /\ outbufs[1].stage # "shut" /\ outbufs[1] \in Buffer
  BY <1>1, <1>2, ElementOfSeq DEF Current, BuffersOpen, Open
<1>4. Len(outbufs[1].data) \in Nat /\ outbufs[1].data # <<>>
  BY <1>1, <1>3, EmptySeq DEF Buffer
<1> QED
  BY <1>1, <1>2, <1>3, <1>4 DEF Gone, Working

LEMMA FailsInit == Init => FailsFor
BY ThreadKinds DEF Init, FailsFor

LEMMA FailsNext ==
    ASSUME IInv, FInv, Typed, WorkingAll, BuffersOpen, SockFollows, FailsFor, [Next]_vars
    PROVE  FailsFor'
<1>1. Shapes /\ connected \in BOOLEAN /\ SockFollows'
  BY SockNext DEF IInv, Typed, FlagsTyped
<1>2. SUFFICES ASSUME NEW t \in Threads, pc'[t] \in {"raised", "fclose"}, connected'
               PROVE  peer' # "open"
  BY DEF FailsFor
<1>3. connected
  BY <1>1, <1>2, NeverReconnected
<1>4. CASE pc'[t] = pc[t]
  BY <1>2, <1>3, <1>4, PeerStays DEF FailsFor
<1>5. CASE pc'[t] # pc[t]
  <2>1. \/ t = Main /\ (MainStep \/ select_times_out \/ interrupt)
        \/ t \in Workers /\ WorkerStep(t)
    BY <1>2, <1>5, OwnStep
  <2>2. CASE send_nothing(t)
    <3>1. pc[t] = "send" /\ ~Gone(t) /\ Current(t).data # <<>>
      BY <1>3, <2>2, NotGone DEF send_nothing, WorkingAll
    <3>2. sock = "open"
      BY <1>1, <1>3, <2>2, <3>1 DEF SockFollows, send_nothing
    <3>3. peer \in {"fail", "reset"}
      BY <1>1, <1>2, <2>2, <3>1, <3>2 DEF send_nothing, Go, Shapes
    <3> QED
      BY <3>3, PeerStays
  <2>3. CASE flush_skip(t)
    <3>1. pc[t] = "skip" /\ ~Gone(t) /\ ~(Len(Current(t).data) < flush[t].num)
      BY <1>3, <2>3, NotGone DEF flush_skip, WorkingAll
    <3>3. ~Racing(t)
      BY <3>1, NobodyRaces DEF Unraced
    <3>2. pc' = [pc EXCEPT ![t] = "send"] \/ pc' = [pc EXCEPT ![t] = "top"]
      BY <2>3, <3>1, <3>3 DEF flush_skip, SentOn, Go
    <3> QED
      BY <1>1, <1>2, <3>2 DEF Shapes
  <2>8. ~flush_deduct(t)
    BY NobodyRaces DEF flush_deduct, Unraced
  <2>4. CASE send_continue(t)
    <3>1. Last1(outbufs).stage # "shut"
      BY <1>3, BufferedTyped DEF Typed, BuffersOpen, Open
    <3> QED
      BY <1>1, <1>2, <2>4, <3>1 DEF send_continue, Go, Shapes
  <2>5. CASE flush_top(t) \/ send_some(t) \/ flush_return(t) \/ flush_raise(t)
             \/ handle_close(t) \/ dispatcher_close(t)
    <3>1. ~send_some(t)
      BY <1>1, <1>2 DEF send_some, Go, Shapes
    <3> QED
      BY <1>1, <1>2, <2>5, <3>1, TopMoves, ReturnMoves, RaiseMoves, CloseMoves,
         DispatcherCloseMoves DEF Within, Leaves
  <2>6. ASSUME t = Main, MainStep \/ select_times_out \/ interrupt,
               ~(flush_some(t) \/ send_continue(t) \/ handle_close(t) \/ dispatcher_close(t))
        PROVE  FALSE
    <3>1. ~(\/ server_readable \/ readable \/ writable \/ enter_select \/ select_returns
            \/ select_times_out \/ trigger_read \/ interrupt)
      BY <1>1, <1>2, <2>6 DEF server_readable, readable, writable, enter_select,
         select_returns, select_times_out, trigger_read, interrupt, Go, Shapes
    <3>2. ~(\/ handle_read \/ handle_write \/ after_flush \/ shutdown \/ received \/ parse
            \/ queue_request)
      BY <1>1, <1>2, <2>6 DEF handle_read, handle_write, after_flush, shutdown, received,
         parse, queue_request, Go, Shapes
    <3> QED
      BY <2>6, <3>1, <3>2 DEF MainStep
  <2>7. ASSUME t \in Workers, WorkerStep(t),
               ~(flush_some(t) \/ send_continue(t) \/ handle_close(t) \/ dispatcher_close(t))
        PROVE  FALSE
    <3>1. ~(\/ take_task(t) \/ service_start(t) \/ app_writes(t) \/ write_soon(t)
            \/ put(t) \/ wait_returns(t) \/ finish(t) \/ flush_before_next(t))
      BY <1>1, <1>2 DEF take_task, service_start, app_writes, write_soon, put,
         wait_returns, TestHwm, BelowHwm, PauseAtHwm, finish, flush_before_next, Go, Shapes
    <3>2. ~(\/ close_soon(t) \/ drop_requests(t) \/ pop_request(t) \/ next_request(t)
            \/ service_ends(t) \/ app_raises(t))
      BY <1>1, <1>2, <1>5 DEF close_soon, drop_requests, pop_request, next_request,
         service_ends, app_raises, Go, Shapes
    <3> QED
      BY <2>7, <3>1, <3>2 DEF WorkerStep
  <2> QED
    BY <2>1, <2>2, <2>3, <2>4, <2>5, <2>6, <2>7, <2>8 DEF flush_some
<1> QED
  BY <1>4, <1>5

\* What a worker has still to write, it is about to write.
ToWrite ==
    \A w \in Workers : job[w].todo # <<>> =>
        pc[w] \in {"app", "write_soon", "put"} \/ flush[w].ctx \in {"hwm", "write"}

LEMMA ToWriteInit == Init => ToWrite
<1> SUFFICES ASSUME Init PROVE ToWrite
  OBVIOUS
<1>1. \A w \in Workers : job[w].todo = <<>>
  BY DEF Init
<1> QED
  BY <1>1 DEF ToWrite

\* A job changes in a step of its worker.
LEMMA OwnJob ==
    ASSUME IInv, Typed, [Next]_vars, NEW u \in Workers, ~WorkerStep(u)
    PROVE  /\ job'[u] = job[u] /\ flush'[u] = flush[u]
           /\ pc'[u] = pc[u] \/ (pc[u] = "waiting" /\ pc'[u] = "relock")
<1>1. Shapes /\ job \in [Workers -> Jobs]
  BY DEF IInv, Typed, JobsTyped
<1>2. CASE UNCHANGED vars \/ ClientStep
  BY <1>2 DEF vars, ClientStep, client_sends, client_reads, client_leaves,
              time_passes, server
<1>3. ASSUME NEW t \in Threads, t # u,
             flush_some(t) \/ send_continue(t) \/ handle_close(t) \/ dispatcher_close(t)
      PROVE  job'[u] = job[u]
  <2>1. CASE flush_raise(t)
    <3>1. job' = job \/ job' = [job EXCEPT ![t].exc = TRUE]
      BY <2>1 DEF flush_raise, FlushRaised
    <3> QED
      BY <1>1, <1>3, <3>1
  <2>2. CASE \/ flush_top(t) \/ send_some(t) \/ send_nothing(t)
             \/ flush_skip(t) \/ flush_deduct(t)
             \/ flush_return(t) \/ handle_close(t) \/ dispatcher_close(t) \/ send_continue(t)
    BY <2>2 DEF flush_top, send_some, send_nothing,
       flush_skip, flush_deduct, SentOn, flush_return,
                handle_close, dispatcher_close, send_continue
  <2> QED
    BY <1>3, <2>1, <2>2 DEF flush_some
<1>4. CASE MainStep \/ select_times_out \/ interrupt
  <2>1. Moves(Main) /\ Main # u /\ u \in Threads /\ Main \in Threads
    BY <1>1, <1>4, MainMoves, ThreadKinds
  <2>2. CASE \/ server_readable \/ readable \/ writable \/ enter_select \/ select_returns
             \/ select_times_out \/ trigger_read \/ interrupt \/ handle_read
             \/ handle_write \/ after_flush \/ shutdown \/ received \/ parse \/ queue_request
    BY <2>1, <2>2 DEF server_readable, readable, writable, enter_select, select_returns,
       select_times_out, trigger_read, interrupt, handle_read, handle_write,
       after_flush, shutdown, received, parse, queue_request, Moves
  <2> QED
    BY <1>3, <1>4, <2>1, <2>2 DEF MainStep, Moves
<1>5. ASSUME NEW w \in Workers, WorkerStep(w), w # u
      PROVE  /\ job'[u] = job[u] /\ flush'[u] = flush[u]
             /\ pc'[u] = pc[u] \/ (pc[u] = "waiting" /\ pc'[u] = "relock")
  <2>1. Moves(w) /\ u \in Threads /\ w \in Threads
    BY <1>1, <1>5, WorkerMovesOnly, ThreadKinds
  <2>2. job'[u] = job[u]
    <3>1. CASE take_task(w) \/ write_soon(w) \/ finish(w) \/ flush_before_next(w)
               \/ close_soon(w) \/ drop_requests(w) \/ pop_request(w) \/ next_request(w)
      BY <3>1 DEF take_task, write_soon, finish, flush_before_next, close_soon,
         drop_requests, pop_request, next_request
    <3>2. CASE service_start(w) \/ service_ends(w)
      BY <1>1, <1>5, <3>2 DEF service_start, service_ends
    <3>3. CASE app_writes(w) \/ app_raises(w)
      BY <1>1, <1>5, <3>3 DEF app_writes, app_raises, GivesUp
    <3>4. CASE put(w) \/ wait_returns(w)
      BY <1>1, <1>5, <3>4 DEF put, wait_returns, GivesUp
    <3> QED
      BY <1>3, <1>5, <2>1, <3>1, <3>2, <3>3, <3>4 DEF WorkerStep
  <2> QED
    BY <1>5, <2>1, <2>2 DEF Moves
<1> QED
  BY <1>2, <1>4, <1>5 DEF Next

LEMMA ToWriteNext ==
    ASSUME IInv, FInv, Typed, ToWrite, [Next]_vars
    PROVE  ToWrite'
<1>1. /\ Shapes /\ job \in [Workers -> Jobs]
      /\ \A t \in Threads : "ctx" \in DOMAIN flush[t]
  BY DEF IInv, Typed, JobsTyped, Shapes, FlushFields
<1> DEFINE Writing(p, c) == p \in {"app", "write_soon", "put"} \/ c \in {"hwm", "write"}
<1>2. SUFFICES ASSUME NEW w \in Workers, job'[w].todo # <<>>
               PROVE  Writing(pc'[w], flush'[w].ctx)
  BY DEF ToWrite
<1>3. w \in Threads /\ w # Main /\ DOMAIN pc = Threads
  BY <1>1, ThreadKinds DEF Shapes
<1>4. job[w].todo # <<>> => Writing(pc[w], flush[w].ctx)
  BY DEF ToWrite
<1>5. CASE ~WorkerStep(w)
  BY <1>2, <1>4, <1>5, OwnJob
<1>6. CASE flush_some(w)
  <2>1. job'[w].todo = job[w].todo
    <3>1. job' = job \/ job' = [job EXCEPT ![w].exc = TRUE]
      BY <1>6 DEF flush_some, flush_top, send_some, send_nothing,
         flush_skip, flush_deduct, SentOn,
         flush_return, flush_raise, FlushRaised
    <3>2. job[w] \in Jobs
      BY <1>1
    <3>3. CASE job' = [job EXCEPT ![w].exc = TRUE]
      <4>1. job'[w] = [job[w] EXCEPT !.exc = TRUE]
        BY <1>1, <3>3
      <4> QED
        BY <3>2, <4>1 DEF Jobs
    <3> QED
      BY <3>1, <3>3
  <2>2. flush'[w].ctx = flush[w].ctx \/ pc'[w] \in {"app", "put"} \/ flush[w].ctx \notin {"hwm", "write"}
    BY <1>1, <1>3, <1>6, TopMoves, SendMoves, SkipMoves, ReturnMoves, RaiseMoves
       DEF flush_some, Within, Leaves
  <2>3. pc[w] \notin {"app", "write_soon", "put"}
    BY <1>6 DEF flush_some, flush_top, send_some, send_nothing,
       flush_skip, flush_deduct, SentOn, flush_return,
       flush_raise
  <2> QED
    BY <1>2, <1>4, <2>1, <2>2, <2>3
<1>7. CASE send_continue(w) \/ handle_close(w) \/ dispatcher_close(w)
  BY <1>3, <1>7 DEF send_continue, handle_close, dispatcher_close, FInv, InPlace, WorkerPlaces
<1>8. CASE service_start(w)
  <2>1. connected
    BY <1>1, <1>2, <1>8 DEF service_start
  <2> QED
    BY <1>3, <1>8, <2>1 DEF service_start, Go
<1>9. CASE app_writes(w)
  <2>1. job[w].todo # <<>> /\ connected
    BY <1>1, <1>2, <1>9 DEF app_writes, GivesUp, Jobs
  <2> QED
    BY <1>3, <1>9, <2>1 DEF app_writes, Go
<1>10. CASE app_raises(w)
  <2>1. job[w].k = 1
    BY <1>1, <1>2, <1>10 DEF app_raises, GivesUp, Jobs
  <2> QED
    BY <1>3, <1>10, <2>1 DEF app_raises
<1>11. CASE write_soon(w)
  <2>1. \/ pc' = [pc EXCEPT ![w] = "put"]
        \/ flush' = [flush EXCEPT ![w].ctx = "hwm"]
    BY <1>11 DEF write_soon, Go, StartFlush
  <2> QED
    BY <1>1, <1>3, <2>1 DEF Shapes
<1>12. CASE put(w)
  <2>1. connected
    BY <1>1, <1>2, <1>12 DEF put, GivesUp, LeftMeanwhile, Jobs
  <2>2. \/ pc' = [pc EXCEPT ![w] = "app"]
        \/ flush' = [flush EXCEPT ![w].ctx = "write"]
    BY <1>12, <2>1 DEF put, LeftMeanwhile, Go, StartFlush
  <2> QED
    BY <1>1, <1>3, <2>2 DEF Shapes
<1>13. CASE wait_returns(w)
  <2>1. job'[w].todo = job[w].todo /\ pc[w] = "relock"
    BY <1>1, <1>13 DEF wait_returns
  <2>2. flush[w].ctx \in {"hwm", "write"}
    BY <1>2, <1>4, <2>1
  <2>3. flush[w].ctx = "hwm"
    BY <1>3, <2>1, <2>2 DEF FInv, InPlace
  <2>4. pc' = [pc EXCEPT ![w] = "put"] \/ flush' = flush
    BY <1>13, <2>3 DEF wait_returns, BelowHwm, TestHwm, Go
  <2> QED
    BY <1>1, <1>3, <2>3, <2>4
<1>14. CASE service_ends(w)
  BY <1>1, <1>2, <1>14 DEF service_ends
<1>15. CASE take_task(w) \/ finish(w) \/ flush_before_next(w) \/ close_soon(w)
            \/ drop_requests(w) \/ pop_request(w) \/ next_request(w)
  <2>1. job' = job /\ pc[w] \in {"idle", "finish", "flush_fin", "close_soon", "drop", "pop", "next"}
    BY <1>15 DEF take_task, finish, flush_before_next, close_soon, drop_requests,
       pop_request, next_request
  <2>2. flush[w].ctx = ""
    BY <1>3, <2>1 DEF Typed, IdleOutside, Busy, InFlush
  <2> QED
    BY <1>2, <1>4, <2>1, <2>2
<1> QED
  BY <1>5, <1>6, <1>7, <1>8, <1>9, <1>10, <1>11, <1>12, <1>13, <1>14, <1>15 DEF WorkerStep

\* No worker has more to write, and no request waits for one that will not drop it.
Quiet ==
    /\ \A w \in Workers : job[w].todo = <<>> /\ pc[w] \in {"idle", "drop", "last"}
    /\ requests = <<>> \/ \E w \in Workers : pc[w] = "drop"

\* service() asks for a close when it has nothing to write.
ClosesQuietly == close_when_flushed => Quiet

\* Who changes the list of requests.
LEMMA WhoQueues ==
    ASSUME [Next]_vars
    PROVE  \/ requests' \in {requests, <<>>} \/ queue_request
           \/ \E w \in Workers : pop_request(w)
<1>1. CASE UNCHANGED vars \/ ClientStep
  BY <1>1 DEF vars, ClientStep, client_sends, client_reads, client_leaves,
              time_passes, server, shared
<1>2. ASSUME NEW t, flush_some(t) \/ send_continue(t) \/ handle_close(t) \/ dispatcher_close(t)
      PROVE  requests' = requests
  BY <1>2, FlushLeavesAlone
<1>3. CASE \/ server_readable \/ readable \/ writable \/ enter_select \/ select_returns
           \/ select_times_out \/ trigger_read \/ interrupt \/ handle_read
           \/ handle_write \/ after_flush \/ shutdown \/ received \/ parse
  BY <1>3 DEF server_readable, readable, writable, enter_select, select_returns,
     select_times_out, trigger_read, interrupt, handle_read, handle_write,
     after_flush, shutdown, received, parse, shared
<1>4. ASSUME NEW w \in Workers,
             \/ take_task(w) \/ service_start(w) \/ app_writes(w) \/ app_raises(w)
             \/ write_soon(w) \/ put(w) \/ wait_returns(w) \/ finish(w)
             \/ flush_before_next(w) \/ close_soon(w) \/ drop_requests(w)
             \/ next_request(w) \/ service_ends(w)
      PROVE  requests' \in {requests, <<>>}
  BY <1>4 DEF take_task, service_start, app_writes, app_raises, write_soon, put,
     wait_returns, finish, flush_before_next, close_soon, drop_requests,
     next_request, service_ends, shared
<1> QED
  BY <1>1, <1>2, <1>3, <1>4 DEF Next, MainStep, WorkerStep

LEMMA QuietNext ==
    ASSUME IInv, FInv, Typed, Quiet, requests_lock # Main, [Next]_vars
    PROVE  Quiet'
<1>1. Shapes
  BY DEF IInv
<1>2. tasks = 0
  <2>1. CASE requests = <<>>
    BY <2>1 DEF IInv, Service, NoServant
  <2>2. ASSUME NEW v \in Workers, pc[v] = "drop" PROVE tasks = 0
    <3>1. InService(v)
      BY <1>1, <2>2, ThreadKinds DEF InService, Shapes, InFlush
    <3> QED
      BY <3>1 DEF IInv, Service, NoServant, Servant
  <2> QED
    BY <2>1, <2>2 DEF Quiet
<1>3. ASSUME NEW w \in Workers
      PROVE  /\ job'[w].todo = <<>>
             /\ \/ pc'[w] = pc[w] /\ ~WorkerStep(w)
                \/ pc'[w] \in {"idle", "last"} /\ (pc[w] = "drop" => requests' = <<>>)
  <2>1. job[w].todo = <<>> /\ pc[w] \in {"idle", "drop", "last"} /\ w \in Threads
    BY ThreadKinds DEF Quiet
  <2>2. CASE ~WorkerStep(w)
    BY <2>1, <2>2, OwnJob
  <2>3. CASE WorkerStep(w)
    <3>1. ~take_task(w)
      BY <1>2 DEF take_task
    <3>2. drop_requests(w) \/ service_ends(w)
      BY <2>1, <2>3, <3>1 DEF WorkerStep, service_start, app_writes, app_raises, write_soon,
         put, wait_returns, finish, flush_before_next, close_soon, pop_request, next_request,
         send_continue, flush_some, flush_top, send_some, send_nothing,
         flush_skip, flush_deduct, SentOn,
         flush_return, flush_raise, handle_close, dispatcher_close
    <3>3. CASE drop_requests(w)
      BY <1>1, <2>1, <3>3 DEF drop_requests, Go, Shapes
    <3>4. CASE service_ends(w)
      <4>1. job'[w].todo = <<>>
        BY <3>4 DEF service_ends, Typed, JobsTyped
      <4> QED
        BY <1>1, <2>1, <3>4, <4>1 DEF service_ends, Go, Shapes
    <3> QED
      BY <3>2, <3>3, <3>4
  <2> QED
    BY <2>2, <2>3
<1>4. requests' = <<>> \/ \E w \in Workers : pc'[w] = "drop"
  <2>1. requests = <<>> => requests' = <<>>
    <3>1. ~queue_request
      BY ThreadKinds DEF queue_request, IInv, LockIsHeld, HoldsRequests
    <3>2. \A w \in Workers : ~pop_request(w)
      BY DEF pop_request, Quiet
    <3> QED
      BY <3>1, <3>2, WhoQueues
  <2> QED
    BY <1>3, <2>1 DEF Quiet
<1> QED
  BY <1>3, <1>4 DEF Quiet

\* Who asks for a close.
LEMMA WhoAsks ==
    ASSUME [Next]_vars, ~close_when_flushed, close_when_flushed'
    PROVE  \E w \in Workers : close_soon(w)
<1>1. ~UNCHANGED vars /\ ~ClientStep
  BY DEF vars, ClientStep, client_sends, client_reads, client_leaves,
              time_passes, server, shared
<1>2. ASSUME NEW t, flush_some(t) \/ send_continue(t) \/ handle_close(t) \/ dispatcher_close(t)
      PROVE  FALSE
  BY <1>2, FlushLeavesAlone
<1>3. ~(\/ server_readable \/ readable \/ writable \/ enter_select \/ select_returns
        \/ select_times_out \/ trigger_read \/ interrupt \/ handle_read
        \/ handle_write \/ after_flush \/ shutdown \/ received \/ parse \/ queue_request)
  BY DEF server_readable, readable, writable, enter_select, select_returns,
     select_times_out, trigger_read, interrupt, handle_read, handle_write,
     after_flush, shutdown, received, parse, queue_request, shared
<1>4. ASSUME NEW w \in Workers,
             \/ take_task(w) \/ service_start(w) \/ app_writes(w) \/ app_raises(w)
             \/ write_soon(w) \/ put(w) \/ wait_returns(w) \/ finish(w)
             \/ flush_before_next(w) \/ drop_requests(w) \/ pop_request(w)
             \/ next_request(w) \/ service_ends(w)
      PROVE  FALSE
  BY <1>4 DEF take_task, service_start, app_writes, app_raises, write_soon, put,
     wait_returns, finish, flush_before_next, drop_requests, pop_request,
     next_request, service_ends, shared
<1> QED
  BY <1>1, <1>2, <1>3, <1>4 DEF Next, MainStep, WorkerStep

LEMMA AsksQuietly ==
    ASSUME IInv, FInv, Typed, ToWrite, NEW w \in Workers, close_soon(w)
    PROVE  Quiet'
<1>1. /\ Shapes /\ w \in Threads /\ pc[w] = "close_soon" /\ requests_lock = None
      /\ pc' = [pc EXCEPT ![w] = "drop"] /\ job' = job
  BY ThreadKinds DEF IInv, close_soon, Go
<1>2. InService(w)
  BY <1>1 DEF InService, Shapes, InFlush
<1>3. ASSUME NEW v \in Workers, v # w PROVE pc[v] \in {"idle", "last"}
  <2>1. ~InService(v)
    BY <1>2, <1>3 DEF IInv, Service, NoServant, Servant
  <2>2. v \in Threads /\ v # Main /\ flush[v].ctx # "continue" /\ pc[v] # "continue"
    BY <1>1, ThreadKinds DEF Shapes, FInv, InPlace, WorkerPlaces
  <2>3. pc[v] # "next"
    BY <1>1, <2>2, ThreadKinds DEF IInv, LockIsHeld, HoldsRequests
  <2> QED
    BY <2>1, <2>2, <2>3 DEF InService
<1>4. \A v \in Workers : pc[v] \in {"idle", "last", "close_soon"}
  BY <1>1, <1>3
<1>5. \A v \in Workers : flush[v].ctx = ""
  BY <1>4, ThreadKinds DEF Typed, IdleOutside, Busy, InFlush
<1>6. \A v \in Workers : job'[v].todo = <<>>
  BY <1>1, <1>4, <1>5 DEF ToWrite
<1>7. \A v \in Workers : pc'[v] = IF v = w THEN "drop" ELSE pc[v]
  BY <1>1, ThreadKinds DEF Shapes
<1> QED
  BY <1>3, <1>6, <1>7 DEF Quiet

LEMMA NotParsing ==
    ASSUME IInv, ClosesQuietly, close_when_flushed
    PROVE  requests_lock # Main
<1> SUFFICES ASSUME requests_lock = Main PROVE FALSE
  OBVIOUS
<1>1. requests # <<>>
  BY DEF IInv, Closes, AboutToClose
<1>2. PICK w \in Workers : pc[w] = "drop"
  BY <1>1 DEF ClosesQuietly, Quiet
<1>3. requests_lock = w
  BY <1>2, ThreadKinds DEF IInv, LockIsHeld, HoldsRequests
<1> QED
  BY <1>3, ThreadKinds

LEMMA ClosesInit == Init => ClosesQuietly
BY DEF Init, ClosesQuietly

LEMMA ClosesNext ==
    ASSUME IInv, FInv, Typed, ToWrite, ClosesQuietly, [Next]_vars
    PROVE  ClosesQuietly'
<1> SUFFICES ASSUME close_when_flushed' PROVE Quiet'
  BY DEF ClosesQuietly
<1>1. CASE close_when_flushed
  BY <1>1, NotParsing, QuietNext DEF ClosesQuietly
<1>2. CASE ~close_when_flushed
  BY <1>2, WhoAsks, AsksQuietly
<1> QED
  BY <1>1, <1>2

\* The client has left, maintenance has given the channel up, or it is closed.
Excused == ~connected \/ peer # "open" \/ reaped

\* handle_read() is called if there is something to read.
ReadsSomething ==
    pc[Main] \in {"drain", "read"} /\ ready.r => rcvd < sent \/ peer # "open"

\* Main is about to close, or a close is asked for, for one of these reasons or
\* because nothing is left to do.
ClosesFor ==
    /\ pc[Main] = "close" => Excused \/ (total = 0 /\ Quiet)
    /\ will_close => Excused \/ (pc[Main] = "close" /\ total = 0 /\ Quiet)

LEMMA ExcusedStays ==
    ASSUME Typed, [Next]_vars, Excused
    PROVE  Excused'
<1>1. connected \in BOOLEAN
  BY DEF Typed, FlagsTyped
<1>2. reaped => reaped'
  <2>1. CASE UNCHANGED vars \/ ClientStep
    BY <2>1 DEF vars, ClientStep, client_sends, client_reads, client_leaves,
                time_passes, server
  <2>2. ASSUME NEW t, flush_some(t) \/ send_continue(t) \/ handle_close(t) \/ dispatcher_close(t)
        PROVE  reaped' = reaped
    BY <2>2, FlushLeavesAlone
  <2>3. CASE \/ server_readable \/ readable \/ writable \/ enter_select \/ select_returns
             \/ select_times_out \/ trigger_read \/ interrupt \/ handle_read
             \/ handle_write \/ after_flush \/ shutdown \/ received \/ parse \/ queue_request
    BY <2>3 DEF server_readable, readable, writable, enter_select, select_returns,
       select_times_out, trigger_read, interrupt, handle_read, handle_write,
       after_flush, shutdown, received, parse, queue_request
  <2>4. ASSUME NEW w \in Workers, WorkerStep(w) PROVE reaped' = reaped
    BY <2>4, WorkersLeaveAlone
  <2> QED
    BY <2>1, <2>2, <2>3, <2>4 DEF Next, MainStep
<1> QED
  BY <1>1, <1>2, NeverReconnected, PeerStays DEF Excused

LEMMA ReadsInit == Init => ReadsSomething
<1> SUFFICES ASSUME Init PROVE ReadsSomething
  OBVIOUS
<1>1. pc[Main] = "poll"
  BY ThreadKinds DEF Init
<1> QED
  BY <1>1 DEF ReadsSomething

LEMMA ReadsNext ==
    ASSUME IInv, FInv, Typed, ReadsSomething, [Next]_vars
    PROVE  ReadsSomething'
<1>1. Shapes /\ Main \in Threads /\ rcvd \in Nat /\ sent \in Nat
  BY ThreadKinds DEF IInv, Typed, InputTyped
<1>2. ASSUME pc'[Main] = pc[Main], UNCHANGED <<ready, client, input>>
      PROVE  ReadsSomething'
  BY <1>2 DEF ReadsSomething, client, input
<1>3. CASE UNCHANGED vars \/ ClientStep
  <2>1. pc'[Main] = pc[Main] /\ UNCHANGED <<ready, input>> /\ sent' \in {sent, sent + 1}
    BY <1>3 DEF vars, ClientStep, client_sends, client_reads, client_leaves, time_passes,
                server, client
  <2> QED
    BY <1>1, <2>1, PeerStays DEF ReadsSomething, input
<1>4. ASSUME NEW w \in Workers, WorkerStep(w) PROVE ReadsSomething'
  <2>1. pc'[Main] = pc[Main]
    <3>1. Moves(w) /\ w # Main
      BY <1>1, <1>4, WorkerMovesOnly, ThreadKinds
    <3>2. pc[Main] # "waiting"
      BY <1>1 DEF FInv, InPlace, MainPlaces, InFlush
    <3> QED
      BY <1>1, <3>1, <3>2 DEF Moves
  <2> QED
    BY <1>2, <1>4, <2>1, WorkersLeaveAlone
<1>5. CASE flush_some(Main) \/ send_continue(Main) \/ handle_close(Main) \/ dispatcher_close(Main)
  <2>1. pc'[Main] \notin {"drain", "read"}
    BY <1>1, <1>5, TopMoves, SendMoves, SkipMoves, ReturnMoves, RaiseMoves, CloseMoves,
       DispatcherCloseMoves, ContinueMoves DEF flush_some, Within, Leaves
  <2> QED
    BY <2>1 DEF ReadsSomething
<1>6. CASE select_returns
  <2>1. ready'.r => CanRecv
    BY <1>6 DEF select_returns
  <2>2. UNCHANGED <<client, input>>
    BY <1>6 DEF select_returns
  <2> QED
    BY <2>1, <2>2 DEF CanRecv, ReadsSomething, client, input
<1>7. CASE trigger_read
  <2>1. pc[Main] = "drain" /\ UNCHANGED <<ready, client, input>>
    BY <1>7 DEF trigger_read
  <2> QED
    BY <2>1 DEF ReadsSomething, client, input
<1>8. CASE server_readable \/ readable \/ writable \/ enter_select \/ select_times_out
           \/ interrupt
  <2>1. pc'[Main] \notin {"drain", "read"}
    BY <1>1, <1>8 DEF server_readable, readable, writable, enter_select,
       select_times_out, interrupt, Go, Shapes
  <2> QED
    BY <2>1 DEF ReadsSomething
<1>9. CASE handle_read \/ handle_write \/ after_flush \/ shutdown \/ received \/ parse
           \/ queue_request
  <2>1. pc'[Main] \notin {"drain", "read"}
    BY <1>1, <1>9 DEF handle_read, handle_write, after_flush, shutdown, received, parse,
       queue_request, Go, Shapes
  <2> QED
    BY <2>1 DEF ReadsSomething
<1> QED
  BY <1>3, <1>4, <1>5, <1>6, <1>7, <1>8, <1>9 DEF Next, MainStep

\* Who changes the total.
LEMMA WhoCounts ==
    ASSUME [Next]_vars
    PROVE  \/ total' = total
           \/ \E t \in Threads : \/ flush_skip(t) \/ flush_deduct(t)
                                 \/ handle_close(t) \/ send_continue(t)
           \/ \E w \in Workers : put(w)
<1>1. CASE UNCHANGED vars \/ ClientStep
  BY <1>1 DEF vars, ClientStep, client_sends, client_reads, client_leaves,
              time_passes, server, buffers
<1>2. ASSUME NEW t, flush_top(t) \/ send_some(t) \/ send_nothing(t) \/ flush_return(t)
                    \/ flush_raise(t) \/ dispatcher_close(t)
      PROVE  total' = total
  BY <1>2 DEF flush_top, send_some, send_nothing, flush_return, flush_raise,
              dispatcher_close, buffers
<1>3. CASE \/ server_readable \/ readable \/ writable \/ enter_select \/ select_returns
           \/ select_times_out \/ trigger_read \/ interrupt \/ handle_read
           \/ handle_write \/ after_flush \/ shutdown \/ received \/ parse \/ queue_request
  BY <1>3 DEF server_readable, readable, writable, enter_select, select_returns,
     select_times_out, trigger_read, interrupt, handle_read, handle_write,
     after_flush, shutdown, received, parse, queue_request, buffers
<1>4. ASSUME NEW w \in Workers,
             \/ take_task(w) \/ service_start(w) \/ app_writes(w) \/ app_raises(w)
             \/ write_soon(w) \/ wait_returns(w) \/ finish(w)
             \/ flush_before_next(w) \/ close_soon(w) \/ drop_requests(w)
             \/ pop_request(w) \/ next_request(w) \/ service_ends(w)
      PROVE  total' = total
  BY <1>4 DEF take_task, service_start, app_writes, app_raises, write_soon,
     wait_returns, finish, flush_before_next, close_soon, drop_requests,
     pop_request, next_request, service_ends, buffers
<1> QED
  BY <1>1, <1>2, <1>3, <1>4, ThreadKinds DEF Next, MainStep, WorkerStep, flush_some

LEMMA ClosesForInit == Init => ClosesFor
<1> SUFFICES ASSUME Init PROVE ClosesFor
  OBVIOUS
<1>1. pc[Main] = "poll" /\ ~will_close
  BY ThreadKinds DEF Init
<1> QED
  BY <1>1 DEF ClosesFor

\* Nothing is added while main is about to close a channel with nothing to do.
LEMMA StaysEmpty ==
    ASSUME IInv, FInv, Typed, Quiet, total = 0, pc[Main] = "close", [Next]_vars
    PROVE  total' = 0 /\ Quiet'
<1>1. requests_lock # Main
  <2>1. flush[Main].ctx # "continue"
    BY ThreadKinds DEF IInv, Shapes, InFlush
  <2> QED
    BY <2>1, ThreadKinds DEF IInv, LockIsHeld, HoldsRequests, Continuing
<1>2. ASSUME NEW t \in Threads, flush_skip(t) \/ flush_deduct(t) \/ send_continue(t) PROVE FALSE
  BY <1>2, ThreadKinds DEF flush_skip, flush_deduct, send_continue, Quiet
<1>3. \A w \in Workers : ~put(w)
  BY DEF put, Quiet
<1>4. total' = 0
  BY <1>2, <1>3, WhoCounts DEF handle_close, NewTotal
<1> QED
  BY <1>1, <1>4, QuietNext

\* How main gets there.
LEMMA HowMainCloses ==
    ASSUME IInv, FInv, Typed, FailsFor, ReadsSomething, ClosesQuietly, ClosesFor,
           ~Excused, [Next]_vars, pc[Main] # "close", pc'[Main] = "close"
    PROVE  total' = 0 /\ Quiet'
<1>1. /\ Shapes /\ Main \in Threads /\ connected /\ peer = "open" /\ ~will_close
      /\ MainStep \/ select_times_out \/ interrupt
  BY OwnStep, ThreadKinds DEF IInv, Excused, ClosesFor
<1>2. CASE after_flush
  <2>1. close_when_flushed /\ total = 0 /\ total' = total
    BY <1>1, <1>2 DEF after_flush, FlushedForClose, Go, Shapes, buffers
  <2>2. requests_lock # Main /\ Quiet
    BY <2>1, NotParsing DEF ClosesQuietly
  <2> QED
    BY <2>1, <2>2, QuietNext
<1>3. CASE handle_read
  <2>1. /\ pc[Main] = "read" /\ ready.r
        /\ ~(peer \in {"open", "shut"} /\ rcvd < sent)
    BY <1>1, <1>3 DEF handle_read, Go, Shapes
  <2> QED
    BY <1>1, <2>1 DEF ReadsSomething
<1>4. CASE flush_some(Main) \/ send_continue(Main) \/ handle_close(Main)
           \/ dispatcher_close(Main)
  <2>1. pc[Main] = "raised"
    BY <1>1, <1>4, TopMoves, SendMoves, SkipMoves, ReturnMoves, RaiseMoves, CloseMoves,
       DispatcherCloseMoves, ContinueMoves DEF flush_some, Within, Leaves
  <2> QED
    BY <1>1, <2>1 DEF FailsFor
<1>5. ~(\/ server_readable \/ readable \/ writable \/ enter_select \/ select_returns
        \/ select_times_out \/ trigger_read \/ interrupt)
  BY <1>1 DEF server_readable, readable, writable, enter_select, select_returns,
     select_times_out, trigger_read, interrupt, Go, Shapes
<1>6. ~(handle_write \/ shutdown \/ received \/ parse \/ queue_request)
  BY <1>1 DEF handle_write, shutdown, received, parse, queue_request, Go, Shapes
<1> QED
  BY <1>1, <1>2, <1>3, <1>4, <1>5, <1>6 DEF MainStep

\* Who gives a channel up.
LEMMA WhoGivesUp ==
    ASSUME IInv, [Next]_vars, FailsFor, ~will_close, will_close'
    PROVE  Excused \/ Excused' \/ (after_flush /\ pc'[Main] = "close")
<1>1. Shapes
  BY DEF IInv
<1>2. ~UNCHANGED vars /\ ~ClientStep
  BY DEF vars, ClientStep, client_sends, client_reads, client_leaves,
              time_passes, server, shared
<1>3. CASE server_readable \/ shutdown
  BY <1>3 DEF server_readable, shutdown, Excused
<1>4. CASE after_flush
  BY <1>1, <1>4, ThreadKinds DEF after_flush, Go, Shapes
<1>5. ASSUME NEW t \in Threads,
             flush_some(t) \/ send_continue(t) \/ handle_close(t) \/ dispatcher_close(t)
      PROVE  Excused
  <2>1. ~(flush_top(t) \/ send_some(t) \/ send_nothing(t) \/ flush_skip(t) \/ flush_deduct(t)
          \/ flush_return(t)
          \/ send_continue(t) \/ handle_close(t) \/ dispatcher_close(t))
    BY DEF flush_top, send_some, send_nothing,
       flush_skip, flush_deduct, SentOn, flush_return, send_continue,
       handle_close, dispatcher_close, shared
  <2>2. pc[t] = "raised"
    BY <1>5, <2>1 DEF flush_some, flush_raise
  <2> QED
    BY <2>2 DEF FailsFor, Excused
<1>6. ~(\/ readable \/ writable \/ enter_select \/ select_returns
        \/ select_times_out \/ trigger_read \/ interrupt \/ handle_read
        \/ handle_write \/ received \/ parse \/ queue_request)
  BY DEF readable, writable, enter_select, select_returns,
     select_times_out, trigger_read, interrupt, handle_read, handle_write,
     received, parse, queue_request, shared
<1>7. ASSUME NEW w \in Workers,
             \/ take_task(w) \/ service_start(w) \/ app_writes(w) \/ app_raises(w)
             \/ write_soon(w) \/ put(w) \/ wait_returns(w) \/ finish(w)
             \/ flush_before_next(w) \/ close_soon(w) \/ drop_requests(w)
             \/ pop_request(w) \/ next_request(w) \/ service_ends(w)
      PROVE  FALSE
  BY <1>7 DEF take_task, service_start, app_writes, app_raises, write_soon, put,
     wait_returns, finish, flush_before_next, close_soon, drop_requests, pop_request,
     next_request, service_ends, shared
<1> QED
  BY <1>2, <1>3, <1>4, <1>5, <1>6, <1>7, ThreadKinds DEF Next, MainStep, WorkerStep

LEMMA ClosesForNext ==
    ASSUME IInv, FInv, Typed, FailsFor, ReadsSomething, ClosesQuietly, ClosesFor,
           [Next]_vars
    PROVE  ClosesFor'
<1> SUFFICES ASSUME ~Excused' PROVE ClosesFor'
  BY DEF ClosesFor
<1>1. ~Excused
  BY ExcusedStays
<1>2. pc'[Main] = "close" => total' = 0 /\ Quiet'
  <2>1. pc[Main] = "close" => total = 0 /\ Quiet
    BY <1>1 DEF ClosesFor
  <2> QED
    BY <1>1, <2>1, StaysEmpty, HowMainCloses
<1>3. will_close' => pc'[Main] = "close"
  <2>1. CASE will_close
    <3>1. pc[Main] = "close" /\ connected /\ connected'
      BY <1>1, <2>1 DEF ClosesFor, Excused
    <3>2. ~handle_close(Main) /\ ~dispatcher_close(Main)
      BY <3>1 DEF handle_close, dispatcher_close
    <3> QED
      BY <3>1, <3>2, MainStaysOr, MainDoesNotClose
  <2>2. CASE ~will_close
    BY <1>1, <2>2, WhoGivesUp
  <2> QED
    BY <2>1, <2>2
<1> QED
  BY <1>2, <1>3 DEF ClosesFor

\* Main closes the connection of a client that stays, and that maintenance or
\* shutdown() did not give up, only when every response is out and no worker has
\* more to write (channel.py:115-120 and 309-321): whatever makes main call
\* handle_close, it has seen a total of 0 after the last worker was done.
THEOREM ClosedOnlyWhenDone == Spec /\ []ContinuesInTime => CloseIsClean
<1> DEFINE CInv == /\ WorkingAll /\ BuffersOpen /\ SockFollows /\ FailsFor /\ ToWrite
                   /\ ClosesQuietly /\ ReadsSomething /\ ClosesFor
<1>1. Init => CInv
  BY WorkingInit, SockInit, FailsInit, ToWriteInit, ClosesInit, ReadsInit, ClosesForInit
     DEF WorkingAll
<1>2. IInv /\ FInv /\ Typed /\ CInv /\ [Next]_vars => CInv'
  <2> SUFFICES ASSUME IInv, FInv, Typed, CInv, [Next]_vars PROVE CInv'
    OBVIOUS
  <2>1. WorkingAll'
    BY WorkingNext DEF WorkingAll
  <2> QED
    BY <2>1, OpenNext, SockNext, FailsNext, ToWriteNext, ClosesNext, ReadsNext, ClosesForNext
<1>3. IInv /\ FInv /\ Typed /\ TotalAccurate /\ CInv /\ [Next]_vars
        => [connected /\ ~connected' /\ peer = "open" /\ ~reaped /\ pc[Main] # "stopping"
            => Buffered = 0 /\ \A w \in Workers : job[w].todo = <<>>]_vars
  <2> SUFFICES ASSUME IInv, FInv, Typed, TotalAccurate, CInv, [Next]_vars, connected,
                      ~connected', peer = "open", ~reaped, pc[Main] # "stopping"
               PROVE  Buffered = 0 /\ \A w \in Workers : job[w].todo = <<>>
    OBVIOUS
  <2>1. handle_close(Main)
    BY WhoCloses DEF dispatcher_close, shutdown, shared
  <2>2. pc[Main] = "close"
    BY <2>1, ThreadKinds DEF handle_close, FailsFor
  <2>3. total = 0 /\ Quiet
    BY <2>2 DEF ClosesFor, Excused
  <2> QED
    BY <2>3 DEF TotalAccurate, Quiet
<1> HIDE DEF CInv
<1> QED
  BY <1>1, <1>2, <1>3, InvAlways, FInvAlways, TypedAlways, TotalIsWhatIsBuffered, PTL
     DEF Spec, CloseIsClean

----------------------------------------------------------------------------
(* What the watermark bounds *)

\* The buffers hold what the watermark allows, and one chunk.
Fits == \E n \in WriteSizes : total =< Hwm + n

\* A chunk that some request of the script, or an ErrorTask, writes.
Chunks == {c \in Writes : c.size \in WriteSizes}

ChunksKnown == \A w \in Workers : job[w].todo \in Seq(Chunks)

LEMMA ScriptStays ==
    ASSUME [Next]_vars
    PROVE  UNCHANGED <<script, WriteSizes, Chunks, AContinue>>
<1>1. script' = script
  <2>1. CASE UNCHANGED vars \/ ClientStep
    BY <2>1 DEF vars, ClientStep, client_sends, client_reads, client_leaves,
                time_passes, client
  <2>2. ASSUME NEW t, flush_some(t) \/ send_continue(t) \/ handle_close(t) \/ dispatcher_close(t)
        PROVE  script' = script
    BY <2>2, FlushLeavesAlone DEF client
  <2>3. CASE \/ server_readable \/ readable \/ writable \/ enter_select \/ select_returns
             \/ select_times_out \/ trigger_read \/ interrupt \/ handle_read
             \/ handle_write \/ after_flush \/ shutdown \/ received \/ parse \/ queue_request
    BY <2>3 DEF server_readable, readable, writable, enter_select, select_returns,
       select_times_out, trigger_read, interrupt, handle_read, handle_write,
       after_flush, shutdown, received, parse, queue_request, client
  <2>4. ASSUME NEW w \in Workers, WorkerStep(w) PROVE script' = script
    BY <2>4, WorkersLeaveAlone DEF client
  <2> QED
    BY <2>1, <2>2, <2>3, <2>4 DEF Next, MainStep
<1> QED
  BY <1>1 DEF WriteSizes, Chunks, AContinue

\* What a request of the script writes is made of chunks.
LEMMA WritesAreChunks ==
    ASSUME script \in Scripts, NEW id \in 1 .. Len(script)
    PROVE  script[id].writes \in Seq(Chunks)
<1> DEFINE ws == script[id].writes
           n == Len(ws)
<1>1. id \in DOMAIN script /\ script[id] \in Requests
  BY ScriptsShape, LenProperties, ElementOfSeq
<1>2. ws \in Seq(Writes)
  BY <1>1 DEF Requests
<1>3. n \in Nat /\ DOMAIN ws = 1 .. n
  BY <1>2, LenProperties
<1>4. ASSUME NEW j \in 1 .. n PROVE ws[j] \in Chunks
  <2>1. ws[j] \in Writes /\ j \in DOMAIN ws
    BY <1>2, <1>3, ElementOfSeq
  <2>2. Sizes(ws)[j] = ws[j].size /\ j \in DOMAIN Sizes(ws)
    BY <2>1 DEF Sizes
  <2>3. ws[j].size \in Range(Sizes(ws))
    BY <2>2 DEF Range
  <2>4. ws[j].size \in WriteSizes
    BY <1>1, <2>3 DEF WriteSizes
  <2> QED
    BY <2>1, <2>4 DEF Chunks
<1> HIDE DEF ws
<1>5. ws \in [1 .. n -> Chunks]
  <2>1. ws = [j \in 1 .. n |-> ws[j]]
    BY <1>2, <1>3, SeqDef
  <2> HIDE DEF n
  <2> QED
    BY <1>4, <2>1
<1> QED
  BY <1>3, <1>5, SeqDef DEF ws

LEMMA SizesTyped ==
    ASSUME script \in Scripts
    PROVE  1 \in WriteSizes /\ WriteSizes \subseteq Nat \ {0}
<1>1. 1 \in WriteSizes
  BY DEF WriteSizes
<1>2. ASSUME NEW n \in WriteSizes PROVE n \in Nat \ {0}
  <2>1. CASE n \in UNION {Range(Sizes(script[i].writes)) : i \in DOMAIN script}
    <3>1. PICK i \in DOMAIN script : n \in Range(Sizes(script[i].writes))
      BY <2>1
    <3> DEFINE ws == script[i].writes
    <3>2. PICK j \in DOMAIN Sizes(ws) : n = Sizes(ws)[j]
      BY <3>1 DEF Range
    <3>3. j \in DOMAIN ws /\ n = ws[j].size
      BY <3>2 DEF Sizes
    <3>4. script[i] \in Requests
      BY <3>1, ScriptsShape, LenProperties, ElementOfSeq
    <3>5. ws \in Seq(Writes)
      BY <3>4 DEF Requests
    <3> HIDE DEF ws
    <3>6. ws[j] \in Writes
      BY <3>3, <3>5, LenProperties, ElementOfSeq
    <3> QED
      BY <3>3, <3>6 DEF Writes
  <2> QED
    BY <2>1 DEF WriteSizes
<1> QED
  BY <1>1, <1>2

LEMMA ChunksInit == Init => ChunksKnown
<1> SUFFICES ASSUME Init PROVE ChunksKnown
  OBVIOUS
<1>1. \A w \in Workers : job[w].todo = <<>>
  BY DEF Init
<1> QED
  BY <1>1, EmptySeq DEF ChunksKnown

LEMMA ChunksNext ==
    ASSUME IInv, FInv, Typed, ChunksKnown, [Next]_vars
    PROVE  ChunksKnown'
<1>1. Shapes /\ job \in [Workers -> Jobs] /\ script \in Scripts /\ Chunks' = Chunks
      /\ requests \in Seq(1 .. Len(script))
  BY ScriptStays DEF IInv, Typed, JobsTyped, InputTyped, RequestsTyped
<1>2. SUFFICES ASSUME NEW w \in Workers PROVE job'[w].todo \in Seq(Chunks)
  BY <1>1 DEF ChunksKnown
<1>3. job[w].todo \in Seq(Chunks) /\ <<>> \in Seq(Chunks) /\ job[w] \in Jobs
  BY <1>1, EmptySeq DEF ChunksKnown
<1>4. CASE ~WorkerStep(w)
  BY <1>3, <1>4, OwnJob
<1>5. CASE flush_some(w) \/ wait_returns(w)
  <2>1. job' = job \/ \E e \in BOOLEAN : job' = [job EXCEPT ![w].exc = e]
    BY <1>5 DEF flush_some, flush_top, send_some, send_nothing,
       flush_skip, flush_deduct, SentOn,
       flush_return, flush_raise, FlushRaised, wait_returns
  <2>2. ASSUME NEW e, job' = [job EXCEPT ![w].exc = e] PROVE job'[w].todo = job[w].todo
    <3>1. job'[w] = [job[w] EXCEPT !.exc = e]
      BY <1>1, <2>2
    <3> QED
      BY <1>3, <3>1 DEF Jobs
  <2> QED
    BY <1>3, <2>1, <2>2
<1>6. CASE send_continue(w) \/ handle_close(w) \/ dispatcher_close(w)
  BY <1>3, <1>6 DEF send_continue, handle_close, dispatcher_close
<1>7. CASE GivesUp(w)
  <2>1. job'[w] = [[job[w] EXCEPT !.todo = <<>>] EXCEPT !.close = TRUE]
    BY <1>1, <1>7 DEF GivesUp
  <2>2. job'[w].todo = <<>>
    BY <1>3, <2>1 DEF Jobs
  <2> QED
    BY <1>3, <2>2
<1>8. CASE service_start(w)
  <2>1. Head(requests) \in 1 .. Len(script)
    BY <1>1, <1>8, HeadTailProperties DEF service_start
  <2>2. job'[w].todo = script[Head(requests)].writes \/ job'[w].todo = <<>>
    BY <1>1, <1>8 DEF service_start
  <2> QED
    BY <1>1, <1>3, <2>1, <2>2, WritesAreChunks
<1>9. CASE app_writes(w)
  BY <1>3, <1>7, <1>9 DEF app_writes
<1>10. CASE app_raises(w) /\ ~GivesUp(w)
  <2> DEFINE c == [size |-> 1, file |-> FALSE]
             e == <<c>>
  <2>1. c \in Writes /\ c.size = 1
    BY DEF Writes
  <2>2. c \in Chunks
    BY <1>1, <2>1, SizesTyped DEF Chunks
  <2> HIDE DEF c
  <2>3. e \in Seq(Chunks)
    BY <2>2
  <2> HIDE DEF e
  <2>4. job' = [job EXCEPT ![w].todo = e, ![w].close = TRUE]
    BY <1>10 DEF app_raises, e, c
  <2>5. job'[w] = [[job[w] EXCEPT !.todo = e] EXCEPT !.close = TRUE]
    BY <1>1, <2>4
  <2>6. job'[w].todo = e
    BY <1>3, <2>5 DEF Jobs
  <2> QED
    BY <2>3, <2>6
<1>11. CASE put(w) /\ ~GivesUp(w)
  <2> DEFINE td == Tail(job[w].todo)
             k == job[w].k + Head(job[w].todo).size
  <2>1. job' = [job EXCEPT ![w].todo = Tail(@), ![w].k = @ + Head(job[w].todo).size]
    BY <1>11 DEF put
  <2>2. job'[w] = [[job[w] EXCEPT !.todo = td] EXCEPT !.k = k]
    BY <1>1, <1>3, <2>1 DEF Jobs
  <2>3. job'[w].todo = td
    BY <1>3, <2>2 DEF Jobs
  <2>4. job[w].todo # <<>>
    BY <1>11 DEF put, Typed, JobsTyped, Chunked
  <2>5. td \in Seq(Chunks)
    BY <1>3, <2>4, HeadTailProperties
  <2> QED
    BY <2>3, <2>5
<1>12. CASE service_ends(w)
  BY <1>1, <1>3, <1>12 DEF service_ends
<1>13. CASE take_task(w) \/ write_soon(w) \/ finish(w) \/ flush_before_next(w)
            \/ close_soon(w) \/ drop_requests(w) \/ pop_request(w) \/ next_request(w)
  BY <1>3, <1>13 DEF take_task, write_soon, finish, flush_before_next, close_soon,
     drop_requests, pop_request, next_request
<1> QED
  BY <1>4, <1>5, <1>6, <1>7, <1>8, <1>9, <1>10, <1>11, <1>12, <1>13 DEF WorkerStep

\* received() sends a continue when no request is queued, and queues none before.
ContinueAlone == pc[Main] = "continue" => requests = <<>>

\* A worker that has the lock to write, or is about to take it again, without a
\* further test, has room for a chunk.
Room ==
    \A w \in Workers : connected =>
        /\ pc[w] = "put" => total =< Hwm
        /\ pc[w] = "relock" /\ job[w].exc => total =< Hwm

LEMMA AloneInit == Init => ContinueAlone
<1> SUFFICES ASSUME Init PROVE ContinueAlone
  OBVIOUS
<1>1. requests = <<>>
  BY DEF Init
<1> QED
  BY <1>1 DEF ContinueAlone

LEMMA AloneNext ==
    ASSUME IInv, FInv, ContinueAlone, [Next]_vars
    PROVE  ContinueAlone'
<1>1. SUFFICES ASSUME pc'[Main] = "continue" PROVE requests' = <<>>
  BY DEF ContinueAlone
<1>2. Shapes /\ Main \in Threads
  BY ThreadKinds DEF IInv
<1>3. CASE pc[Main] = "continue"
  <2>1. requests_lock = Main /\ requests = <<>>
    BY <1>2, <1>3 DEF IInv, LockIsHeld, HoldsRequests, Continuing, ContinueAlone
  <2>2. ~queue_request /\ \A w \in Workers : ~pop_request(w)
    BY <1>3, <2>1, ThreadKinds DEF queue_request, pop_request
  <2> QED
    BY <2>1, <2>2, WhoQueues
<1>4. CASE pc[Main] # "continue"
  <2>1. MainStep \/ select_times_out \/ interrupt
    BY <1>1, <1>2, <1>4, OwnStep, ThreadKinds
  <2>2. ~(flush_some(Main) \/ send_continue(Main) \/ handle_close(Main) \/ dispatcher_close(Main))
    BY <1>1, <1>2, TopMoves, SendMoves, SkipMoves, ReturnMoves, RaiseMoves, CloseMoves,
       DispatcherCloseMoves, ContinueMoves DEF flush_some, Within, Leaves
  <2>3. ~(\/ server_readable \/ readable \/ writable \/ enter_select \/ select_returns
          \/ select_times_out \/ trigger_read \/ interrupt)
    BY <1>1, <1>2 DEF server_readable, readable, writable, enter_select,
       select_returns, select_times_out, trigger_read, interrupt, Go, Shapes
  <2>4. ~(\/ handle_read \/ handle_write \/ after_flush \/ shutdown \/ received \/ queue_request)
    BY <1>1, <1>2 DEF handle_read, handle_write, after_flush, shutdown, received,
       queue_request, Go, Shapes
  <2>5. parse
    BY <2>1, <2>2, <2>3, <2>4 DEF MainStep
  <2> QED
    BY <1>1, <1>2, <2>5 DEF parse, Go, Shapes, ContinueDue
<1> QED
  BY <1>3, <1>4

\* While a worker is in service, its request is queued and main sends no continue.
LEMMA ServiceAlone ==
    ASSUME IInv, FInv, ContinueAlone, NEW w \in Workers, InService(w)
    PROVE  \A t \in Threads : ~send_continue(t)
<1>1. requests # <<>>
  BY DEF IInv, Service, NoServant
<1>2. \A t \in Threads : pc[t] = "continue" => t = Main
  BY ThreadKinds DEF FInv, InPlace, WorkerPlaces
<1> QED
  BY <1>1, <1>2 DEF ContinueAlone, send_continue

\* A paused worker is notified by a close, or when there is room.
LEMMA WhoNotifies ==
    ASSUME IInv, FInv, [Next]_vars, NEW w \in Workers, pc[w] # "relock", pc'[w] = "relock"
    PROVE  handle_close(Main) \/ (flush_return(Main) /\ total < Hwm)
<1>1. Shapes /\ w \in Threads /\ w # Main /\ Main \in Threads
  BY ThreadKinds DEF IInv
<1>2. ~UNCHANGED vars /\ ~ClientStep
  BY DEF vars, ClientStep, client_sends, client_reads, client_leaves, time_passes, server
<1>3. ASSUME NEW t \in Threads, flush_return(t) PROVE t = Main /\ total < Hwm
  <2>1. CASE flush[t].ctx = "lockable"
    <3>1. t = Main
      BY <1>3, <2>1, ThreadKinds DEF flush_return, FInv, InPlace, InFlush
    <3>2. CASE ~(total < Hwm)
      <4>1. pc' = [pc EXCEPT ![t] = "after"]
        BY <1>3, <2>1, <3>2 DEF flush_return, FlushReturned
      <4> QED
        BY <1>1, <3>1, <4>1 DEF Shapes
    <3> QED
      BY <3>1, <3>2
  <2>2. CASE flush[t].ctx # "lockable"
    <3>1. \E p \in {"after", "queue", "last", "app", "put", "pop", "waiting"} :
             pc' = [pc EXCEPT ![t] = p]
      BY <1>3, <2>2 DEF flush_return, FlushReturned, TestHwm, BelowHwm, PauseAtHwm, Go
    <3> QED
      BY <1>1, <3>1 DEF Shapes
  <2> QED
    BY <2>1, <2>2
<1>4. ASSUME NEW t \in Threads,
             flush_top(t) \/ send_some(t) \/ send_nothing(t) \/ flush_skip(t)
                \/ flush_deduct(t) \/ flush_raise(t) \/ send_continue(t) \/ dispatcher_close(t)
      PROVE  FALSE
  <2>1. \E p \in {"flushed", "send", "skip", "deduct", "raised", "fclose", "top", "after",
                  "app", "waiting", "close", "idle", "poll"} : pc' = [pc EXCEPT ![t] = p]
    BY <1>4 DEF flush_top, send_some, send_nothing, flush_skip, flush_deduct, SentOn,
       flush_raise, FlushRaised, PauseAtHwm, send_continue, dispatcher_close, Go
  <2> QED
    BY <1>1, <2>1 DEF Shapes
<1>5. ~(\/ server_readable \/ readable \/ writable \/ enter_select \/ select_returns
        \/ select_times_out \/ trigger_read \/ interrupt)
  BY <1>1 DEF server_readable, readable, writable, enter_select,
     select_returns, select_times_out, trigger_read, interrupt, Go, Shapes
<1>6. ~(\/ handle_read \/ handle_write \/ after_flush \/ shutdown \/ received \/ parse
        \/ queue_request)
  BY <1>1 DEF handle_read, handle_write, after_flush, shutdown, received, parse,
     queue_request, Go, Shapes
<1>7. ASSUME NEW v \in Workers,
             \/ take_task(v) \/ service_start(v) \/ app_writes(v) \/ app_raises(v)
             \/ write_soon(v) \/ put(v) \/ wait_returns(v) \/ finish(v)
             \/ flush_before_next(v) \/ close_soon(v) \/ drop_requests(v) \/ pop_request(v)
             \/ next_request(v) \/ service_ends(v)
      PROVE  FALSE
  <2>1. pc' = pc \/ \E p \in {"service", "app", "finish", "write_soon", "put", "top", "waiting",
                  "pop", "close_soon", "flush_fin", "drop", "last", "next", "continue", "idle"} :
                      pc' = [pc EXCEPT ![v] = p]
    BY <1>7 DEF take_task, service_start, app_writes, app_raises, write_soon, put, wait_returns,
       TestHwm, BelowHwm, PauseAtHwm, finish, flush_before_next, close_soon, drop_requests,
       pop_request, next_request, service_ends, Go
  <2> QED
    BY <1>1, <2>1 DEF Shapes
<1> QED
  BY <1>2, <1>3, <1>4, <1>5, <1>6, <1>7, OnlyMainCloses, ThreadKinds
     DEF Next, MainStep, WorkerStep, flush_some

\* Only a chunk and a continue make a total that was below the watermark larger.
LEMMA WhoFills ==
    ASSUME Typed, [Next]_vars, NEW n \in Int, total =< n, 0 =< n
    PROVE  \/ total' =< n
           \/ \E t \in Threads : send_continue(t)
           \/ \E w \in Workers : put(w)
<1>1. total \in Int
  BY DEF Typed, BuffersTyped
<1>2. ASSUME NEW t \in Threads, flush_skip(t) \/ flush_deduct(t) PROVE total' =< n
  <2>1. flush[t].num \in Nat
    BY DEF Typed, BuffersTyped
  <2>2. total' = total \/ total' = total - flush[t].num
    BY <1>2 DEF flush_skip, flush_deduct, NewTotal
  <2> QED
    BY <1>1, <2>1, <2>2
<1>3. ASSUME NEW t \in Threads, handle_close(t) PROVE total' =< n
  BY <1>1, <1>3 DEF handle_close, NewTotal
<1> QED
  BY <1>1, <1>2, <1>3, WhoCounts

\* A worker's step to write_soon's append tests the watermark, unless it was woken
\* after an exception.
LEMMA PutsBelow ==
    ASSUME IInv, NEW w \in Workers, WorkerStep(w), pc'[w] = "put", connected, Typed
    PROVE  /\ total' = total
           /\ total =< Hwm \/ (pc[w] = "relock" /\ job[w].exc)
<1>1. Shapes /\ w \in Threads /\ total \in Int /\ Hwm \in Int
  BY ThreadKinds, LimitsTyped DEF IInv, Typed, BuffersTyped
<1>2. ASSUME TestHwm(w) PROVE total =< Hwm
  <2>1. ~PauseAtHwm(w)
    BY <1>1 DEF PauseAtHwm, Go, Shapes
  <2>2. ~(total > Hwm)
    BY <1>2, <2>1 DEF TestHwm
  <2> QED
    BY <1>1, <2>2
<1>3. CASE wait_returns(w)
  BY <1>2, <1>3 DEF wait_returns, buffers
<1>4. CASE flush_return(w)
  <2>1. TestHwm(w)
    <3>1. FlushReturned(w) /\ pc[w] # "waiting"
      BY <1>4 DEF flush_return
    <3>2. flush[w].ctx \notin {"unlocked", "lockable", "continue", "write"}
      <4>1. CASE flush[w].ctx = "lockable"
        <5>1. Leaves(w, "after")
          BY <1>1, <1>4, <4>1, ReturnMoves
        <5> QED
          BY <1>1, <5>1 DEF Leaves
      <4>2. CASE flush[w].ctx \in {"unlocked", "continue", "write"}
        <5>1. \E p \in {"after", "queue", "last", "app"} : pc' = [pc EXCEPT ![w] = p]
          BY <3>1, <4>2 DEF FlushReturned, Go
        <5> QED
          BY <1>1, <5>1 DEF Shapes
      <4> QED
        BY <4>1, <4>2
    <3> QED
      BY <3>1, <3>2 DEF FlushReturned
  <2> QED
    BY <1>2, <1>4, <2>1 DEF flush_return, buffers
<1>5. CASE write_soon(w)
  <2>1. ~(total > Hwm) /\ total' = total
    BY <1>1, <1>5 DEF write_soon, Go, Shapes, buffers
  <2> QED
    BY <1>1, <2>1
<1>6. ~(flush_top(w) \/ send_some(w) \/ send_nothing(w) \/ flush_skip(w)
        \/ flush_deduct(w) \/ flush_raise(w)
        \/ send_continue(w) \/ handle_close(w) \/ dispatcher_close(w))
  BY <1>1, TopMoves, SendMoves, SkipMoves, RaiseMoves, CloseMoves,
     DispatcherCloseMoves, ContinueMoves DEF Within, Leaves
<1>7. ~(\/ take_task(w) \/ service_start(w) \/ app_writes(w) \/ put(w) \/ finish(w)
        \/ flush_before_next(w) \/ close_soon(w) \/ drop_requests(w)
        \/ pop_request(w) \/ next_request(w) \/ service_ends(w))
  BY <1>1 DEF take_task, service_start, app_writes, put, finish,
       flush_before_next, close_soon, drop_requests,
       pop_request, next_request, service_ends, Go, Shapes
<1>8. ~app_raises(w)
  BY <1>1 DEF app_raises, Go, Shapes
<1> QED
  BY <1>3, <1>4, <1>5, <1>6, <1>7, <1>8 DEF WorkerStep, flush_some

LEMMA RoomInit == Init => Room
<1> SUFFICES ASSUME Init PROVE Room
  OBVIOUS
<1>1. \A w \in Workers : pc[w] = "idle"
  BY ThreadKinds DEF Init
<1> QED
  BY <1>1 DEF Room

LEMMA RoomNext ==
    ASSUME IInv, FInv, Typed, ContinueAlone, Room, [Next]_vars
    PROVE  Room'
<1>1. SUFFICES ASSUME NEW w \in Workers, connected',
                      pc'[w] = "put" \/ (pc'[w] = "relock" /\ job'[w].exc)
               PROVE  total' =< Hwm
  BY LimitsTyped DEF Room
<1>2. /\ connected /\ Shapes /\ w \in Threads /\ total \in Int /\ Hwm \in Nat
      /\ ~handle_close(Main)
  BY <1>1, NeverReconnected, ThreadKinds, LimitsTyped
     DEF IInv, Typed, BuffersTyped, handle_close
<1>3. ASSUME pc[w] \in {"put", "relock"}, total =< Hwm, ~WorkerStep(w) PROVE total' =< Hwm
  <2>1. InService(w)
    BY <1>2, <1>3 DEF InService, Shapes, InFlush
  <2>2. ASSUME NEW v \in Workers, put(v) PROVE FALSE
    <3>1. InService(v)
      BY <1>2, <2>2, ThreadKinds DEF put, InService, Shapes, InFlush
    <3>2. v = w
      BY <2>1, <3>1 DEF IInv, Service, NoServant, Servant
    <3> QED
      BY <1>3, <2>2, <3>2 DEF WorkerStep
  <2> QED
    BY <1>2, <1>3, <2>1, <2>2, ServiceAlone, WhoFills
<1>4. CASE pc[w] # "relock" /\ pc'[w] = "relock"
  <2>1. flush_return(Main) /\ total < Hwm
    BY <1>2, <1>4, WhoNotifies
  <2>2. total' = total
    BY <2>1 DEF flush_return, buffers
  <2> QED
    BY <1>2, <2>1, <2>2
<1>5. CASE ~WorkerStep(w) /\ ~(pc[w] # "relock" /\ pc'[w] = "relock")
  <2>1. job'[w] = job[w] /\ pc'[w] = pc[w]
    BY <1>1, <1>5, OwnJob
  <2> QED
    BY <1>1, <1>2, <1>3, <1>5, <2>1 DEF Room
<1>6. CASE WorkerStep(w) /\ pc'[w] = "put"
  BY <1>2, <1>6, PutsBelow DEF Room
<1>7. CASE WorkerStep(w) /\ pc'[w] = "relock" /\ pc[w] = "relock"
  <2>1. wait_returns(w)
    BY <1>2, <1>7 DEF WorkerStep, take_task, service_start, app_writes, app_raises, write_soon,
         put, finish, flush_before_next, close_soon, drop_requests, pop_request, next_request,
         service_ends,
         send_continue, flush_some, flush_top, send_some, send_nothing,
         flush_skip, flush_deduct, SentOn,
         flush_return, flush_raise, handle_close, dispatcher_close
  <2>2. \E p \in {"put", "pop", "waiting"} : pc' = [pc EXCEPT ![w] = p]
    BY <2>1 DEF wait_returns, TestHwm, BelowHwm, PauseAtHwm, Go
  <2> QED
    BY <1>2, <1>7, <2>2 DEF Shapes
<1> QED
  BY <1>1, <1>4, <1>5, <1>6, <1>7

\* Whatever is not a continue leaves the total within the watermark and a chunk.
LEMMA FitsNext ==
    ASSUME IInv, FInv, Typed, Room, ChunksKnown, Fits, [Next]_vars,
           \A t \in Threads : ~send_continue(t)
    PROVE  Fits'
<1>1. total \in Int /\ Hwm \in Nat /\ WriteSizes' = WriteSizes
  BY LimitsTyped, ScriptStays DEF Typed, BuffersTyped
<1>2. ASSUME NEW w \in Workers, put(w) PROVE Fits'
  <2>1. CASE ~connected
    <3>1. total' = total
      BY <1>2, <2>1 DEF put, LeftMeanwhile
    <3> QED
      BY <1>1, <3>1 DEF Fits
  <2>2. CASE connected
    <3> DEFINE n == Head(job[w].todo).size
    <3>1. total =< Hwm /\ total' \in {total, total + n}
      BY <1>2, <2>2 DEF put, LeftMeanwhile, NewTotal, Room
    <3>2. job[w].todo # <<>> /\ job[w].todo \in Seq(Chunks)
      BY <1>2 DEF put, Typed, JobsTyped, Chunked, ChunksKnown
    <3>3. Head(job[w].todo) \in Chunks
      BY <3>2, HeadTailProperties
    <3>4. n \in WriteSizes /\ n \in Nat
      BY <3>3 DEF Chunks, Writes
    <3> HIDE DEF n
    <3>5. total' =< Hwm + n
      BY <1>1, <3>1, <3>4
    <3> QED
      BY <1>1, <3>4, <3>5 DEF Fits
  <2> QED
    BY <2>1, <2>2
<1>3. CASE \A w \in Workers : ~put(w)
  <2>1. PICK n \in WriteSizes : total =< Hwm + n
    BY DEF Fits
  <2>2. n \in Nat
    BY SizesTyped DEF Typed, InputTyped
  <2>3. total' =< Hwm + n
    <3> DEFINE m == Hwm + n
    <3>1. m \in Int /\ total =< m /\ 0 =< m
      BY <1>1, <2>1, <2>2
    <3> HIDE DEF m
    <3>2. total' =< m
      BY <1>3, <3>1, WhoFills
    <3> QED
      BY <3>2 DEF m
  <2> QED
    BY <1>1, <2>3 DEF Fits
<1> QED
  BY <1>2, <1>3

\* A continue is sent right after the header that asks for it.
AtHead ==
    pc[Main] = "continue" =>
        /\ parsed > 0 /\ Units[parsed] = <<request.id, "head">>
        /\ request.id \in 1 .. Len(script) /\ script[request.id].expect
        /\ ~request.completed

\* A completed request is queued at once.
Completes == request.completed => pc[Main] = "queue"

\* Who changes what the parser holds.
LEMMA WhoAnswers ==
    ASSUME IInv, FInv, Typed, ContinuesInTime, Completes, [Next]_vars
    PROVE  parse \/ queue_request \/ send_continue(Main) \/ UNCHANGED <<request, sent_continue>>
<1>1. CASE UNCHANGED vars \/ ClientStep
  BY <1>1 DEF vars, ClientStep, client_sends, client_reads, client_leaves,
              time_passes, server, shared
<1>2. ASSUME NEW t \in Threads, flush_return(t) PROVE UNCHANGED <<request, sent_continue>>
  <2>1. sent_continue' = sent_continue
    BY <1>2 DEF flush_return
  <2>2. CASE flush[t].ctx # "continue"
    BY <1>2, <2>1, <2>2 DEF flush_return, FlushReturned
  <2>3. CASE flush[t].ctx = "continue"
    <3>1. request' = [request EXCEPT !.completed = FALSE]
      BY <1>2, <2>3 DEF flush_return, FlushReturned
    <3>2. t = Main
      BY <1>2, <2>3, ThreadKinds DEF FInv, InPlace, flush_return, InFlush
    <3>3. ~request.completed
      BY <1>2, <3>2 DEF Completes, flush_return
    <3>4. request \in [id : 0 .. Len(script), expect : BOOLEAN, completed : BOOLEAN]
      BY DEF Typed, RequestsTyped
    <3>5. request.completed = FALSE
      BY <3>3, <3>4
    <3>6. request' = request
      BY <3>1, <3>4, <3>5
    <3> QED
      BY <2>1, <3>6
  <2> QED
    BY <2>2, <2>3
<1>3. ASSUME NEW t \in Threads,
             flush_top(t) \/ send_some(t) \/ send_nothing(t) \/ flush_skip(t)
                \/ flush_deduct(t) \/ flush_raise(t)
                \/ handle_close(t) \/ dispatcher_close(t)
      PROVE  UNCHANGED <<request, sent_continue>>
  BY <1>3 DEF flush_top, send_some, send_nothing,
     flush_skip, flush_deduct, SentOn, flush_raise, handle_close,
     dispatcher_close, shared
<1>4. ASSUME NEW t \in Threads, send_continue(t) PROVE t = Main
  BY <1>4 DEF send_continue, ContinuesInTime
<1>5. CASE \/ server_readable \/ readable \/ writable \/ enter_select \/ select_returns
           \/ select_times_out \/ trigger_read \/ interrupt \/ handle_read
           \/ handle_write \/ after_flush \/ shutdown \/ received
  BY <1>5 DEF server_readable, readable, writable, enter_select, select_returns,
     select_times_out, trigger_read, interrupt, handle_read, handle_write,
     after_flush, shutdown, received, shared
<1>6. ASSUME NEW w \in Workers,
             \/ take_task(w) \/ service_start(w) \/ app_writes(w) \/ app_raises(w)
             \/ write_soon(w) \/ put(w) \/ wait_returns(w) \/ finish(w)
             \/ flush_before_next(w) \/ close_soon(w) \/ drop_requests(w)
             \/ pop_request(w) \/ next_request(w) \/ service_ends(w)
      PROVE  UNCHANGED <<request, sent_continue>>
  BY <1>6 DEF take_task, service_start, app_writes, app_raises, write_soon, put,
     wait_returns, finish, flush_before_next, close_soon, drop_requests,
     pop_request, next_request, service_ends, shared
<1> QED
  BY <1>1, <1>2, <1>3, <1>4, <1>5, <1>6, ThreadKinds
     DEF Next, MainStep, WorkerStep, flush_some

LEMMA WhoReadsOn ==
    ASSUME [Next]_vars
    PROVE  parsed' = parsed \/ parse \/ received
<1>1. CASE UNCHANGED vars \/ ClientStep
  BY <1>1 DEF vars, ClientStep, client_sends, client_reads, client_leaves,
              time_passes, server, input
<1>2. ASSUME NEW t, flush_some(t) \/ send_continue(t) \/ handle_close(t) \/ dispatcher_close(t)
      PROVE  parsed' = parsed
  BY <1>2, FlushLeavesAlone DEF input
<1>3. CASE \/ server_readable \/ readable \/ writable \/ enter_select \/ select_returns
           \/ select_times_out \/ trigger_read \/ interrupt \/ handle_read
           \/ handle_write \/ after_flush \/ shutdown \/ queue_request
  BY <1>3 DEF server_readable, readable, writable, enter_select, select_returns,
     select_times_out, trigger_read, interrupt, handle_read, handle_write,
     after_flush, shutdown, queue_request, input
<1>4. ASSUME NEW w \in Workers, WorkerStep(w) PROVE parsed' = parsed
  BY <1>4, WorkersLeaveAlone DEF input
<1> QED
  BY <1>1, <1>2, <1>3, <1>4 DEF Next, MainStep

\* Who empties the list of requests.
LEMMA WhoEmpties ==
    ASSUME Typed, [Next]_vars, requests # <<>>, requests' = <<>>
    PROVE  shutdown \/ \E w \in Workers : drop_requests(w) \/ pop_request(w)
<1>1. ~UNCHANGED vars /\ ~ClientStep
  BY DEF vars, ClientStep, client_sends, client_reads, client_leaves,
              time_passes, server, shared
<1>2. ASSUME NEW t, flush_some(t) \/ send_continue(t) \/ handle_close(t) \/ dispatcher_close(t)
      PROVE  FALSE
  BY <1>2, FlushLeavesAlone
<1>3. ~(\/ server_readable \/ readable \/ writable \/ enter_select \/ select_returns
        \/ select_times_out \/ trigger_read \/ interrupt \/ handle_read
        \/ handle_write \/ after_flush \/ received \/ parse)
  BY DEF server_readable, readable, writable, enter_select, select_returns,
     select_times_out, trigger_read, interrupt, handle_read, handle_write,
     after_flush, received, parse, shared
<1>4. ~queue_request
  <2>1. requests \in Seq(1 .. Len(script))
    BY DEF Typed, RequestsTyped
  <2>2. Append(requests, request.id) # <<>>
    BY <2>1
  <2> QED
    BY <2>2 DEF queue_request
<1>5. ASSUME NEW w \in Workers,
             \/ take_task(w) \/ service_start(w) \/ app_writes(w) \/ app_raises(w)
             \/ write_soon(w) \/ put(w) \/ wait_returns(w) \/ finish(w)
             \/ flush_before_next(w) \/ close_soon(w)
             \/ next_request(w) \/ service_ends(w)
      PROVE  FALSE
  BY <1>5 DEF take_task, service_start, app_writes, app_raises, write_soon, put,
     wait_returns, finish, flush_before_next, close_soon, next_request, service_ends, shared
<1> QED
  BY <1>1, <1>2, <1>3, <1>4, <1>5 DEF Next, MainStep, WorkerStep

\* service() drops the requests of a channel that it has asked to close.
Dropping == \A w \in Workers : pc[w] = "drop" => AboutToClose

LEMMA DroppingInit == Init => Dropping
<1> SUFFICES ASSUME Init PROVE Dropping
  OBVIOUS
<1>1. \A w \in Workers : pc[w] = "idle"
  BY ThreadKinds DEF Init
<1> QED
  BY <1>1 DEF Dropping

\* A close that was asked for is not forgotten.
LEMMA AsksStay ==
    ASSUME [Next]_vars, AboutToClose
    PROVE  AboutToClose'
<1>1. CASE UNCHANGED vars \/ ClientStep
  BY <1>1 DEF vars, ClientStep, client_sends, client_reads, client_leaves,
              time_passes, server, shared, AboutToClose
<1>2. ASSUME NEW t, flush_some(t) \/ send_continue(t) \/ handle_close(t) \/ dispatcher_close(t)
      PROVE  AboutToClose'
  <2>1. close_when_flushed' = close_when_flushed
    BY <1>2, FlushLeavesAlone
  <2>2. will_close' = will_close \/ will_close' = TRUE
    BY <1>2 DEF flush_some, flush_top, send_some, send_nothing,
       flush_skip, flush_deduct, SentOn, flush_return,
       flush_raise, FlushRaised, handle_close, dispatcher_close, send_continue, shared
  <2> QED
    BY <2>1, <2>2 DEF AboutToClose
<1>3. CASE \/ server_readable \/ readable \/ writable \/ enter_select \/ select_returns
           \/ select_times_out \/ trigger_read \/ interrupt \/ handle_read
           \/ handle_write \/ shutdown \/ received \/ parse \/ queue_request
  BY <1>3 DEF server_readable, readable, writable, enter_select, select_returns,
     select_times_out, trigger_read, interrupt, handle_read, handle_write,
     shutdown, received, parse, queue_request, shared, AboutToClose
<1>4. CASE after_flush
  BY <1>4 DEF after_flush, FlushedForClose, AboutToClose
<1>5. ASSUME NEW w \in Workers,
             \/ take_task(w) \/ service_start(w) \/ app_writes(w) \/ app_raises(w)
             \/ write_soon(w) \/ put(w) \/ wait_returns(w) \/ finish(w)
             \/ flush_before_next(w) \/ close_soon(w) \/ drop_requests(w)
             \/ pop_request(w) \/ next_request(w) \/ service_ends(w)
      PROVE  AboutToClose'
  BY <1>5 DEF take_task, service_start, app_writes, app_raises, write_soon, put,
     wait_returns, finish, flush_before_next, close_soon, drop_requests, pop_request,
     next_request, service_ends, shared, AboutToClose
<1> QED
  BY <1>1, <1>2, <1>3, <1>4, <1>5 DEF Next, MainStep, WorkerStep

LEMMA DroppingNext ==
    ASSUME IInv, FInv, Dropping, [Next]_vars
    PROVE  Dropping'
<1>1. SUFFICES ASSUME NEW w \in Workers, pc'[w] = "drop" PROVE AboutToClose'
  BY DEF Dropping
<1>2. Shapes /\ w \in Threads /\ w # Main
  BY ThreadKinds DEF IInv
<1>3. CASE pc[w] = "drop"
  BY <1>3, AsksStay DEF Dropping
<1>4. CASE pc[w] # "drop"
  <2>1. WorkerStep(w)
    BY <1>1, <1>2, <1>4, OwnStep
  <2>2. ~(flush_some(w) \/ send_continue(w) \/ handle_close(w) \/ dispatcher_close(w))
    BY <1>1, <1>2, TopMoves, SendMoves, SkipMoves, ReturnMoves, RaiseMoves, CloseMoves,
       DispatcherCloseMoves, ContinueMoves DEF flush_some, Within, Leaves
  <2>3. ~(\/ take_task(w) \/ service_start(w) \/ app_writes(w) \/ app_raises(w)
          \/ write_soon(w) \/ put(w) \/ wait_returns(w) \/ finish(w))
    <3>1. ASSUME \/ take_task(w) \/ service_start(w) \/ app_writes(w) \/ app_raises(w)
                 \/ write_soon(w) \/ put(w) \/ wait_returns(w) \/ finish(w)
          PROVE  pc' = pc \/ \E p \in {"service", "app", "finish", "write_soon", "put", "top", "waiting",
                  "pop", "close_soon", "flush_fin"} : pc' = [pc EXCEPT ![w] = p]
      BY <3>1 DEF take_task, service_start, app_writes, app_raises, write_soon, put,
         wait_returns, TestHwm, BelowHwm, PauseAtHwm, finish, Go
    <3> QED
      BY <1>1, <1>2, <1>4, <3>1 DEF Shapes
  <2>4. ~(\/ flush_before_next(w) \/ drop_requests(w)
          \/ pop_request(w) \/ next_request(w) \/ service_ends(w))
    BY <1>1, <1>2 DEF flush_before_next, drop_requests, pop_request, next_request,
       service_ends, Go, Shapes
  <2>5. close_soon(w)
    BY <2>1, <2>2, <2>3, <2>4 DEF WorkerStep
  <2> QED
    BY <2>5 DEF close_soon, AboutToClose
<1> QED
  BY <1>3, <1>4

\* A continue that is not sent at once waits behind a request, or for the worker
\* that has just finished the last one.
Postponed ==
    ParserLive /\ request.expect /\ ~sent_continue /\ pc[Main] # "continue" =>
        requests # <<>> \/ ~connected \/ \E w \in Workers : pc[w] = "next"

\* After a continue the parser waits for the body that it was sent for.
BodyDue ==
    ParserLive /\ sent_continue =>
        /\ request.id \in 1 .. Len(script) /\ script[request.id].body
        /\ ~request.completed /\ parsed < Len(Units)
             => Units[parsed + 1] = <<request.id, "body">>

Answering == AtHead /\ Completes /\ Postponed /\ BodyDue

\* Main gets to send_continue only from the parser, and leaves it only by calling it.
LEMMA ContinueFromParse ==
    ASSUME IInv, FInv, [Next]_vars
    PROVE  /\ pc'[Main] = "continue" => pc[Main] = "continue" \/ parse
           /\ pc[Main] = "continue" => pc'[Main] = "continue" \/ send_continue(Main)
           /\ pc[Main] = "queue" => pc'[Main] = "queue" \/ queue_request
<1>1. Shapes /\ Main \in Threads
  BY ThreadKinds DEF IInv
<1>2. CASE pc'[Main] = pc[Main]
  BY <1>2
<1>3. CASE pc'[Main] # pc[Main]
  <2>1. MainStep \/ select_times_out \/ interrupt
    BY <1>3, MainStaysOr
  <2>2. CASE flush_some(Main) \/ handle_close(Main) \/ dispatcher_close(Main)
    <3>1. pc[Main] \notin {"continue", "queue"}
      BY <2>2 DEF flush_some, flush_top, send_some, send_nothing,
         flush_skip, flush_deduct, SentOn, flush_return,
         flush_raise, handle_close, dispatcher_close
    <3>2. pc'[Main] # "continue"
      BY <1>1, <2>2, TopMoves, SendMoves, SkipMoves, ReturnMoves, RaiseMoves, CloseMoves,
         DispatcherCloseMoves DEF flush_some, Within, Leaves
    <3> QED
      BY <3>1, <3>2
  <2>3. CASE send_continue(Main)
    BY <1>3, <2>3 DEF send_continue
  <2>4. CASE \/ server_readable \/ readable \/ writable \/ enter_select \/ select_returns
             \/ select_times_out \/ trigger_read \/ interrupt
    BY <1>1, <2>4 DEF server_readable, readable, writable, enter_select, select_returns,
       select_times_out, trigger_read, interrupt, Go, Shapes
  <2>5. CASE handle_read \/ handle_write \/ after_flush \/ shutdown \/ received
    BY <1>1, <2>5 DEF handle_read, handle_write, after_flush, shutdown, received, Go, Shapes
  <2>6. CASE parse \/ queue_request
    BY <1>1, <2>6 DEF parse, queue_request, Go, Shapes
  <2> QED
    BY <2>1, <2>2, <2>3, <2>4, <2>5, <2>6 DEF MainStep
<1> QED
  BY <1>2, <1>3

\* What the parser makes of the next unit.
LEMMA Parses ==
    ASSUME IInv, Typed, parse
    PROVE  /\ parsed' = parsed + 1 /\ parsed \in Nat /\ Units' = Units /\ parsed < Len(Units)
           /\ UNCHANGED <<requests, sent_continue, connected, script, requests_lock>>
           /\ requests_lock = Main /\ ParserLive /\ pc[Main] = "parse"
           /\ pc' = [pc EXCEPT ![Main] = IF ContinueDue(request') THEN "continue" ELSE "queue"]
           /\ \/ /\ Units[parsed + 1] = <<request'.id, "head">>
                 /\ request'.id \in 1 .. Len(script)
                 /\ request'.expect => script[request'.id].expect /\ ~request'.completed
              \/ /\ Units[parsed + 1] = <<request.id, "body">>
                 /\ request'.id = request.id /\ request'.expect = request.expect
<1> DEFINE u == Units[parsed + 1]
           id == u[1]
<1>1. /\ UNCHANGED <<requests, sent_continue, connected, script, requests_lock>>
      /\ parsed' = parsed + 1 /\ pc[Main] = "parse"
      /\ pc' = [pc EXCEPT ![Main] = IF ContinueDue(request') THEN "continue" ELSE "queue"]
  BY DEF parse, Go, client, locks
<1>2. Units' = Units
  BY <1>1 DEF Units
<1>3. parsed \in Nat /\ parsed < Len(Units)
  <2>1. Len(Units) \in Nat
    BY UnitsTyped DEF Typed, InputTyped
  <2> QED
    BY <1>1, <2>1 DEF Typed, InputTyped
<1>4. requests_lock = Main /\ ParserLive
  BY <1>1, ThreadKinds DEF IInv, LockIsHeld, HoldsRequests, ParserLive
<1>5. u \in UnitsOf(script) /\ id \in 1 .. Len(script) /\ u[2] \in {"head", "body"}
      /\ u = <<u[1], u[2]>>
  BY <1>3, NextUnit DEF UnitsOf, Typed
<1>6. script[id] \in Requests
      /\ (script[id].expect => script[id].body /\ ~script[id].error)
  <2>1. script \in Scripts /\ script \in Seq(Requests)
    BY ScriptsShape DEF Typed, InputTyped
  <2>2. id \in DOMAIN script
    BY <1>5, <2>1, LenProperties
  <2>3. script[id] \in Requests
    BY <1>5, <2>1, ElementOfSeq
  <2> QED
    BY <2>1, <2>2, <2>3, ScriptsShape
<1>7. request' = IF u[2] = "body" THEN [request EXCEPT !.completed = TRUE]
                 ELSE [id |-> id, expect |-> script[id].expect,
                       completed |-> ~script[id].body \/ script[id].error]
  BY DEF parse
<1> HIDE DEF u
<1>8. CASE u[2] = "body"
  <2>1. request.id = id
    BY <1>3, <1>4, <1>8 DEF Typed, RequestsTyped, u
  <2>2. request' = [request EXCEPT !.completed = TRUE]
    BY <1>7, <1>8
  <2>3. request'.id = request.id /\ request'.expect = request.expect
    BY <2>2 DEF Typed, RequestsTyped
  <2>4. u = <<request.id, "body">>
    BY <1>5, <1>8, <2>1
  <2> QED
    BY <1>1, <1>2, <1>3, <1>4, <2>3, <2>4 DEF u
<1>9. CASE u[2] = "head"
  <2>1. request' = [id |-> id, expect |-> script[id].expect,
                    completed |-> ~script[id].body \/ script[id].error]
    BY <1>7, <1>9
  <2>2. /\ request'.id = id /\ request'.expect = script[id].expect
        /\ request'.completed = (~script[id].body \/ script[id].error)
    BY <2>1
  <2>3. u = <<request'.id, "head">>
    BY <1>5, <1>9, <2>2
  <2>4. request'.expect => script[request'.id].expect /\ ~request'.completed
    BY <1>6, <2>2
  <2> QED
    BY <1>1, <1>2, <1>3, <1>4, <1>5, <2>2, <2>3, <2>4 DEF u
<1> QED
  BY <1>5, <1>8, <1>9

LEMMA ParseAnswers ==
    ASSUME IInv, FInv, Typed, Answering, ContinuesInTime', parse
    PROVE  Answering'
<1>1. /\ parsed' = parsed + 1 /\ parsed \in Nat /\ Units' = Units /\ parsed < Len(Units)
      /\ UNCHANGED <<requests, sent_continue, connected, script, requests_lock>>
      /\ requests_lock = Main /\ ParserLive /\ pc[Main] = "parse"
      /\ pc' = [pc EXCEPT ![Main] = IF ContinueDue(request') THEN "continue" ELSE "queue"]
  BY Parses
<1>2. /\ pc'[Main] = IF ContinueDue(request') THEN "continue" ELSE "queue"
      /\ \A w \in Workers : pc'[w] = pc[w]
  BY <1>1, ThreadKinds DEF IInv, Shapes
<1>3. ~request.completed
  BY <1>1 DEF Answering, Completes
<1>4. CASE /\ Units[parsed + 1] = <<request'.id, "head">>
           /\ request'.id \in 1 .. Len(script)
           /\ request'.expect => script[request'.id].expect /\ ~request'.completed
  <2>1. AtHead'
    <3>1. pc'[Main] = "continue" => request'.expect
      BY <1>2 DEF ContinueDue
    <3>2. parsed' > 0 /\ Units'[parsed'] = <<request'.id, "head">>
      BY <1>1, <1>4
    <3> QED
      BY <1>1, <1>4, <3>1, <3>2 DEF AtHead
  <2>2. Completes'
    BY <1>2, <1>4 DEF Completes, ContinueDue
  <2>3. Postponed'
    BY <1>1, <1>2 DEF Postponed, ContinueDue
  <2>4. ~sent_continue
    <3>1. Units[parsed + 1] # <<request.id, "body">>
      BY <1>4
    <3> QED
      BY <1>1, <1>3, <3>1 DEF Answering, BodyDue
  <2>5. BodyDue'
    BY <1>1, <2>4 DEF BodyDue
  <2> QED
    BY <2>1, <2>2, <2>3, <2>5 DEF Answering
<1>5. CASE /\ Units[parsed + 1] = <<request.id, "body">>
           /\ request'.id = request.id /\ request'.expect = request.expect
  <2>1. \A w \in Workers : pc[w] # "next"
    BY <1>1, ThreadKinds DEF IInv, LockIsHeld, HoldsRequests
  <2>2. ~ContinueDue(request')
    <3>1. SUFFICES ASSUME ContinueDue(request') PROVE FALSE
      OBVIOUS
    <3>2. request.expect /\ ~sent_continue /\ requests = <<>>
      BY <1>1, <1>5, <3>1 DEF ContinueDue
    <3>3. ~connected
      BY <1>1, <2>1, <3>2 DEF Answering, Postponed
    <3> QED
      BY <1>1, <1>2, <3>1, <3>3, ThreadKinds DEF ContinuesInTime
  <2>3. pc'[Main] = "queue"
    BY <1>2, <2>2
  <2>4. AtHead' /\ Completes'
    BY <2>3 DEF AtHead, Completes
  <2>5. Postponed'
    BY <1>1, <1>2, <1>5 DEF Answering, Postponed
  <2>6. BodyDue'
    <3>1. sent_continue => request.id \in 1 .. Len(script) /\ script[request.id].body
      BY <1>1 DEF Answering, BodyDue
    <3>2. request'.completed
      <4>1. Units[parsed + 1][2] = "body"
        BY <1>5
      <4>2. request' = [request EXCEPT !.completed = TRUE]
        BY <4>1 DEF parse
      <4> QED
        BY <4>2 DEF Typed, RequestsTyped
    <3> QED
      BY <1>1, <1>5, <3>1, <3>2 DEF BodyDue
  <2> QED
    BY <2>4, <2>5, <2>6 DEF Answering
<1> QED
  BY <1>4, <1>5, Parses

LEMMA QueueAnswers ==
    ASSUME IInv, FInv, Typed, Answering, queue_request
    PROVE  Answering'
<1>1. /\ UNCHANGED <<script, parsed, connected>> /\ pc[Main] = "queue" /\ Units' = Units
      /\ ParserLive
  <2>1. UNCHANGED <<script, parsed, connected>> /\ pc[Main] = "queue"
    BY DEF queue_request, client, input
  <2> QED
    BY <2>1, ThreadKinds DEF Units, IInv, LockIsHeld, HoldsRequests, ParserLive
<1>2. pc'[Main] \in {"write", "parse"} /\ \A w \in Workers : pc'[w] = pc[w]
  BY ThreadKinds DEF queue_request, Go, IInv, Shapes
<1>3. CASE request.completed
  <2>1. request' = NoRequest /\ sent_continue' = FALSE
    BY <1>3 DEF queue_request
  <2> QED
    BY <1>2, <2>1 DEF NoRequest, Answering, AtHead, Completes, Postponed, BodyDue
<1>4. CASE ~request.completed
  <2>1. UNCHANGED <<request, requests, sent_continue>>
    BY <1>4 DEF queue_request
  <2>2. AtHead' /\ Completes'
    BY <1>2, <1>4, <2>1 DEF AtHead, Completes
  <2>3. Postponed'
    BY <1>1, <1>2, <2>1 DEF Answering, Postponed
  <2>4. BodyDue'
    BY <1>1, <2>1 DEF Answering, BodyDue
  <2> QED
    BY <2>2, <2>3, <2>4 DEF Answering
<1> QED
  BY <1>3, <1>4

LEMMA ContinueAnswers ==
    ASSUME IInv, FInv, Typed, Answering, send_continue(Main)
    PROVE  Answering'
<1>1. /\ UNCHANGED <<script, parsed, requests, connected>> /\ Units' = Units
      /\ request' = [request EXCEPT !.expect = FALSE] /\ pc[Main] = "continue"
      /\ pc'[Main] \in {"top", "raised"}
  <2>1. UNCHANGED <<script, parsed, requests, connected>> /\ pc[Main] = "continue"
        /\ request' = [request EXCEPT !.expect = FALSE]
    BY DEF send_continue, client, input
  <2> QED
    BY <2>1, ContinueMoves, ThreadKinds DEF Units, IInv
<1>2. request'.id = request.id /\ request'.completed = request.completed /\ ~request'.expect
  BY <1>1 DEF Typed, RequestsTyped
<1>3. /\ parsed > 0 /\ Units[parsed] = <<request.id, "head">>
      /\ request.id \in 1 .. Len(script) /\ script[request.id].expect
      /\ ~request.completed
  BY <1>1 DEF Answering, AtHead
<1>4. script[request.id].body
  <2>1. script \in Scripts /\ script \in Seq(Requests)
    BY ScriptsShape DEF Typed, InputTyped
  <2>2. request.id \in DOMAIN script
    BY <1>3, <2>1, LenProperties
  <2> QED
    BY <1>3, <2>1, <2>2, ScriptsShape
<1>5. Units[parsed + 1] = <<request.id, "body">>
  <2>1. Grammatical(script, Units)
    BY UnitsGrammatical DEF Typed, InputTyped
  <2>2. parsed \in 1 .. Len(Units)
    <3>1. Len(Units) \in Nat
      BY UnitsTyped DEF Typed, InputTyped
    <3> QED
      BY <1>3, <3>1 DEF Typed, InputTyped
  <2> QED
    BY <1>3, <1>4, <2>1, <2>2 DEF Grammatical
<1>6. AtHead' /\ Completes' /\ Postponed'
  BY <1>1, <1>2, <1>3 DEF AtHead, Completes, Postponed
<1>7. BodyDue'
  BY <1>1, <1>2, <1>3, <1>4, <1>5 DEF BodyDue
<1> QED
  BY <1>6, <1>7 DEF Answering

LEMMA OtherAnswers ==
    ASSUME IInv, FInv, Typed, Dropping, Answering, ContinuesInTime', [Next]_vars,
           ~parse, ~queue_request, ~send_continue(Main), UNCHANGED <<request, sent_continue>>
    PROVE  Answering'
<1>1. /\ Shapes /\ script' = script /\ Units' = Units /\ connected \in BOOLEAN
      /\ ParserLive' => ParserLive
  BY ScriptStays, LiveBefore DEF IInv, Typed, FlagsTyped, Units
<1>2. pc'[Main] = "continue" <=> pc[Main] = "continue"
  BY ContinueFromParse
<1>3. parsed' = parsed \/ (received /\ pc[Main] = "received" /\ ~ParserLive')
  <2>1. CASE received /\ AboutToClose
    <3>1. requests_lock' = requests_lock /\ requests_lock = None /\ AboutToClose'
      BY <2>1 DEF received, shared, locks, AboutToClose
    <3> QED
      BY <2>1, <3>1, ThreadKinds DEF received, ParserLive
  <2>2. CASE received /\ ~AboutToClose
    BY <2>2 DEF received
  <2> QED
    BY <2>1, <2>2, WhoReadsOn
<1>4. AtHead'
  BY <1>1, <1>2, <1>3 DEF Answering, AtHead
<1>5. Completes'
  BY ContinueFromParse DEF Answering, Completes
<1>6. BodyDue'
  BY <1>1, <1>3 DEF Answering, BodyDue
<1>7. Postponed'
  <2>1. SUFFICES ASSUME ParserLive', request.expect, ~sent_continue, pc[Main] # "continue",
                        connected'
                 PROVE  requests' # <<>> \/ \E w \in Workers : pc'[w] = "next"
    BY <1>2 DEF Postponed
  <2>2. connected
    BY <2>1, NeverReconnected
  <2>3. requests # <<>> \/ \E w \in Workers : pc[w] = "next"
    BY <1>1, <2>1, <2>2 DEF Answering, Postponed
  <2>4. CASE requests # <<>>
    <3>1. CASE shutdown /\ requests' = <<>>
      <4>1. requests_lock # Main
        <5>1. pc[Main] = "stopping"
          BY <3>1 DEF shutdown
        <5> QED
          BY <1>1, <5>1, ThreadKinds
          DEF IInv, LockIsHeld, HoldsRequests, Continuing, Shapes, InFlush
      <4>2. connected' = FALSE
        BY <2>4, <3>1 DEF shutdown
      <4> QED
        BY <2>1, <4>2
    <3>2. ASSUME NEW w \in Workers, drop_requests(w) PROVE FALSE
      <4>1. AboutToClose' /\ requests_lock' = None
        BY <3>2 DEF drop_requests, Dropping, AboutToClose
      <4> QED
        BY <2>1, <4>1, ThreadKinds DEF ParserLive
    <3>3. ASSUME NEW w \in Workers, pop_request(w) PROVE pc'[w] = "next"
      BY <1>1, <3>3, ThreadKinds DEF pop_request, Go, Shapes
    <3> QED
      BY <2>4, <3>1, <3>2, <3>3, WhoEmpties
  <2>5. ASSUME NEW w \in Workers, pc[w] = "next", pc'[w] # "next", requests = <<>>
        PROVE  FALSE
    <3>1. w \in Threads /\ w # Main
      BY ThreadKinds
    <3>2. WorkerStep(w)
      BY <2>5, OwnJob
    <3>3. next_request(w)
      BY <2>5, <3>2 DEF WorkerStep, take_task, service_start, app_writes, app_raises,
         write_soon, put, wait_returns, finish, flush_before_next, close_soon, drop_requests,
         pop_request, service_ends, send_continue, flush_some, flush_top, send_some,
         send_nothing,
         flush_skip, flush_deduct, SentOn, flush_return, flush_raise, handle_close,
         dispatcher_close
    <3>4. WantsContinue
      BY <2>1 DEF WantsContinue
    <3>5. pc'[w] = "continue"
      BY <1>1, <2>2, <2>5, <3>1, <3>3, <3>4 DEF next_request, Go, Shapes
    <3> QED
      BY <3>1, <3>5 DEF ContinuesInTime
  <2> QED
    BY <2>3, <2>4, <2>5
<1> QED
  BY <1>4, <1>5, <1>6, <1>7 DEF Answering

LEMMA AnswersInit == Init => Answering
<1> SUFFICES ASSUME Init PROVE Answering
  OBVIOUS
<1>1. pc[Main] = "poll" /\ request = NoRequest /\ sent_continue = FALSE
  BY ThreadKinds DEF Init
<1>2. ~request.completed /\ ~request.expect
  BY <1>1 DEF NoRequest
<1> QED
  BY <1>1, <1>2 DEF Answering, AtHead, Completes, Postponed, BodyDue

LEMMA AnswersNext ==
    ASSUME IInv, FInv, Typed, Dropping, Answering, ContinuesInTime, ContinuesInTime',
           [Next]_vars
    PROVE  Answering'
<1>1. CASE parse \/ queue_request \/ send_continue(Main)
  BY <1>1, ParseAnswers, QueueAnswers, ContinueAnswers
<1>2. CASE ~parse /\ ~queue_request /\ ~send_continue(Main)
  BY <1>2, WhoAnswers, OtherAnswers DEF Answering
<1> QED
  BY <1>1, <1>2

\* Main reads on when nothing is buffered; what it reads may send one continue.
Reading ==
    /\ \/ pc[Main] \in {"select", "blocked", "drain", "read"} /\ ready.r
       \/ pc[Main] \in {"received", "continue"}
       => Fits
    /\ \/ pc[Main] \in {"parse", "queue"}
       \/ pc[Main] \in InFlush \ {"raised"} /\ flush[Main].ctx = "continue"
       => sent_continue \/ requests # <<>> \/ Fits

LEMMA ReadingInit == Init => Reading
<1> SUFFICES ASSUME Init PROVE Reading
  OBVIOUS
<1>1. pc[Main] = "poll"
  BY ThreadKinds DEF Init
<1> QED
  BY <1>1 DEF Reading, InFlush

\* A continue is sent by main, and makes the total one larger.
LEMMA OneMore ==
    ASSUME Typed, AtHead, Fits, ContinuesInTime, NEW t \in Threads, send_continue(t)
    PROVE  t = Main /\ \E n \in WriteSizes : total' =< Hwm + n + AContinue
<1>1. t = Main /\ pc[Main] = "continue"
  BY DEF send_continue, ContinuesInTime
<1>2. AContinue = 1
  <2>1. request.id \in 1 .. Len(script) /\ script[request.id].expect
    BY <1>1 DEF AtHead
  <2>2. script \in Seq(Requests)
    BY ScriptsShape DEF Typed, InputTyped
  <2>3. request.id \in DOMAIN script
    BY <2>1, <2>2, LenProperties
  <2> QED
    BY <2>1, <2>3 DEF AContinue
<1>3. PICK n \in WriteSizes : total =< Hwm + n
  BY DEF Fits
<1>4. total' = total \/ total' = total + 1
  BY DEF send_continue, NewTotal
<1>5. total \in Int /\ Hwm \in Nat /\ n \in Nat
  BY LimitsTyped, SizesTyped DEF Typed, BuffersTyped, InputTyped
<1>6. total' =< Hwm + n + 1
  BY <1>3, <1>4, <1>5
<1> QED
  BY <1>1, <1>2, <1>6

\* Nobody takes requests away while main parses.
LEMMA RequestsRemain ==
    ASSUME IInv, FInv, Typed, requests_lock = Main, requests # <<>>, [Next]_vars
    PROVE  requests' # <<>>
<1>1. ~shutdown
  BY ThreadKinds DEF shutdown, IInv, LockIsHeld, HoldsRequests, Continuing, Shapes, InFlush
<1>2. \A w \in Workers : ~drop_requests(w) /\ ~pop_request(w)
  BY ThreadKinds DEF drop_requests, pop_request, IInv, LockIsHeld, HoldsRequests
<1> QED
  BY <1>1, <1>2, WhoEmpties

LEMMA ReadingParses ==
    ASSUME IInv, FInv, Typed, Answering, Reading, ContinuesInTime, Fits => Fits',
           parse \/ queue_request
    PROVE  Reading'
<1>1. /\ Shapes /\ Main \in Threads /\ pc[Main] \notin InFlush /\ flush[Main].ctx # "continue"
      /\ flush' = flush /\ requests \in Seq(1 .. Len(script))
      /\ sent_continue \/ requests # <<>> \/ Fits
  <2>1. pc[Main] \in {"parse", "queue"} /\ flush' = flush
    BY DEF parse, queue_request
  <2> QED
    BY <2>1, ThreadKinds DEF IInv, Shapes, InFlush, Reading, Typed, RequestsTyped
<1>2. CASE parse
  <2>1. /\ UNCHANGED <<requests, sent_continue>>
        /\ pc'[Main] = IF ContinueDue(request') THEN "continue" ELSE "queue"
    BY <1>1, <1>2, Parses DEF Shapes
  <2>2. ContinueDue(request') => Fits'
    BY <1>1 DEF ContinueDue
  <2> QED
    BY <1>1, <2>1, <2>2 DEF Reading, InFlush
<1>3. CASE queue_request
  <2>1. pc'[Main] \in {"write", "parse"} /\ pc[Main] = "queue"
    BY <1>1, <1>3 DEF queue_request, Go, Shapes
  <2>2. sent_continue' \/ requests' # <<>> \/ Fits'
    <3>1. CASE ~request.completed
      BY <1>1, <1>3, <3>1 DEF queue_request
    <3>2. CASE request.completed /\ ~script[request.id].empty
      <4>1. requests' = Append(requests, request.id)
        BY <1>3, <3>2 DEF queue_request
      <4> QED
        BY <1>1, <4>1
    <3>3. CASE request.completed /\ script[request.id].empty
      <4>1. requests' = requests
        BY <1>3, <3>3 DEF queue_request
      <4>2. ParserLive
        BY <2>1, ThreadKinds DEF IInv, LockIsHeld, HoldsRequests, ParserLive
      <4>3. ~sent_continue
        <5>1. ASSUME sent_continue PROVE FALSE
          <6>1. request.id \in 1 .. Len(script) /\ script[request.id].body
            BY <4>2, <5>1 DEF Answering, BodyDue
          <6>2. script \in Scripts /\ script \in Seq(Requests)
            BY ScriptsShape DEF Typed, InputTyped
          <6>3. request.id \in DOMAIN script
            BY <6>1, <6>2, LenProperties
          <6> QED
            BY <3>3, <6>1, <6>2, <6>3, ScriptsShape
        <5> QED
          BY <5>1
      <4> QED
        BY <1>1, <4>1, <4>3
    <3> QED
      BY <3>1, <3>2, <3>3
  <2>3. pc'[Main] \notin InFlush
    BY <2>1 DEF InFlush
  <2> QED
    BY <2>1, <2>2, <2>3 DEF Reading
<1> QED
  BY <1>2, <1>3

LEMMA ReadingFlush ==
    ASSUME IInv, FInv, Typed, Reading, Fits => Fits',
           flush_some(Main) \/ handle_close(Main) \/ dispatcher_close(Main)
    PROVE  Reading'
<1>1. Shapes /\ Main \in Threads
  BY ThreadKinds DEF IInv
<1>2. UNCHANGED <<requests, sent_continue>>
  <2>1. requests' = requests
    BY FlushLeavesAlone
  <2>2. sent_continue' = sent_continue
    BY DEF flush_some, flush_top, send_some, send_nothing,
       flush_skip, flush_deduct, SentOn, flush_return,
       flush_raise, handle_close, dispatcher_close, shared
  <2> QED
    BY <2>1, <2>2
<1>3. \/ pc'[Main] \in {"after", "close", "close2", "poll"}
      \/ pc'[Main] = "waiting" \/ pc'[Main] = "app" \/ pc'[Main] = "put" \/ pc'[Main] = "pop"
      \/ /\ pc[Main] \in InFlush \ {"raised"}
         /\ \/ pc'[Main] \in InFlush /\ flush'[Main].ctx = flush[Main].ctx
            \/ pc'[Main] = "queue" /\ flush[Main].ctx = "continue"
  <2>1. CASE \/ flush_top(Main) \/ send_some(Main) \/ send_nothing(Main)
             \/ flush_skip(Main) \/ flush_deduct(Main)
    BY <1>1, <2>1, TopMoves, SendMoves, SkipMoves DEF Within, InFlush
  <2>2. CASE flush_return(Main)
    BY <1>1, <2>2, ReturnMoves DEF Within, Leaves, InFlush
  <2>3. CASE flush_raise(Main)
    BY <1>1, <2>3, RaiseMoves DEF Within, Leaves, InFlush
  <2>4. CASE handle_close(Main) \/ dispatcher_close(Main)
    BY <1>1, <2>4, CloseMoves, DispatcherCloseMoves DEF Within, InFlush
  <2> QED
    BY <2>1, <2>2, <2>3, <2>4 DEF flush_some
<1>4. pc'[Main] \notin {"select", "blocked", "drain", "read", "received", "continue", "parse"}
  BY <1>3 DEF InFlush
<1>5. CASE pc[Main] \in InFlush \ {"raised"} /\ flush[Main].ctx = "continue"
  BY <1>2, <1>4, <1>5 DEF Reading
<1>6. CASE ~(pc[Main] \in InFlush \ {"raised"} /\ flush[Main].ctx = "continue")
  <2>1. ~(pc'[Main] \in InFlush \ {"raised"} /\ flush'[Main].ctx = "continue")
        /\ pc'[Main] # "queue"
    BY <1>3, <1>6 DEF InFlush
  <2> QED
    BY <1>4, <2>1 DEF Reading
<1> QED
  BY <1>5, <1>6

LEMMA ReadingPolls ==
    ASSUME IInv, FInv, Typed, Reading, Fits => Fits', [Next]_vars,
           \/ server_readable \/ readable \/ writable \/ enter_select \/ select_returns
           \/ select_times_out \/ trigger_read \/ interrupt \/ handle_read
           \/ handle_write \/ after_flush \/ shutdown \/ received
    PROVE  Reading'
<1>1. Shapes /\ Main \in Threads /\ total \in Int /\ Hwm \in Nat
  BY ThreadKinds, LimitsTyped DEF IInv, Typed, BuffersTyped
<1>2. CASE writable
  <2>1. pc'[Main] = "select" /\ total' = total /\ (ready'.r => total = 0)
    BY <1>1, <1>2 DEF writable, Go, Shapes, buffers
  <2>2. ready'.r => Fits'
    <3>1. 1 \in WriteSizes /\ WriteSizes' = WriteSizes
      BY SizesTyped, ScriptStays DEF Typed, InputTyped
    <3>2. ready'.r => total' =< Hwm + 1
      BY <1>1, <2>1
    <3> QED
      BY <3>1, <3>2 DEF Fits
  <2> QED
    BY <2>1, <2>2 DEF Reading, InFlush
<1>3. CASE handle_write
  <2>1. /\ pc' = [pc EXCEPT ![Main] = "poll"] \/ pc' = [pc EXCEPT ![Main] = "after"]
           \/ /\ pc' = [pc EXCEPT ![Main] = "top"]
              /\ \/ flush' = [flush EXCEPT ![Main].ctx = "unlocked"]
                 \/ flush' = [flush EXCEPT ![Main].ctx = "lockable"]
    BY <1>3 DEF handle_write, Go, StartFlush
  <2>2. pc'[Main] \in {"poll", "after"} \/ (pc'[Main] = "top" /\ flush'[Main].ctx # "continue")
    BY <1>1, <2>1 DEF Shapes, FlushFields
  <2> QED
    BY <2>2 DEF Reading, InFlush
<1>4. CASE server_readable \/ readable \/ select_times_out \/ interrupt \/ after_flush
           \/ shutdown
  <2>1. \/ pc'[Main] \in {"readable", "writable", "poll", "stopping", "close", "stopped"}
        \/ pc'[Main] = "select" /\ ~ready'.r
    <3>1. CASE readable
      BY <1>1, <3>1 DEF readable, Go, Shapes
    <3>2. CASE server_readable \/ select_times_out \/ interrupt \/ after_flush \/ shutdown
      BY <1>1, <3>2 DEF server_readable, select_times_out, interrupt, after_flush,
         shutdown, Go, Shapes
    <3> QED
      BY <1>4, <3>1, <3>2
  <2> QED
    BY <2>1 DEF Reading, InFlush
<1>5. CASE enter_select \/ select_returns \/ trigger_read \/ handle_read
  <2>1. pc[Main] \in {"select", "blocked", "drain", "read"}
    BY <1>5 DEF enter_select, select_returns, trigger_read, handle_read
  <2>2. ready'.r => ready.r
    <3>1. CASE select_returns
      BY <3>1 DEF select_returns
    <3>2. CASE enter_select \/ trigger_read \/ handle_read
      BY <3>2 DEF enter_select, trigger_read, handle_read
    <3> QED
      BY <1>5, <3>1, <3>2
  <2>3. \/ pc'[Main] \in {"crashed", "blocked", "drain", "read", "write", "close"}
        \/ pc'[Main] = "received" /\ ready.r
    <3>1. CASE handle_read
      BY <1>1, <3>1 DEF handle_read, Go, Shapes
    <3>2. CASE enter_select \/ select_returns \/ trigger_read
      BY <1>1, <3>2 DEF enter_select, select_returns, trigger_read, Go, Shapes
    <3> QED
      BY <1>5, <3>1, <3>2
  <2> QED
    BY <2>1, <2>2, <2>3 DEF Reading, InFlush
<1>6. CASE received
  <2>1. pc[Main] = "received" /\ pc'[Main] \in {"write", "parse"}
    BY <1>1, <1>6 DEF received, Go, Shapes
  <2> QED
    BY <2>1 DEF Reading, InFlush
<1> QED
  BY <1>2, <1>3, <1>4, <1>5, <1>6

LEMMA ReadingNext ==
    ASSUME IInv, FInv, Typed, Room, ChunksKnown, Answering, Reading, ContinuesInTime,
           [Next]_vars
    PROVE  Reading'
<1>1. CASE send_continue(Main)
  <2>1. \/ pc'[Main] = "top" /\ sent_continue' = TRUE
        \/ pc'[Main] = "raised"
    BY <1>1, ThreadKinds DEF send_continue, Go, IInv, Shapes
  <2> QED
    BY <2>1 DEF Reading, InFlush
<1>2. ASSUME ~send_continue(Main), Fits PROVE Fits'
  <2>1. \A t \in Threads : ~send_continue(t)
    BY <1>2 DEF send_continue, ContinuesInTime
  <2> QED
    BY <1>2, <2>1, FitsNext
<1>3. CASE ~send_continue(Main) /\ (MainStep \/ select_times_out \/ interrupt)
  BY <1>2, <1>3, ReadingParses, ReadingFlush, ReadingPolls DEF MainStep
<1>4. CASE ~(MainStep \/ select_times_out \/ interrupt)
  <2>1. pc'[Main] = pc[Main] /\ flush'[Main] = flush[Main]
    BY <1>4, MainStaysOr
  <2>2. UNCHANGED <<request, sent_continue>> /\ ~send_continue(Main)
    BY <1>4, WhoAnswers DEF MainStep, Answering
  <2>3. ready' = ready
    <3>1. CASE UNCHANGED vars \/ ClientStep
      BY <3>1 DEF vars, ClientStep, client_sends, client_reads, client_leaves,
                  time_passes, server
    <3>2. ASSUME NEW w \in Workers, WorkerStep(w) PROVE ready' = ready
      BY <3>2, WorkersLeaveAlone
    <3> QED
      BY <1>4, <3>1, <3>2 DEF Next
  <2>4. CASE pc[Main] \in {"parse", "queue"} \/ flush[Main].ctx = "continue"
    <3>1. requests_lock = Main
      BY <2>4, ThreadKinds DEF IInv, LockIsHeld, HoldsRequests, Continuing
    <3>2. requests # <<>> => requests' # <<>>
      BY <3>1, RequestsRemain
    <3> QED
      BY <1>2, <2>1, <2>2, <2>3, <3>2 DEF Reading
  <2>5. CASE ~(pc[Main] \in {"parse", "queue"} \/ flush[Main].ctx = "continue")
    BY <1>2, <2>1, <2>2, <2>3, <2>5 DEF Reading
  <2> QED
    BY <2>4, <2>5
<1> QED
  BY <1>1, <1>3, <1>4

LEMMA BoundedNext ==
    ASSUME IInv, FInv, Typed, Room, ChunksKnown, Answering, Reading, ContinuesInTime,
           OutputBounded, [Next]_vars
    PROVE  OutputBounded'
<1>1. /\ total \in Int /\ Hwm \in Nat /\ WriteSizes' = WriteSizes /\ AContinue' = AContinue
      /\ AContinue \in {0, 1} /\ WriteSizes \subseteq Nat \ {0}
  BY LimitsTyped, ScriptStays, SizesTyped DEF Typed, BuffersTyped, InputTyped, AContinue
<1>2. CASE \E t \in Threads : send_continue(t)
  <2>1. PICK t \in Threads : send_continue(t)
    BY <1>2
  <2>2. t = Main /\ pc[Main] = "continue"
    BY <2>1 DEF send_continue, ContinuesInTime
  <2>3. Fits
    BY <2>2 DEF Reading
  <2>4. \E n \in WriteSizes : total' =< Hwm + n + AContinue
    BY <2>1, <2>3, OneMore DEF Answering
  <2> QED
    BY <1>1, <2>4 DEF OutputBounded
<1>3. CASE \A t \in Threads : ~send_continue(t)
  <2>1. CASE Fits
    <3>1. PICK n \in WriteSizes : total' =< Hwm + n
      BY <1>1, <1>3, <2>1, FitsNext DEF Fits
    <3>2. total' \in Int
      BY TypedNext DEF Typed, BuffersTyped
    <3>3. total' =< Hwm + n + AContinue
      BY <1>1, <3>1, <3>2
    <3> QED
      BY <1>1, <3>3 DEF OutputBounded
  <2>2. CASE ~Fits
    <3>1. PICK n \in WriteSizes : total =< Hwm + n + AContinue
      BY DEF OutputBounded
    <3> DEFINE m == Hwm + n + AContinue
    <3>2. m \in Int /\ total =< m /\ 0 =< m
      BY <1>1, <3>1
    <3>3. ASSUME NEW w \in Workers, put(w) PROVE total' = total
      <4>1. CASE connected
        <5>1. total =< Hwm
          BY <3>3, <4>1 DEF put, Room
        <5>2. 1 \in WriteSizes
          BY SizesTyped DEF Typed, InputTyped
        <5>3. total =< Hwm + 1
          BY <1>1, <5>1
        <5> QED
          BY <2>2, <5>2, <5>3 DEF Fits
      <4>2. CASE ~connected
        BY <3>3, <4>2 DEF put, LeftMeanwhile
      <4> QED
        BY <4>1, <4>2
    <3> HIDE DEF m
    <3>4. total' =< m
      BY <1>3, <3>2, <3>3, WhoFills
    <3>5. total' =< Hwm + n + AContinue
      BY <3>4 DEF m
    <3> QED
      BY <1>1, <3>5 DEF OutputBounded
  <2> QED
    BY <2>1, <2>2
<1> QED
  BY <1>2, <1>3

\* The watermark bounds the memory that a slow client costs (channel.py:356-360 and
\* 396-417): at most one chunk, and one continue, lie above it, because write_soon tests it with
\* the lock, main reads only when nothing is buffered, and what it reads then
\* sends no second continue before a request is queued.
THEOREM OutputIsBounded == Spec /\ []ContinuesInTime => []OutputBounded
<1> DEFINE BInv == /\ ContinueAlone /\ Room /\ ChunksKnown /\ Dropping /\ Answering /\ Reading
                   /\ OutputBounded
<1>1. Init => BInv
  <2> SUFFICES ASSUME Init PROVE OutputBounded
    BY AloneInit, RoomInit, ChunksInit, DroppingInit, AnswersInit, ReadingInit
  <2>1. total = 0 /\ 1 \in WriteSizes /\ Hwm \in Nat /\ AContinue \in {0, 1}
    BY SizesTyped, LimitsTyped DEF Init, AContinue
  <2>2. total =< Hwm + 1 + AContinue
    BY <2>1
  <2> QED
    BY <2>1, <2>2 DEF OutputBounded
<1>2. IInv /\ FInv /\ Typed /\ BInv /\ ContinuesInTime /\ ContinuesInTime' /\ [Next]_vars
        => BInv'
  BY AloneNext, RoomNext, ChunksNext, DroppingNext, AnswersNext, ReadingNext, BoundedNext
<1>3. BInv => OutputBounded
  OBVIOUS
<1> HIDE DEF BInv
<1> QED
  BY <1>1, <1>2, <1>3, InvAlways, FInvAlways, TypedAlways, PTL DEF Spec

=============================================================================
